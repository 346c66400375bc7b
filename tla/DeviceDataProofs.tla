-------------------------- MODULE DeviceDataProofs --------------------------
(***************************************************************************)
(* Proofs about what is read from a device, for any inputs: ProfileImages, *)
(* Raw12 and LidarPoints, one after the other.  They share no state.       *)
(***************************************************************************)
EXTENDS ProfileImages, Raw12, LidarPoints, SequenceTheorems, TLAPS

-----------------------------------------------------------------------------
(***************************************************************************)
(* ProfileImages for every set of cameras and images and every image size: *)
(* a camera's slot holds exactly what its chunks since the last one        *)
(* flagged first are the beginning of (Joined), so that a call returns an  *)
(* image if and only if they are one whole image.                          *)
(***************************************************************************)

(* The first units of image i. *)
IsStart(encoded, i) ==
  \A n \in 1 .. Len(encoded) : encoded[n] = [image |-> i, at |-> n - 1]

End(c) == c.offset + c.data

(* The slot of a camera whose run of chunks is `run'. *)
Joined(slot, run) ==
  \/ /\ slot = EmptySlot
     /\ run # <<>> => \E i \in Images : IsRunOf(run, i)
  \/ /\ slot.image \in Images /\ slot.encoded \in Seq(Unit)
     /\ slot = [image |-> slot.image, encoded |-> slot.encoded]
     /\ IsStart(slot.encoded, slot.image)
     /\ Begins(run, slot.image) /\ ~run[Len(run)].flags.last
     /\ Len(slot.encoded) = End(run[Len(run)])

ResultType == /\ result.threw \in BOOLEAN /\ result.camera \in Cameras \cup {None}
              /\ result.image \in Seq(Unit)

IInv ==
  /\ slots = [c \in Cameras |-> slots[c]] /\ sent \in [Cameras -> Seq(Chunk)]
  /\ \A c \in Cameras : Joined(slots[c], sent[c])
  /\ ResultType
  /\ DeliversExactlyWholeRuns

-----------------------------------------------------------------------------
(* Chunks and runs *)

LEMMA ChunkFacts ==
  ASSUME NEW c \in Chunk
  PROVE  /\ c.camera \in Cameras \cup {None}
         /\ c.flags.first \in BOOLEAN /\ c.flags.last \in BOOLEAN
         /\ c.offset \in Nat /\ c.data \in Nat \ {0}
         /\ c.image # None => /\ c.image \in Images /\ c.camera \in Cameras
                              /\ End(c) <= Size[c.image]
<1>1. CASE c \in BadChunks
  BY <1>1 DEF BadChunks, Flags
<1>2. CASE c \notin BadChunks
  <2>1. PICK i \in Images : c \in ChunksOf(i)
    BY <1>2 DEF Chunk
  <2>2. Size[i] \in Nat \ {0}
    BY SizeAssumption
  <2>3. /\ c.camera \in Cameras /\ c.flags \in Flags /\ c.image = i
        /\ c.offset \in Nat /\ c.data \in Nat \ {0} /\ End(c) <= Size[i]
    BY <2>1, <2>2 DEF ChunksOf, Units, End
  <2>4. c.flags.first \in BOOLEAN /\ c.flags.last \in BOOLEAN
    BY <2>3 DEF Flags
  <2>5. QED
    BY <2>3, <2>4
<1>3. QED
  BY <1>1, <1>2

LEMMA SizeFacts ==
  ASSUME NEW i \in Images
  PROVE  /\ i # None /\ Size[i] \in Nat \ {0}
         /\ WholeImage(i) \in Seq(Unit) /\ Len(WholeImage(i)) = Size[i]
         /\ IsStart(WholeImage(i), i) /\ WholeImage(i)[1].image = i
<1>1. i # None /\ Size[i] \in Nat \ {0}
  BY SizeAssumption, NoneAssumption
<1>2. WholeImage(i) \in [1 .. Size[i] -> Unit]
  <2>1. \A n \in 1 .. Size[i] : [image |-> i, at |-> n - 1] \in Unit
    BY <1>1 DEF Unit
  <2>2. QED
    BY <2>1 DEF WholeImage
<1>3. WholeImage(i) \in Seq(Unit) /\ Len(WholeImage(i)) = Size[i]
  BY <1>1, <1>2
<1>4. QED
  BY <1>1, <1>3 DEF IsStart, WholeImage

(* A run has one image, and every chunk but the last ends before the image does. *)
LEMMA RunFacts ==
  ASSUME NEW run \in Seq(Chunk), NEW i \in Images, Begins(run, i)
  PROVE  /\ Len(run) \in Nat \ {0} /\ run[1].image = i /\ run[Len(run)].image = i
         /\ run[Len(run)].flags.last <=> End(run[Len(run)]) = Size[i]
         /\ run[Len(run)] \in Chunk
<1>1. Len(run) \in Nat \ {0} /\ run # <<>>
  BY DEF Begins
<1>2. 1 \in 1 .. Len(run) /\ Len(run) \in 1 .. Len(run)
  BY <1>1
<1>3. QED
  BY <1>1, <1>2 DEF Begins, End

(* The run as it grows by a chunk. *)
Longer(run, c) == IF c.flags.first THEN <<c>> ELSE IF run = <<>> THEN run ELSE Append(run, c)

(* The chunk is accepted. *)
Joins(c) == ~BadEnvelope(c) /\ Fits(c) /\ (c.flags.last = EndsImage(c))

LEMMA OneChunkRun ==
  ASSUME NEW c \in Chunk, c.flags.first, NEW i \in Images
  PROVE  Begins(<<c>>, i) <=> /\ c.image = i /\ c.offset = 0
                              /\ c.flags.last <=> End(c) = Size[i]
<1>1. <<c>> # <<>> /\ Len(<<c>>) = 1 /\ <<c>>[1] = c
  OBVIOUS
<1>2. \A n \in 1 .. 1 : n = 1
  OBVIOUS
<1>3. QED
  BY <1>1, <1>2 DEF Begins, End

LEMMA LongerRun ==
  ASSUME NEW run \in Seq(Chunk), run # <<>>, NEW c \in Chunk, NEW i \in Images
  PROVE  Begins(Append(run, c), i) <=>
           /\ Begins(run, i) /\ c.image = i
           /\ c.flags.last <=> End(c) = Size[i]
           /\ End(run[Len(run)]) = c.offset /\ End(run[Len(run)]) < Size[i]
<1> DEFINE long == Append(run, c)
           n == Len(run)
<1>1. /\ n \in Nat \ {0} /\ long \in Seq(Chunk) /\ Len(long) = n + 1 /\ long # <<>>
      /\ \A k \in 1 .. n : long[k] = run[k]
      /\ long[n + 1] = c
  OBVIOUS
<1> HIDE DEF long, n
<1>2. /\ 1 \in 1 .. n /\ n \in 1 .. n /\ n + 1 \in 1 .. (n + 1)
      /\ \A k \in 1 .. (n + 1) : k \in 1 .. n \/ k = n + 1
      /\ \A k \in 1 .. n : k \in 1 .. (n + 1) /\ k < n + 1
      /\ \A k \in 1 .. n : k < n \/ k = n
      /\ \A k \in 1 .. n : k < n => k + 1 \in 1 .. n
      /\ ~(n + 1 < n + 1)
  BY <1>1
<1>3. ASSUME Begins(long, i)
      PROVE  /\ Begins(run, i) /\ c.image = i /\ (c.flags.last <=> End(c) = Size[i])
             /\ End(run[n]) = c.offset /\ End(run[n]) < Size[i]
  <2>1. \A k \in 1 .. (n + 1) :
          /\ long[k].image = i /\ (long[k].flags.last <=> End(long[k]) = Size[i])
          /\ k < n + 1 => End(long[k]) = long[k + 1].offset /\ End(long[k]) < Size[i]
    BY <1>1, <1>3 DEF Begins, End
  <2>2. \A k \in 1 .. n :
          /\ run[k].image = i /\ (run[k].flags.last <=> End(run[k]) = Size[i])
          /\ k < n => End(run[k]) = run[k + 1].offset /\ End(run[k]) < Size[i]
    BY <1>1, <1>2, <2>1
  <2>3. run[1].flags.first /\ run[1].offset = 0
    BY <1>1, <1>2, <1>3 DEF Begins
  <2>4. Begins(run, i)
    BY <1>1, <2>2, <2>3 DEF Begins, End, n
  <2>5. QED
    BY <1>1, <1>2, <2>1, <2>4
<1>4. ASSUME Begins(run, i), c.image = i, c.flags.last <=> End(c) = Size[i],
             End(run[n]) = c.offset, End(run[n]) < Size[i]
      PROVE  Begins(long, i)
  <2>1. \A k \in 1 .. n :
          /\ run[k].image = i /\ (run[k].flags.last <=> End(run[k]) = Size[i])
          /\ k < n => End(run[k]) = run[k + 1].offset /\ End(run[k]) < Size[i]
    BY <1>4 DEF Begins, End, n
  <2>2. ASSUME NEW k \in 1 .. n
        PROVE  /\ long[k].image = i /\ (long[k].flags.last <=> End(long[k]) = Size[i])
               /\ End(long[k]) = long[k + 1].offset /\ End(long[k]) < Size[i]
    <3>1. long[k] = run[k]
      BY <1>1, Zenon
    <3>2. CASE k = n
      <4>1. long[k + 1] = c /\ run[k] = run[n]
        BY <1>1, <3>2
      <4>2. QED
        BY <1>4, <2>1, <3>1, <4>1, ZenonT(40)
    <3>3. CASE k # n
      <4>1. k < n /\ k + 1 \in 1 .. n
        BY <1>1, <3>3
      <4>2. long[k + 1] = run[k + 1]
        BY <1>1, <4>1, Zenon
      <4>3. QED
        BY <2>1, <3>1, <4>1, <4>2, Zenon
    <3>4. QED
      BY <3>2, <3>3
  <2>3. \A k \in 1 .. (n + 1) :
          /\ long[k].image = i /\ (long[k].flags.last <=> End(long[k]) = Size[i])
          /\ k < n + 1 => End(long[k]) = long[k + 1].offset /\ End(long[k]) < Size[i]
    BY <1>1, <1>2, <1>4, <2>2
  <2>4. long[1].flags.first /\ long[1].offset = 0
    BY <1>1, <1>2, <1>4 DEF Begins
  <2>5. QED
    BY <1>1, <2>3, <2>4 DEF Begins, End
<1>5. QED
  BY <1>3, <1>4 DEF long, n

(* A chunk is accepted if and only if with it the run is still the beginning of an *)
(* image, or a whole one; otherwise the history forgets the run.                    *)
LEMMA JoinsFacts ==
  ASSUME IInv, NEW c \in Chunk, c.camera \in Cameras
  PROVE  LET long == Longer(sent[c.camera], c)
         IN  /\ Joins(c) => /\ Begins(long, c.image) /\ c.image \in Images
                            /\ long \in Seq(Chunk) /\ long # <<>> /\ long[Len(long)] = c
             /\ ~Joins(c) => \A i \in Images : ~Begins(long, i)
<1> DEFINE run == sent[c.camera]
           slot == slots[c.camera]
           long == Longer(run, c)
<1>1. run \in Seq(Chunk) /\ Joined(slot, run)
  BY DEF IInv
<1>2. /\ c.flags.first \in BOOLEAN /\ c.flags.last \in BOOLEAN
      /\ c.offset \in Nat /\ c.data \in Nat \ {0}
      /\ c.image # None => c.image \in Images /\ End(c) <= Size[c.image]
  BY ChunkFacts
<1>3. ASSUME NEW i \in Images
      PROVE  i # None /\ Size[i] \in Nat \ {0}
  BY SizeFacts
<1>4. CASE c.flags.first
  <2>1. long = <<c>> /\ Opened(c) = [image |-> c.image, encoded |-> <<>>]
    BY <1>4 DEF Longer, Opened
  <2>2. Fits(c) <=> c.offset = 0
    BY <2>1 DEF Fits
  <2>3. \A i \in Images : Begins(long, i) <=> /\ c.image = i /\ c.offset = 0
                                              /\ c.flags.last <=> End(c) = Size[i]
    BY <1>4, <2>1, OneChunkRun
  <2>4. c.flags.last = EndsImage(c) <=> (c.flags.last <=> End(c) = Size[c.image])
    BY <1>2 DEF EndsImage, End
  <2>5. long \in Seq(Chunk) /\ long # <<>> /\ long[Len(long)] = c
    BY <2>1
  <2>6. QED
    BY <1>2, <1>3, <2>2, <2>3, <2>4, <2>5 DEF Joins, BadEnvelope
<1>5. CASE ~c.flags.first /\ run = <<>>
  <2>1. long = <<>> /\ Opened(c) = slot
    BY <1>5 DEF Longer, Opened
  <2>2. \A i \in Images : ~Begins(long, i) /\ ~Begins(run, i)
    BY <1>5, <2>1 DEF Begins
  <2>3. slot.image = None
    BY <1>1, <2>2 DEF Joined, EmptySlot
  <2>4. ~Joins(c)
    BY <2>1, <2>3 DEF Joins, Fits, BadEnvelope
  <2>5. QED
    BY <2>2, <2>4
<1>6. CASE ~c.flags.first /\ run # <<>>
  <2> DEFINE top == run[Len(run)]
  <2>1. /\ long = Append(run, c) /\ Opened(c) = slot
        /\ long \in Seq(Chunk) /\ long # <<>> /\ long[Len(long)] = c
    BY <1>1, <1>6 DEF Longer, Opened
  <2>2. \A i \in Images : Begins(long, i) <=>
           /\ Begins(run, i) /\ c.image = i
           /\ c.flags.last <=> End(c) = Size[i]
           /\ End(top) = c.offset /\ End(top) < Size[i]
    BY <1>1, <1>6, <2>1, LongerRun
  <2>3. c.flags.last = EndsImage(c) <=> (c.flags.last <=> End(c) = Size[c.image])
    BY <1>2 DEF EndsImage, End
  <2>4. CASE slot = EmptySlot
    <3>1. PICK i \in Images : IsRunOf(run, i)
      BY <1>1, <1>3, <1>6, <2>4 DEF Joined, EmptySlot
    <3>2. run[1].image = i /\ End(top) = Size[i]
      BY <1>1, <3>1, RunFacts DEF IsRunOf
    <3>3. \A j \in Images : Begins(run, j) => j = i
      BY <1>1, <3>2, RunFacts
    <3>4. \A j \in Images : ~Begins(long, j)
      BY <1>3, <2>2, <3>2, <3>3
    <3>5. ~Joins(c)
      BY <2>1, <2>4 DEF Joins, Fits, BadEnvelope, EmptySlot
    <3>6. QED
      BY <3>4, <3>5
  <2>5. CASE slot # EmptySlot
    <3>1. /\ slot.image \in Images /\ Begins(run, slot.image) /\ ~top.flags.last
          /\ Len(slot.encoded) = End(top)
      BY <1>1, <2>5 DEF Joined
    <3>2. \A j \in Images : Begins(run, j) => j = slot.image
      BY <1>1, <3>1, RunFacts
    <3>3. Fits(c) <=> slot.image = c.image /\ End(top) = c.offset
      BY <2>1, <3>1 DEF Fits
    <3>4. c.image \in Images /\ End(top) = c.offset => End(top) < Size[c.image]
      BY <1>2, <1>3 DEF End
    <3>5. QED
      BY <1>2, <1>3, <2>1, <2>2, <2>3, <3>1, <3>2, <3>3, <3>4 DEF Joins, BadEnvelope
  <2>6. QED
    BY <2>4, <2>5
<1>7. QED
  BY <1>2, <1>4, <1>5, <1>6

(* The slot with the units of an accepted chunk. *)
LEMMA ExtendedSlot ==
  ASSUME IInv, NEW c \in Chunk, Joins(c)
  PROVE  LET encoded == Opened(c).encoded \o Data(c)
         IN  /\ encoded \in Seq(Unit) /\ Len(encoded) = End(c)
             /\ IsStart(encoded, c.image) /\ Opened(c).image = c.image
             /\ Opened(c) = [image |-> c.image, encoded |-> Opened(c).encoded]
<1> DEFINE old == Opened(c).encoded
           new == Data(c)
           encoded == old \o new
<1>1. /\ c.image \in Images /\ c.camera \in Cameras /\ c.offset \in Nat /\ c.data \in Nat \ {0}
      /\ Opened(c).image = c.image /\ Len(old) = c.offset
      /\ Joined(slots[c.camera], sent[c.camera])
  BY ChunkFacts DEF Joins, Fits, BadEnvelope, IInv
<1>2. /\ old \in Seq(Unit) /\ IsStart(old, c.image)
      /\ Opened(c) = [image |-> c.image, encoded |-> old]
  <2>1. CASE c.flags.first
    BY <2>1 DEF Opened, IsStart
  <2>2. CASE ~c.flags.first
    <3>1. Opened(c) = slots[c.camera] /\ slots[c.camera] # EmptySlot
      BY <1>1, <2>2, SizeFacts DEF Opened, EmptySlot
    <3>2. QED
      BY <1>1, <3>1 DEF Joined
  <2>3. QED
    BY <2>1, <2>2
<1>3. new \in Seq(Unit) /\ Len(new) = c.data
  <2>1. \A n \in 1 .. c.data : [image |-> c.image, at |-> c.offset + n - 1] \in Unit
    BY <1>1 DEF Unit
  <2>2. new \in [1 .. c.data -> Unit]
    BY <2>1 DEF Data
  <2>3. QED
    BY <1>1, <2>2
<1>4. \A n \in 1 .. c.data : new[n] = [image |-> c.image, at |-> c.offset + n - 1]
  BY DEF Data
<1>5. PICK x, y : x = old /\ y = new
  OBVIOUS
<1> HIDE DEF old, new
<1>6. /\ encoded \in Seq(Unit) /\ Len(encoded) = c.offset + c.data
      /\ \A n \in 1 .. (c.offset + c.data) :
           encoded[n] = IF n <= c.offset THEN old[n] ELSE new[n - c.offset]
  <2>1. old \in Seq(Unit) /\ Len(old) = c.offset
    BY <1>1, <1>2, <1>5, Zenon
  <2>2. /\ old \o new \in Seq(Unit) /\ Len(old \o new) = Len(old) + Len(new)
        /\ \A n \in 1 .. (Len(old) + Len(new)) :
             (old \o new)[n] = IF n <= Len(old) THEN old[n] ELSE new[n - Len(old)]
    BY <1>3, <2>1, ConcatProperties, Zenon
  <2>3. QED
    BY <1>3, <2>1, <2>2, Zenon
<1>7. ASSUME NEW n \in 1 .. (c.offset + c.data)
      PROVE  encoded[n] = [image |-> c.image, at |-> n - 1]
  <2>1. CASE n <= c.offset
    <3>1. n \in 1 .. Len(old)
      BY <1>1, <2>1
    <3>2. QED
      BY <1>2, <1>6, <2>1, <3>1 DEF IsStart
  <2>2. CASE ~(n <= c.offset)
    <3>1. n - c.offset \in 1 .. c.data /\ c.offset + (n - c.offset) - 1 = n - 1
      BY <1>1, <2>2
    <3>2. encoded[n] = new[n - c.offset]
      BY <1>6, <2>2
    <3>3. QED
      BY <1>4, <3>1, <3>2
  <2>3. QED
    BY <2>1, <2>2
<1> HIDE DEF encoded
<1>8. IsStart(encoded, c.image)
  BY <1>6, <1>7 DEF IsStart
<1>9. QED
  BY <1>1, <1>2, <1>6, <1>8 DEF encoded, old, new, End

-----------------------------------------------------------------------------
(* The calls *)

(* A call that concerns one camera leaves the others as they are. *)
LEMMA OtherCameras ==
  ASSUME IInv, NEW c \in Chunk, c.camera \in Cameras, NEW slot, NEW run \in Seq(Chunk),
         slots' = [slots EXCEPT ![c.camera] = slot],
         sent' = [k \in Cameras |-> IF k = c.camera THEN run ELSE sent[k]],
         Joined(slot, run), ResultType', DeliversExactlyWholeRuns'
  PROVE  IInv'
<1>1. /\ slots = [k \in Cameras |-> slots[k]] /\ sent \in [Cameras -> Seq(Chunk)]
      /\ \A k \in Cameras : Joined(slots[k], sent[k])
  BY DEF IInv
<1>2. /\ slots' = [k \in Cameras |-> slots'[k]] /\ sent' \in [Cameras -> Seq(Chunk)]
      /\ \A k \in Cameras : /\ slots'[k] = IF k = c.camera THEN slot ELSE slots[k]
                            /\ sent'[k] = IF k = c.camera THEN run ELSE sent[k]
  BY <1>1
<1>3. \A k \in Cameras : Joined(slots'[k], sent'[k])
  BY <1>1, <1>2
<1>4. QED
  BY <1>2, <1>3 DEF IInv

LEMMA RejectSound ==
  ASSUME IInv, NEW c \in Chunk, c.camera \in Cameras, ~Joins(c), Reject(c),
         sent' = [k \in Cameras |-> IF k = c.camera THEN Noted(sent[k], c) ELSE sent[k]]
  PROVE  IInv'
<1>1. Noted(sent[c.camera], c) = <<>>
  <2>1. \A i \in Images : ~Begins(Longer(sent[c.camera], c), i)
    BY JoinsFacts
  <2>2. QED
    BY <2>1 DEF Noted, Longer
<1>2. /\ slots' = [slots EXCEPT ![c.camera] = EmptySlot]
      /\ sent' = [k \in Cameras |-> IF k = c.camera THEN <<>> ELSE sent[k]]
      /\ result' = [threw |-> TRUE, camera |-> c.camera, image |-> <<>>]
  BY <1>1 DEF Reject, Threw
<1>3. Joined(EmptySlot, <<>>)
  BY DEF Joined
<1>4. ResultType'
  BY <1>2 DEF ResultType
<1>5. \A i \in Images : ~IsRunOf(<<>>, i) /\ WholeImage(i) # <<>>
  BY SizeFacts DEF IsRunOf, Begins
<1>6. sent'[c.camera] = <<>> /\ result'.camera = c.camera /\ result'.image = <<>>
  BY <1>2
<1>7. DeliversExactlyWholeRuns'
  BY <1>5, <1>6 DEF DeliversExactlyWholeRuns
<1>8. <<>> \in Seq(Chunk)
  OBVIOUS
<1>9. QED
  BY <1>2, <1>3, <1>4, <1>7, <1>8, OtherCameras

LEMMA PartialSound ==
  ASSUME IInv, NEW c \in Chunk, Partial(c),
         sent' = [k \in Cameras |-> IF k = c.camera THEN Noted(sent[k], c) ELSE sent[k]]
  PROVE  IInv'
<1> DEFINE long == Longer(sent[c.camera], c)
           encoded == Opened(c).encoded \o Data(c)
<1>1. /\ ~BadEnvelope(c) /\ Fits(c) /\ ~c.flags.last /\ ~EndsImage(c)
      /\ slots' = [slots EXCEPT ![c.camera] = [Opened(c) EXCEPT !.encoded = @ \o Data(c)]]
      /\ result' = [threw |-> FALSE, camera |-> c.camera, image |-> <<>>]
  BY DEF Partial, Returned
<1>2. Joins(c) /\ c.camera \in Cameras /\ c.image \in Images
  <2>1. c.flags.last \in BOOLEAN /\ c.image # None
    BY <1>1, ChunkFacts DEF BadEnvelope
  <2>2. c.flags.last = FALSE /\ EndsImage(c) = FALSE
    BY <1>1, <2>1 DEF EndsImage
  <2>3. QED
    BY <1>1, <2>1, <2>2, ChunkFacts DEF Joins
<1>3. /\ encoded \in Seq(Unit) /\ Len(encoded) = End(c) /\ IsStart(encoded, c.image)
      /\ Opened(c) = [image |-> c.image, encoded |-> Opened(c).encoded]
  BY <1>2, ExtendedSlot
<1>4. [Opened(c) EXCEPT !.encoded = @ \o Data(c)] = [image |-> c.image, encoded |-> encoded]
  <2>1. PICK o, i, old : o = Opened(c) /\ o = [image |-> i, encoded |-> old] /\ i = c.image
    BY <1>3
  <2>2. PICK new : new = old \o Data(c)
    OBVIOUS
  <2>3. o.encoded = old /\ [o EXCEPT !.encoded = new] = [image |-> i, encoded |-> new]
    BY <2>1
  <2>4. QED
    BY <2>1, <2>2, <2>3
<1>5. /\ Begins(long, c.image) /\ long \in Seq(Chunk) /\ long # <<>> /\ long[Len(long)] = c
  BY <1>2, JoinsFacts
<1>6. Noted(sent[c.camera], c) = long
  BY <1>2, <1>5 DEF Noted, Longer
<1> HIDE DEF long, encoded
<1>7. Joined([image |-> c.image, encoded |-> encoded], long)
  BY <1>1, <1>2, <1>3, <1>5 DEF Joined
<1>8. /\ slots' = [slots EXCEPT ![c.camera] = [image |-> c.image, encoded |-> encoded]]
      /\ sent' = [k \in Cameras |-> IF k = c.camera THEN long ELSE sent[k]]
  BY <1>1, <1>4, <1>6
<1>9. ResultType'
  BY <1>1, <1>2 DEF ResultType
<1>10. \A i \in Images : ~IsRunOf(long, i) /\ WholeImage(i) # <<>>
  BY <1>1, <1>5, SizeFacts DEF IsRunOf
<1>11. sent'[c.camera] = long /\ result'.camera = c.camera /\ result'.image = <<>>
  BY <1>1, <1>2, <1>8
<1>12. DeliversExactlyWholeRuns'
  BY <1>10, <1>11 DEF DeliversExactlyWholeRuns
<1>13. QED
  BY <1>2, <1>5, <1>7, <1>8, <1>9, <1>12, OtherCameras

LEMMA CompleteSound ==
  ASSUME IInv, NEW c \in Chunk, Complete(c),
         sent' = [k \in Cameras |-> IF k = c.camera THEN Noted(sent[k], c) ELSE sent[k]]
  PROVE  IInv'
<1> DEFINE long == Longer(sent[c.camera], c)
           encoded == Opened(c).encoded \o Data(c)
<1>1. /\ ~BadEnvelope(c) /\ Fits(c) /\ c.flags.last /\ EndsImage(c)
      /\ slots' = [slots EXCEPT ![c.camera] = EmptySlot]
      /\ result' = [threw |-> FALSE, camera |-> c.camera, image |-> encoded]
  BY DEF Complete, Returned
<1>2. Joins(c) /\ c.camera \in Cameras /\ c.image \in Images
  <2>1. c.flags.last \in BOOLEAN /\ c.image # None
    BY <1>1, ChunkFacts DEF BadEnvelope
  <2>2. c.flags.last = TRUE /\ EndsImage(c) = TRUE
    BY <1>1, <2>1 DEF EndsImage
  <2>3. QED
    BY <1>1, <2>1, <2>2, ChunkFacts DEF Joins
<1>3. /\ encoded \in Seq(Unit) /\ Len(encoded) = End(c) /\ IsStart(encoded, c.image)
  BY <1>2, ExtendedSlot
<1>4. Len(encoded) = Size[c.image]
  BY <1>1, <1>3 DEF EndsImage, End
<1>5. /\ Begins(long, c.image) /\ long \in Seq(Chunk) /\ long # <<>> /\ long[Len(long)] = c
  BY <1>2, JoinsFacts
<1>6. Noted(sent[c.camera], c) = long
  BY <1>2, <1>5 DEF Noted, Longer
<1> HIDE DEF long, encoded
<1>7. encoded = WholeImage(c.image)
  <2>1. encoded = [n \in 1 .. Len(encoded) |-> encoded[n]]
    BY <1>3
  <2>2. QED
    BY <1>3, <1>4, <2>1 DEF IsStart, WholeImage
<1>8. IsRunOf(long, c.image)
  BY <1>1, <1>5 DEF IsRunOf
<1>9. Joined(EmptySlot, long)
  BY <1>2, <1>8 DEF Joined
<1>10. sent' = [k \in Cameras |-> IF k = c.camera THEN long ELSE sent[k]]
  BY <1>6
<1>11. ResultType'
  BY <1>1, <1>2, <1>3 DEF ResultType
<1>12. \A i \in Images : i # c.image => ~IsRunOf(long, i) /\ WholeImage(i) # encoded
  <2>1. \A i \in Images : IsRunOf(long, i) => i = c.image
    BY <1>2, <1>5, RunFacts DEF IsRunOf
  <2>2. \A i \in Images : WholeImage(i) = encoded => i = c.image
    BY <1>2, <1>7, SizeFacts
  <2>3. QED
    BY <2>1, <2>2
<1>13. sent'[c.camera] = long /\ result'.camera = c.camera /\ result'.image = encoded /\ ~result'.threw
  BY <1>1, <1>2, <1>10
<1>14. DeliversExactlyWholeRuns'
  BY <1>2, <1>7, <1>8, <1>12, <1>13 DEF DeliversExactlyWholeRuns
<1>15. QED
  BY <1>1, <1>2, <1>5, <1>9, <1>10, <1>11, <1>14, OtherCameras

LEMMA IngestSound ==
  ASSUME IInv, NEW c \in Chunk, Ingest(c)
  PROVE  IInv'
<1>1. sent' = [k \in Cameras |-> IF k = c.camera THEN Noted(sent[k], c) ELSE sent[k]]
  BY DEF Ingest
<1>2. CASE UnknownCamera(c)
  <2>1. c.camera = None /\ slots' = slots /\ result' = [threw |-> TRUE, camera |-> None, image |-> <<>>]
    BY <1>2 DEF UnknownCamera, Threw
  <2>2. None \notin Cameras /\ sent \in [Cameras -> Seq(Chunk)]
    BY NoneAssumption DEF IInv
  <2>3. sent' = sent
    BY <1>1, <2>1, <2>2
  <2>4. QED
    BY <2>1, <2>3 DEF IInv, ResultType, DeliversExactlyWholeRuns
<1>3. CASE Malformed(c)
  <2>1. c.camera \in Cameras /\ ~Joins(c) /\ Reject(c)
    BY <1>3, ChunkFacts DEF Malformed, Joins
  <2>2. QED
    BY <1>1, <2>1, RejectSound
<1>4. CASE Discontinuous(c) \/ Misflagged(c)
  <2>1. c.camera \in Cameras /\ ~Joins(c) /\ Reject(c)
    BY <1>4, ChunkFacts DEF Discontinuous, Misflagged, Joins
  <2>2. QED
    BY <1>1, <2>1, RejectSound
<1>5. QED
  BY <1>1, <1>2, <1>3, <1>4, PartialSound, CompleteSound DEF Ingest

-----------------------------------------------------------------------------
(* The theorems *)

LEMMA InitSound == Init => IInv
<1> SUFFICES ASSUME Init PROVE IInv
  OBVIOUS
<1>1. \A c \in Cameras : slots[c] = EmptySlot /\ sent[c] = <<>>
  BY DEF Init
<1>2. /\ slots = [c \in Cameras |-> slots[c]] /\ sent \in [Cameras -> Seq(Chunk)]
      /\ ResultType /\ result.camera = None
  BY DEF Init, ResultType
<1>3. QED
  BY <1>1, <1>2 DEF IInv, Joined, DeliversExactlyWholeRuns

LEMMA Invariant == Spec => []IInv
<1>1. IInv /\ [Next]_vars => IInv'
  <2> SUFFICES ASSUME IInv, [Next]_vars PROVE IInv'
    OBVIOUS
  <2>1. CASE UNCHANGED vars
    BY <2>1 DEF vars, IInv, ResultType, DeliversExactlyWholeRuns
  <2>2. QED
    BY <2>1, IngestSound DEF Next
<1>2. QED
  BY <1>1, InitSound, PTL DEF Spec

(* Every slot is empty or holds a proper beginning of its image. *)
THEOREM TypeCorrect == Spec => []TypeOK
<1>1. IInv => TypeOK
  <2> SUFFICES ASSUME IInv PROVE TypeOK
    OBVIOUS
  <2>1. ASSUME NEW c \in Cameras
        PROVE  /\ slots[c] \in [image : Images \cup {None}, encoded : Seq(Unit)]
               /\ IF slots[c].image = None THEN slots[c].encoded = <<>>
                                           ELSE Len(slots[c].encoded) \in Units(slots[c].image) \ {0}
    <3> DEFINE slot == slots[c]
               run == sent[c]
               top == run[Len(run)]
    <3>1. Joined(slot, run) /\ run \in Seq(Chunk)
      BY DEF IInv
    <3>2. CASE slot = EmptySlot
      BY <3>2 DEF EmptySlot
    <3>3. CASE slot # EmptySlot
      <4>1. /\ slot.image \in Images /\ slot.encoded \in Seq(Unit)
            /\ slot = [image |-> slot.image, encoded |-> slot.encoded]
            /\ Begins(run, slot.image) /\ ~top.flags.last /\ Len(slot.encoded) = End(top)
        BY <3>1, <3>3 DEF Joined
      <4>2. /\ top \in Chunk /\ top.image = slot.image /\ End(top) # Size[slot.image]
        BY <3>1, <4>1, RunFacts
      <4>3. slot.image # None /\ Size[slot.image] \in Nat
        BY <4>1, SizeFacts
      <4>4. /\ End(top) <= Size[slot.image] /\ End(top) \in Nat \ {0}
        BY <4>2, <4>3, ChunkFacts DEF End
      <4>5. End(top) \in Units(slot.image) \ {0}
        BY <4>2, <4>3, <4>4 DEF Units
      <4>6. slot \in [image : Images \cup {None}, encoded : Seq(Unit)]
        BY <4>1
      <4>7. QED
        BY <4>1, <4>3, <4>5, <4>6
    <3>4. QED
      BY <3>2, <3>3
  <2>2. slots = [c \in Cameras |-> slots[c]]
    BY DEF IInv
  <2>3. slots \in [Cameras -> [image : Images \cup {None}, encoded : Seq(Unit)]]
    BY <2>1, <2>2
  <2>4. QED
    BY <2>1, <2>3 DEF TypeOK, IInv, ResultType
<1>2. QED
  BY <1>1, Invariant, PTL

(* Whatever the other cameras send and whatever came before, a camera's call returns *)
(* an image if and only if its chunks since the last first flag are all of one image, *)
(* in order, and then it is that image.                                                 *)
THEOREM WholeRunsDelivered == Spec => []DeliversExactlyWholeRuns
<1>1. IInv => DeliversExactlyWholeRuns
  BY DEF IInv
<1>2. QED
  BY <1>1, Invariant, PTL

-----------------------------------------------------------------------------
(***************************************************************************)
(* Raw12 for all headers and messages.  A checksum is linear in Xor and    *)
(* divides by eight bits per byte, and what has no bit below the eighth is *)
(* only shifted (DividedHigh): so a table of a byte is the division of the *)
(* word it meets, and a slice of eight bytes is eight steps of the slower  *)
(* checksum (EightBytes).  Between two slices the slower one is ahead by   *)
(* the bytes the faster one waits for (MessageOK).                         *)
(***************************************************************************)

(* Words *)

Word == SUBSET (0 .. 31)
Octet == SUBSET (0 .. 7)

LEMMA XorWord == \A a, b \in Word : Xor(a, b) \in Word
  BY DEF Xor, Word

LEMMA XorCommutes == \A a, b : Xor(a, b) = Xor(b, a)
  BY DEF Xor

LEMMA XorAssociative == \A a, b, c : Xor(Xor(a, b), c) = Xor(a, Xor(b, c))
  BY DEF Xor

LEMMA XorNone == \A a : Xor(a, {}) = a
  BY DEF Xor

LEMMA XorPairs == \A a, b, c, d : Xor(Xor(a, b), Xor(c, d)) = Xor(Xor(a, c), Xor(b, d))
  BY DEF Xor

LEMMA OctetWord == /\ Octet \subseteq Word /\ {} \in Word /\ {} \in Octet
                   /\ Polynomial \in Word /\ AllOnes \in Word
  BY DEF Octet, Word, Polynomial, AllOnes

LEMMA ShiftMember ==
  ASSUME NEW a \in Word, NEW n \in Nat
  PROVE  ShiftedBy(a, n) = {i \in 0 .. 31 : i + n \in a}
<1>1. ASSUME NEW i \in ShiftedBy(a, n) PROVE i \in 0 .. 31 /\ i + n \in a
  BY DEF ShiftedBy, Word
<1>2. ASSUME NEW i \in 0 .. 31, i + n \in a PROVE i \in ShiftedBy(a, n)
  <2>1. i = (i + n) - n /\ i + n >= n
    OBVIOUS
  <2>2. QED
    BY <1>2, <2>1 DEF ShiftedBy
<1>3. QED
  BY <1>1, <1>2

LEMMA ShiftWord == \A a \in Word, n \in Nat : ShiftedBy(a, n) \in Word
  BY ShiftMember DEF Word

LEMMA ShiftXor ==
  ASSUME NEW a \in Word, NEW b \in Word, NEW n \in Nat
  PROVE  ShiftedBy(Xor(a, b), n) = Xor(ShiftedBy(a, n), ShiftedBy(b, n))
<1>1. Xor(a, b) \in Word
  BY XorWord
<1>2. /\ ShiftedBy(Xor(a, b), n) = {i \in 0 .. 31 : i + n \in Xor(a, b)}
      /\ ShiftedBy(a, n) = {i \in 0 .. 31 : i + n \in a}
      /\ ShiftedBy(b, n) = {i \in 0 .. 31 : i + n \in b}
  BY <1>1, ShiftMember
<1>3. QED
  BY <1>2, Zenon DEF Xor

LEMMA ShiftTwice ==
  ASSUME NEW a \in Word, NEW m \in Nat, NEW n \in Nat
  PROVE  ShiftedBy(ShiftedBy(a, m), n) = ShiftedBy(a, m + n)
<1>1. ShiftedBy(a, m) \in Word /\ m + n \in Nat
  BY ShiftWord
<1>2. /\ ShiftedBy(ShiftedBy(a, m), n) = {i \in 0 .. 31 : i + n \in ShiftedBy(a, m)}
      /\ ShiftedBy(a, m) = {i \in 0 .. 31 : i + m \in a}
      /\ ShiftedBy(a, m + n) = {i \in 0 .. 31 : i + (m + n) \in a}
  BY <1>1, ShiftMember
<1>3. ASSUME NEW i \in 0 .. 31
      PROVE  i + n \in ShiftedBy(a, m) <=> i + (m + n) \in a
  <2>1. (i + n) + m = i + (m + n)
    OBVIOUS
  <2>2. i + n \in ShiftedBy(a, m) <=> i + n \in 0 .. 31 /\ i + (m + n) \in a
    BY <1>2, <2>1, Zenon
  <2>3. i + (m + n) \in a => i + n \in 0 .. 31
    BY DEF Word
  <2>4. QED
    BY <2>2, <2>3
<1>4. QED
  BY <1>2, <1>3, Zenon

LEMMA ShiftNone == \A a \in Word : ShiftedBy(a, 0) = a /\ ShiftedBy(a, 32) = {}
<1> SUFFICES ASSUME NEW a \in Word PROVE ShiftedBy(a, 0) = a /\ ShiftedBy(a, 32) = {}
  OBVIOUS
<1>1. ShiftedBy(a, 0) = {i \in 0 .. 31 : i + 0 \in a} /\ ShiftedBy(a, 32) = {i \in 0 .. 31 : i + 32 \in a}
  BY ShiftMember
<1>2. \A i \in 0 .. 31 : i + 0 = i /\ i + 32 \notin 0 .. 31
  OBVIOUS
<1>3. \A i \in a : i \in 0 .. 31
  BY DEF Word
<1>4. QED
  BY <1>1, <1>2, <1>3

LEMMA ShiftOctet == \A a \in Octet : ShiftedBy(a, 8) = {}
<1> SUFFICES ASSUME NEW a \in Octet PROVE ShiftedBy(a, 8) = {}
  OBVIOUS
<1>1. ShiftedBy(a, 8) = {i \in 0 .. 31 : i + 8 \in a}
  BY ShiftMember, OctetWord
<1>2. \A i \in 0 .. 31 : i + 8 \notin 0 .. 7
  OBVIOUS
<1>3. \A i \in a : i \in 0 .. 7
  BY DEF Octet
<1>4. QED
  BY <1>1, <1>2, <1>3, Zenon

-----------------------------------------------------------------------------
(* Division by the polynomial *)

LEMMA OnceWord == \A x \in Word : DividedOnce(x) \in Word
  BY XorWord, ShiftWord, OctetWord DEF DividedOnce

LEMMA OnceXor ==
  ASSUME NEW x \in Word, NEW y \in Word
  PROVE  DividedOnce(Xor(x, y)) = Xor(DividedOnce(x), DividedOnce(y))
<1> DEFINE p(w) == IF 0 \in w THEN Polynomial ELSE {}
<1>1. p(Xor(x, y)) = Xor(p(x), p(y))
  BY DEF Xor
<1>2. ShiftedBy(Xor(x, y), 1) = Xor(ShiftedBy(x, 1), ShiftedBy(y, 1))
  BY ShiftXor
<1>3. \A w : DividedOnce(w) = Xor(ShiftedBy(w, 1), p(w))
  BY DEF DividedOnce
<1> HIDE DEF p
<1>4. DividedOnce(Xor(x, y)) = Xor(Xor(ShiftedBy(x, 1), ShiftedBy(y, 1)), Xor(p(x), p(y)))
  BY <1>1, <1>2, <1>3, Zenon
<1>5. Xor(DividedOnce(x), DividedOnce(y)) = Xor(Xor(ShiftedBy(x, 1), p(x)), Xor(ShiftedBy(y, 1), p(y)))
  BY <1>3, Zenon
<1> DEFINE sx == ShiftedBy(x, 1)
           sy == ShiftedBy(y, 1)
           px == p(x)
           py == p(y)
<1>6. Xor(Xor(sx, sy), Xor(px, py)) = Xor(Xor(sx, px), Xor(sy, py))
  <2> HIDE DEF sx, sy, px, py
  <2>1. QED
    BY DEF Xor
<1>7. QED
  BY <1>4, <1>5, <1>6, Zenon

LEMMA DividedWord == \A x \in Word : Divided(x) \in Word
  BY OnceWord, Zenon DEF Divided

LEMMA DividedXor == \A x, y \in Word : Divided(Xor(x, y)) = Xor(Divided(x), Divided(y))
<1> DEFINE f(w) == DividedOnce(DividedOnce(w))
           g(w) == f(f(w))
<1>1. \A x, y \in Word : f(x) \in Word /\ f(Xor(x, y)) = Xor(f(x), f(y))
  <2> SUFFICES ASSUME NEW x \in Word, NEW y \in Word
               PROVE  f(x) \in Word /\ f(Xor(x, y)) = Xor(f(x), f(y))
    OBVIOUS
  <2>1. DividedOnce(x) \in Word /\ DividedOnce(y) \in Word
    BY OnceWord, Zenon
  <2>2. DividedOnce(Xor(x, y)) = Xor(DividedOnce(x), DividedOnce(y))
    BY OnceXor, Zenon
  <2>3. DividedOnce(Xor(DividedOnce(x), DividedOnce(y))) = Xor(f(x), f(y))
    BY <2>1, OnceXor, Zenon
  <2>4. QED
    BY <2>1, <2>2, <2>3, OnceWord, Zenon
<1> HIDE DEF f
<1>2. \A x, y \in Word : g(x) \in Word /\ g(Xor(x, y)) = Xor(g(x), g(y))
  BY <1>1, Zenon
<1>3. \A x : Divided(x) = g(g(x))
  BY Zenon DEF Divided, f
<1> HIDE DEF g
<1>4. QED
  BY <1>2, <1>3, Zenon

(* What has no bit below the eighth is only shifted. *)
LEMMA DividedHigh ==
  ASSUME NEW a \in Word, \A i \in 0 .. 7 : i \notin a
  PROVE  Divided(a) = ShiftedBy(a, 8)
<1>1. ASSUME NEW n \in 0 .. 7
      PROVE  DividedOnce(ShiftedBy(a, n)) = ShiftedBy(a, n + 1)
  <2>1. 0 \notin ShiftedBy(a, n)
    <3>1. 0 + n = n /\ n \in Nat
      OBVIOUS
    <3>2. QED
      BY <3>1, ShiftMember
  <2>2. n \in Nat /\ 1 \in Nat
    OBVIOUS
  <2>3. ShiftedBy(ShiftedBy(a, n), 1) = ShiftedBy(a, n + 1)
    BY <2>2, ShiftTwice, Zenon
  <2>4. QED
    BY <2>1, <2>3, XorNone, Zenon DEF DividedOnce
<1>2. /\ DividedOnce(ShiftedBy(a, 0)) = ShiftedBy(a, 1)
      /\ DividedOnce(ShiftedBy(a, 1)) = ShiftedBy(a, 2)
      /\ DividedOnce(ShiftedBy(a, 2)) = ShiftedBy(a, 3)
      /\ DividedOnce(ShiftedBy(a, 3)) = ShiftedBy(a, 4)
      /\ DividedOnce(ShiftedBy(a, 4)) = ShiftedBy(a, 5)
      /\ DividedOnce(ShiftedBy(a, 5)) = ShiftedBy(a, 6)
      /\ DividedOnce(ShiftedBy(a, 6)) = ShiftedBy(a, 7)
      /\ DividedOnce(ShiftedBy(a, 7)) = ShiftedBy(a, 8)
  <2>1. \A n, m : n \in 0 .. 7 /\ m = n + 1 => DividedOnce(ShiftedBy(a, n)) = ShiftedBy(a, m)
    BY <1>1, Zenon
  <2>2. /\ 0 \in 0 .. 7 /\ 1 \in 0 .. 7 /\ 2 \in 0 .. 7 /\ 3 \in 0 .. 7
        /\ 4 \in 0 .. 7 /\ 5 \in 0 .. 7 /\ 6 \in 0 .. 7 /\ 7 \in 0 .. 7
        /\ 1 = 0 + 1 /\ 2 = 1 + 1 /\ 3 = 2 + 1 /\ 4 = 3 + 1 /\ 5 = 4 + 1
        /\ 6 = 5 + 1 /\ 7 = 6 + 1 /\ 8 = 7 + 1
    OBVIOUS
  <2>3. QED
    BY <2>1, <2>2, Zenon
<1>3. ShiftedBy(a, 0) = a
  BY ShiftNone
<1>4. QED
  BY <1>2, <1>3, Zenon DEF Divided

LEMMA LowBytes ==
  ASSUME NEW c \in Word
  PROVE  /\ LowByte(c) \in Octet
         /\ \A b \in Octet : LowByte(Xor(c, b)) = Xor(b, LowByte(c))
<1> DEFINE low(i) == i < 8
<1>1. LowByte(c) \in Octet
  <2>1. \A i \in 0 .. 31 : low(i) => i \in 0 .. 7
    OBVIOUS
  <2>2. \A i \in c : i \in 0 .. 31
    BY DEF Word
  <2> HIDE DEF low
  <2>3. LowByte(c) = {i \in c : low(i)}
    BY DEF LowByte, low
  <2>4. QED
    BY <2>1, <2>2, <2>3, Zenon DEF Octet
<1>2. ASSUME NEW b \in Octet PROVE LowByte(Xor(c, b)) = Xor(b, LowByte(c))
  <2>1. \A i \in b : low(i)
    BY DEF Octet
  <2>2. \A d : LowByte(d) = {i \in d : low(i)}
    BY DEF LowByte
  <2> HIDE DEF low
  <2>3. QED
    BY <2>1, <2>2, Zenon DEF Xor
<1>3. QED
  BY <1>1, <1>2

(* A byte is taken in by the low byte alone; the rest is shifted. *)
LEMMA Absorbs ==
  ASSUME NEW c \in Word, NEW b \in Octet
  PROVE  Divided(Xor(c, b)) = Xor(Divided(Xor(b, LowByte(c))), ShiftedBy(c, 8))
<1> DEFINE w == Xor(c, b)
           high == {i \in w : ~(i < 8)}
<1>1. w \in Word /\ high \in Word /\ LowByte(w) \in Word
  BY XorWord, OctetWord, LowBytes DEF Word
<1>2. w = Xor(LowByte(w), high)
  <2> HIDE DEF w
  <2>1. QED
    BY DEF LowByte, Xor
<1>3. Divided(high) = ShiftedBy(high, 8)
  <2>1. \A i \in 0 .. 7 : i \notin high
    OBVIOUS
  <2>2. QED
    BY <1>1, <2>1, DividedHigh
<1>4. ShiftedBy(high, 8) = ShiftedBy(w, 8)
  <2>1. \A i \in 0 .. 31 : i + 8 \in high <=> i + 8 \in w
    <3>1. \A i \in 0 .. 31 : ~(i + 8 < 8)
      OBVIOUS
    <3> HIDE DEF w
    <3>2. QED
      BY <3>1, Zenon
  <2>2. /\ ShiftedBy(high, 8) = {i \in 0 .. 31 : i + 8 \in high}
        /\ ShiftedBy(w, 8) = {i \in 0 .. 31 : i + 8 \in w}
    BY <1>1, ShiftMember
  <2> HIDE DEF w, high
  <2>3. QED
    BY <2>1, <2>2, Zenon
<1>5. ShiftedBy(w, 8) = ShiftedBy(c, 8)
  <2>1. ShiftedBy(w, 8) = Xor(ShiftedBy(c, 8), ShiftedBy(b, 8))
    BY OctetWord, ShiftXor
  <2>2. QED
    BY <2>1, ShiftOctet, XorNone
<1>6. LowByte(w) = Xor(b, LowByte(c))
  BY LowBytes
<1> HIDE DEF w, high
<1>7. Divided(w) = Xor(Divided(LowByte(w)), Divided(high))
  BY <1>1, <1>2, DividedXor, Zenon
<1>8. QED
  BY <1>3, <1>4, <1>5, <1>6, <1>7, Zenon DEF w

-----------------------------------------------------------------------------
(* The two implementations, byte by byte *)

(* The table lookup of a byte is the division of the whole word. *)
LEMMA OneByteIsHeaderCrc ==
  ASSUME NEW c \in Word, NEW b \in Octet
  PROVE  OneByte(c, b) = HeaderCrc(c, b)
<1>1. LowByte(Xor(c, b)) = Xor(b, LowByte(c))
  BY LowBytes, Zenon
<1>2. Divided(Xor(c, b)) = Xor(Divided(Xor(b, LowByte(c))), ShiftedBy(c, 8))
  BY Absorbs, Zenon
<1>3. QED
  BY <1>1, <1>2, XorCommutes, Zenon DEF OneByte, HeaderCrc

(* Each table divides once more than the one before. *)
IsTable(f, b) ==
  f = [i \in 0 .. 7 |-> IF i = 0 THEN Divided(b) ELSE OneByte(f[i - 1], {})]

LEMMA TableExists == ASSUME NEW b PROVE \E f : IsTable(f, b)
<1> DEFINE next(x) == OneByte(x, {})
           t0 == Divided(b)
           t1 == next(t0)
           t2 == next(t1)
           t3 == next(t2)
           t4 == next(t3)
           t5 == next(t4)
           t6 == next(t5)
           t7 == next(t6)
           f  == [i \in 0 .. 7 |-> CASE i = 0 -> t0 [] i = 1 -> t1 [] i = 2 -> t2 [] i = 3 -> t3
                                     [] i = 4 -> t4 [] i = 5 -> t5 [] i = 6 -> t6 [] i = 7 -> t7]
<1> HIDE DEF next, t0, t1, t2, t3, t4, t5, t6, t7
<1>1. /\ f[0] = t0 /\ f[1] = t1 /\ f[2] = t2 /\ f[3] = t3
      /\ f[4] = t4 /\ f[5] = t5 /\ f[6] = t6 /\ f[7] = t7
  OBVIOUS
<1>2. f = [i \in 0 .. 7 |-> f[i]]
  OBVIOUS
<1> HIDE DEF f
<1>3. /\ f[0] = t0 /\ f[1] = next(f[0]) /\ f[2] = next(f[1]) /\ f[3] = next(f[2])
      /\ f[4] = next(f[3]) /\ f[5] = next(f[4]) /\ f[6] = next(f[5]) /\ f[7] = next(f[6])
  BY <1>1, Zenon DEF t1, t2, t3, t4, t5, t6, t7
<1>4. ASSUME NEW i \in 0 .. 7
      PROVE  f[i] = IF i = 0 THEN t0 ELSE next(f[i - 1])
  <2>1. CASE i = 0
    BY <2>1, <1>3
  <2>2. CASE i # 0
    <3>1. \/ (i = 1 /\ i - 1 = 0) \/ (i = 2 /\ i - 1 = 1) \/ (i = 3 /\ i - 1 = 2)
          \/ (i = 4 /\ i - 1 = 3) \/ (i = 5 /\ i - 1 = 4) \/ (i = 6 /\ i - 1 = 5)
          \/ (i = 7 /\ i - 1 = 6)
      BY <2>2
    <3>2. f[i] = next(f[i - 1])
      BY <1>3, <3>1, Zenon
    <3>3. QED
      BY <2>2, <3>2, Zenon
  <2>3. QED
    BY <2>1, <2>2
<1>5. f = [i \in 0 .. 7 |-> IF i = 0 THEN t0 ELSE next(f[i - 1])]
  BY <1>2, <1>4, Zenon
<1>6. QED
  BY <1>5, Zenon DEF IsTable, t0, next

(* A table, and the sequence of a byte's divisions. *)
Tables(b) == [n \in 0 .. 7 |-> Table(n, b)]

Advances(g, k) ==
  \A n \in 0 .. k : g[n] \in Word /\ (n < k => Divided(g[n]) = g[n + 1])

LEMMA TablesAdvance ==
  ASSUME NEW b \in Word
  PROVE  Advances(Tables(b), 7) /\ Tables(b)[0] = Divided(b)
<1> DEFINE f == CHOOSE t : IsTable(t, b)
           g == Tables(b)
<1>1. IsTable(f, b)
  BY TableExists, Zenon
<1>2. \A n : Table(n, b) = f[n]
  BY Zenon DEF Table, IsTable
<1> HIDE DEF f
<1>3. \A n \in 0 .. 7 : f[n] = IF n = 0 THEN Divided(b) ELSE OneByte(f[n - 1], {})
  BY <1>1, Zenon DEF IsTable
<1>4. \A n \in 0 .. 7 : g[n] = f[n]
  BY <1>2, Zenon DEF Tables
<1> HIDE DEF g
<1>5. 0 \in 0 .. 7
  OBVIOUS
<1>6. g[0] = Divided(b)
  BY <1>3, <1>4, <1>5, Zenon
<1>7. ASSUME NEW n \in 0 .. 7, n < 7, g[n] \in Word
      PROVE  g[n + 1] = Divided(g[n]) /\ g[n + 1] \in Word
  <2>1. n + 1 \in 0 .. 7 /\ n + 1 # 0 /\ (n + 1) - 1 = n
    BY <1>7
  <2>2. g[n + 1] = OneByte(g[n], {})
    BY <1>3, <1>4, <2>1, Zenon
  <2>3. OneByte(g[n], {}) = Divided(Xor(g[n], {}))
    BY <1>7, OneByteIsHeaderCrc, OctetWord, Zenon DEF HeaderCrc
  <2>4. QED
    BY <1>7, <2>2, <2>3, XorNone, DividedWord, Zenon
<1>8. \A n \in 0 .. 7 : g[n] \in Word
  <2>1. \A n, m : n \in 0 .. 7 /\ n < 7 /\ m = n + 1 /\ g[n] \in Word => g[m] \in Word
    BY <1>7, Zenon
  <2>2. g[0] \in Word
    BY <1>6, DividedWord
  <2>3. /\ 0 \in 0 .. 7 /\ 0 < 7 /\ 1 = 0 + 1 /\ 1 \in 0 .. 7 /\ 1 < 7 /\ 2 = 1 + 1
        /\ 2 \in 0 .. 7 /\ 2 < 7 /\ 3 = 2 + 1 /\ 3 \in 0 .. 7 /\ 3 < 7 /\ 4 = 3 + 1
        /\ 4 \in 0 .. 7 /\ 4 < 7 /\ 5 = 4 + 1 /\ 5 \in 0 .. 7 /\ 5 < 7 /\ 6 = 5 + 1
        /\ 6 \in 0 .. 7 /\ 6 < 7 /\ 7 = 6 + 1
    OBVIOUS
  <2>4. g[1] \in Word
    BY <2>1, <2>2, <2>3, Zenon
  <2>5. g[2] \in Word
    BY <2>1, <2>3, <2>4, Zenon
  <2>6. g[3] \in Word
    BY <2>1, <2>3, <2>5, Zenon
  <2>7. g[4] \in Word
    BY <2>1, <2>3, <2>6, Zenon
  <2>8. g[5] \in Word
    BY <2>1, <2>3, <2>7, Zenon
  <2>9. g[6] \in Word
    BY <2>1, <2>3, <2>8, Zenon
  <2>10. g[7] \in Word
    BY <2>1, <2>3, <2>9, Zenon
  <2>11. \A n \in 0 .. 7 : n = 0 \/ n = 1 \/ n = 2 \/ n = 3 \/ n = 4 \/ n = 5 \/ n = 6 \/ n = 7
    OBVIOUS
  <2>12. QED
    BY <2>2, <2>4, <2>5, <2>6, <2>7, <2>8, <2>9, <2>10, <2>11, Zenon
<1>9. QED
  BY <1>6, <1>7, <1>8, Zenon DEF Advances, g

(* The sum of what has been read, and of the next byte. *)
Plus(g, t) == [n \in 0 .. 6 |-> Xor(g[n + 1], t[n])]

LEMMA PlusAdvances ==
  ASSUME NEW g, NEW t, NEW k \in 0 .. 6, NEW l \in 0 .. 7, l = k + 1, Advances(g, l), Advances(t, 7)
  PROVE  Advances(Plus(g, t), k)
<1> DEFINE p == Plus(g, t)
<1>1. ASSUME NEW n \in 0 .. k
      PROVE  p[n] \in Word /\ (n < k => Divided(p[n]) = p[n + 1])
  <2>1. n \in 0 .. 6 /\ n + 1 \in 0 .. l /\ n \in 0 .. 7 /\ n < 7
    OBVIOUS
  <2>2. p[n] = Xor(g[n + 1], t[n])
    BY <2>1, Zenon DEF Plus
  <2>3. g[n + 1] \in Word /\ t[n] \in Word
    BY <2>1, Zenon DEF Advances
  <2>4. p[n] \in Word
    BY <2>2, <2>3, XorWord, Zenon
  <2>5. ASSUME n < k PROVE Divided(p[n]) = p[n + 1]
    <3>1. n + 1 \in 0 .. 6 /\ n + 1 < l
      BY <2>5
    <3>2. Divided(g[n + 1]) = g[(n + 1) + 1] /\ Divided(t[n]) = t[n + 1]
      BY <2>1, <3>1, Zenon DEF Advances
    <3>3. p[n + 1] = Xor(g[(n + 1) + 1], t[n + 1])
      BY <3>1, Zenon DEF Plus
    <3>4. QED
      BY <2>2, <2>3, <3>2, <3>3, DividedXor, Zenon
  <2>6. QED
    BY <2>4, <2>5
<1>2. QED
  BY <1>1, Zenon DEF Advances

(* A byte that meets nothing of the old word. *)
LEMMA LateByte ==
  ASSUME NEW g, NEW t, NEW k \in 1 .. 7, Advances(g, k), NEW b \in Octet, t[0] = Divided(b)
  PROVE  HeaderCrc(g[0], b) = Plus(g, t)[0]
<1>1. 0 \in 0 .. k /\ 0 < k /\ 0 + 1 = 1 /\ 0 \in 0 .. 6
  OBVIOUS
<1>2. g[0] \in Word /\ Divided(g[0]) = g[1]
  BY <1>1, Zenon DEF Advances
<1>3. b \in Word
  BY OctetWord
<1>4. Divided(Xor(g[0], b)) = Xor(g[1], t[0])
  BY <1>2, <1>3, DividedXor, Zenon
<1>5. Plus(g, t)[0] = Xor(g[1], t[0])
  BY <1>1, Zenon DEF Plus
<1>6. QED
  BY <1>4, <1>5, Zenon DEF HeaderCrc

(* A byte that meets the lowest byte left of the old word. *)
LEMMA EarlyByte ==
  ASSUME NEW g, NEW t, NEW k \in 1 .. 7, Advances(g, k), NEW c \in Word, NEW n \in Nat, NEW b \in Octet,
         t[0] = Divided(Xor(b, LowByte(ShiftedBy(c, n))))
  PROVE  HeaderCrc(Xor(g[0], ShiftedBy(c, n)), b) = Xor(Plus(g, t)[0], ShiftedBy(c, n + 8))
<1> DEFINE s == ShiftedBy(c, n)
<1>1. 0 \in 0 .. k /\ 0 < k /\ 0 + 1 = 1 /\ 0 \in 0 .. 6 /\ 8 \in Nat
  OBVIOUS
<1>2. g[0] \in Word /\ Divided(g[0]) = g[1]
  BY <1>1, Zenon DEF Advances
<1>3. s \in Word /\ b \in Word /\ Xor(s, b) \in Word
  BY ShiftWord, OctetWord, XorWord
<1>4. ShiftedBy(s, 8) = ShiftedBy(c, n + 8)
  BY <1>1, ShiftTwice, Zenon
<1> HIDE DEF s
<1>5. Xor(Xor(g[0], s), b) = Xor(g[0], Xor(s, b))
  BY XorAssociative
<1>6. Divided(Xor(g[0], Xor(s, b))) = Xor(g[1], Divided(Xor(s, b)))
  BY <1>2, <1>3, DividedXor, Zenon
<1>7. Divided(Xor(s, b)) = Xor(Divided(Xor(b, LowByte(s))), ShiftedBy(s, 8))
  BY <1>3, Absorbs, Zenon
<1>8. Xor(g[1], Xor(t[0], ShiftedBy(s, 8))) = Xor(Xor(g[1], t[0]), ShiftedBy(s, 8))
  BY XorAssociative
<1>9. Plus(g, t)[0] = Xor(g[1], t[0])
  BY <1>1, Zenon DEF Plus
<1>10. t[0] = Divided(Xor(b, LowByte(s)))
  BY DEF s
<1>11. HeaderCrc(Xor(g[0], s), b) = Xor(Plus(g, t)[0], ShiftedBy(s, 8))
  BY <1>5, <1>6, <1>7, <1>8, <1>9, <1>10, Zenon DEF HeaderCrc
<1>12. QED
  BY <1>4, <1>11, Zenon DEF s

(* The bytes of a slice, the first four mixed with the old word. *)
Mixed(c, b, j) == IF j <= 4 THEN Xor(b[j], ByteAt(c, j - 1)) ELSE b[j]

LEMMA EightBytes ==
  ASSUME NEW c \in Word, NEW b, \A j \in 1 .. 8 : b[j] \in Octet
  PROVE  TwoWords(c, b) =
           HeaderCrc(HeaderCrc(HeaderCrc(HeaderCrc(HeaderCrc(HeaderCrc(HeaderCrc(HeaderCrc(
             c, b[1]), b[2]), b[3]), b[4]), b[5]), b[6]), b[7]), b[8])
<1> DEFINE t(j) == Tables(Mixed(c, b, j))
           g1 == t(1)
           g2 == Plus(g1, t(2))
           g3 == Plus(g2, t(3))
           g4 == Plus(g3, t(4))
           g5 == Plus(g4, t(5))
           g6 == Plus(g5, t(6))
           g7 == Plus(g6, t(7))
           g8 == Plus(g7, t(8))
<1>1. /\ b[1] \in Octet /\ b[2] \in Octet /\ b[3] \in Octet /\ b[4] \in Octet
      /\ b[5] \in Octet /\ b[6] \in Octet /\ b[7] \in Octet /\ b[8] \in Octet
  OBVIOUS
<1>2. /\ Mixed(c, b, 1) = Xor(b[1], LowByte(ShiftedBy(c, 0)))
      /\ Mixed(c, b, 2) = Xor(b[2], LowByte(ShiftedBy(c, 8)))
      /\ Mixed(c, b, 3) = Xor(b[3], LowByte(ShiftedBy(c, 16)))
      /\ Mixed(c, b, 4) = Xor(b[4], LowByte(ShiftedBy(c, 24)))
      /\ Mixed(c, b, 5) = b[5] /\ Mixed(c, b, 6) = b[6]
      /\ Mixed(c, b, 7) = b[7] /\ Mixed(c, b, 8) = b[8]
  <2>1. /\ 1 <= 4 /\ 2 <= 4 /\ 3 <= 4 /\ 4 <= 4
        /\ ~(5 <= 4) /\ ~(6 <= 4) /\ ~(7 <= 4) /\ ~(8 <= 4)
        /\ (1 - 1) * 8 = 0 /\ (2 - 1) * 8 = 8 /\ (3 - 1) * 8 = 16 /\ (4 - 1) * 8 = 24
    OBVIOUS
  <2>2. QED
    BY <2>1 DEF Mixed, ByteAt
<1>3. \A j \in 1 .. 8 : Mixed(c, b, j) \in Word
  <2>1. \A n \in Nat : LowByte(ShiftedBy(c, n)) \in Word
    BY ShiftWord, LowBytes, OctetWord
  <2>2. \A x \in Octet, y \in Word : x \in Word /\ Xor(x, y) \in Word
    BY OctetWord, XorWord
  <2>3. \A j \in 1 .. 8 : j <= 4 => (j - 1) * 8 \in Nat
    OBVIOUS
  <2>4. QED
    BY <2>1, <2>2, <2>3, Zenon DEF Mixed, ByteAt
<1>4. \A j \in 1 .. 8 : Advances(t(j), 7) /\ t(j)[0] = Divided(Mixed(c, b, j))
  BY <1>3, TablesAdvance, Zenon
<1>5. /\ 1 \in 1 .. 8 /\ 2 \in 1 .. 8 /\ 3 \in 1 .. 8 /\ 4 \in 1 .. 8
      /\ 5 \in 1 .. 8 /\ 6 \in 1 .. 8 /\ 7 \in 1 .. 8 /\ 8 \in 1 .. 8
      /\ 1 \in 1 .. 7 /\ 2 \in 1 .. 7 /\ 3 \in 1 .. 7 /\ 4 \in 1 .. 7
      /\ 5 \in 1 .. 7 /\ 6 \in 1 .. 7 /\ 7 \in 1 .. 7
  OBVIOUS
<1> HIDE DEF t
<1>6. /\ Advances(g1, 7) /\ Advances(g2, 6) /\ Advances(g3, 5) /\ Advances(g4, 4)
      /\ Advances(g5, 3) /\ Advances(g6, 2) /\ Advances(g7, 1)
  <2>1. \A g, j, k, l : k \in 0 .. 6 /\ l \in 0 .. 7 /\ l = k + 1 /\ Advances(g, l) /\ j \in 1 .. 8 =>
                          Advances(Plus(g, t(j)), k)
    BY <1>4, PlusAdvances, Zenon
  <2>2. /\ 6 \in 0 .. 6 /\ 7 \in 0 .. 7 /\ 7 = 6 + 1 /\ 5 \in 0 .. 6 /\ 6 \in 0 .. 7 /\ 6 = 5 + 1
        /\ 4 \in 0 .. 6 /\ 5 \in 0 .. 7 /\ 5 = 4 + 1 /\ 3 \in 0 .. 6 /\ 4 \in 0 .. 7 /\ 4 = 3 + 1
        /\ 2 \in 0 .. 6 /\ 3 \in 0 .. 7 /\ 3 = 2 + 1 /\ 1 \in 0 .. 6 /\ 2 \in 0 .. 7 /\ 2 = 1 + 1
    OBVIOUS
  <2>3. Advances(g1, 7)
    BY <1>4, <1>5, Zenon
  <2> HIDE DEF g1
  <2>4. Advances(g2, 6)
    BY <1>5, <2>1, <2>2, <2>3, ZenonT(40)
  <2> HIDE DEF g2
  <2>5. Advances(g3, 5)
    BY <1>5, <2>1, <2>2, <2>4, ZenonT(40)
  <2> HIDE DEF g3
  <2>6. Advances(g4, 4)
    BY <1>5, <2>1, <2>2, <2>5, Zenon
  <2> HIDE DEF g4
  <2>7. Advances(g5, 3)
    BY <1>5, <2>1, <2>2, <2>6, Zenon
  <2> HIDE DEF g5
  <2>8. Advances(g6, 2)
    BY <1>5, <2>1, <2>2, <2>7, Zenon
  <2> HIDE DEF g6
  <2>9. Advances(g7, 1)
    BY <1>5, <2>1, <2>2, <2>8, Zenon
  <2>10. QED
    BY <2>3, <2>4, <2>5, <2>6, <2>7, <2>8, <2>9, Zenon
<1>7. HeaderCrc(c, b[1]) = Xor(g1[0], ShiftedBy(c, 8))
  <2>1. g1[0] = Divided(Xor(b[1], LowByte(ShiftedBy(c, 0))))
    BY <1>2, <1>4, <1>5, Zenon
  <2>2. ShiftedBy(c, 0) = c
    BY ShiftNone
  <2>3. QED
    BY <1>1, <2>1, <2>2, Absorbs, Zenon DEF HeaderCrc
<1> DEFINE early(g, j, k, n, m) ==
             HeaderCrc(Xor(g[0], ShiftedBy(c, n)), b[j]) = Xor(Plus(g, t(j))[0], ShiftedBy(c, m))
           late(g, j) == HeaderCrc(g[0], b[j]) = Plus(g, t(j))[0]
<1>8. ASSUME NEW g, NEW j \in 1 .. 8, NEW k \in 1 .. 7, NEW n \in Nat, NEW m, Advances(g, k), m = n + 8,
             b[j] \in Octet, Mixed(c, b, j) = Xor(b[j], LowByte(ShiftedBy(c, n)))
      PROVE  early(g, j, k, n, m)
  <2>1. t(j)[0] = Divided(Xor(b[j], LowByte(ShiftedBy(c, n))))
    BY <1>4, <1>8, Zenon
  <2>2. QED
    BY <1>8, <2>1, EarlyByte, ZenonT(40)
<1>9. ASSUME NEW g, NEW j \in 1 .. 8, NEW k \in 1 .. 7, Advances(g, k),
             b[j] \in Octet, Mixed(c, b, j) = b[j]
      PROVE  late(g, j)
  <2>1. t(j)[0] = Divided(b[j])
    BY <1>4, <1>9, Zenon
  <2>2. QED
    BY <1>9, <2>1, LateByte, Zenon
<1>10. 8 \in Nat /\ 16 \in Nat /\ 24 \in Nat /\ 16 = 8 + 8 /\ 24 = 16 + 8 /\ 32 = 24 + 8
  OBVIOUS
<1> HIDE DEF early, late, g1, g2, g3, g4, g5, g6, g7, g8
<1>11. early(g1, 2, 7, 8, 16) /\ early(g2, 3, 6, 16, 24) /\ early(g3, 4, 5, 24, 32)
  BY <1>1, <1>2, <1>5, <1>6, <1>8, <1>10, Zenon
<1>12. late(g4, 5) /\ late(g5, 6) /\ late(g6, 7) /\ late(g7, 8)
  BY <1>1, <1>2, <1>5, <1>6, <1>9, Zenon
<1>13. /\ HeaderCrc(Xor(g1[0], ShiftedBy(c, 8)), b[2]) = Xor(g2[0], ShiftedBy(c, 16))
       /\ HeaderCrc(Xor(g2[0], ShiftedBy(c, 16)), b[3]) = Xor(g3[0], ShiftedBy(c, 24))
       /\ HeaderCrc(Xor(g3[0], ShiftedBy(c, 24)), b[4]) = Xor(g4[0], ShiftedBy(c, 32))
  BY <1>11, Zenon DEF early, g2, g3, g4
<1>14. Xor(g4[0], ShiftedBy(c, 32)) = g4[0]
  BY ShiftNone, XorNone
<1>15. /\ HeaderCrc(g4[0], b[5]) = g5[0] /\ HeaderCrc(g5[0], b[6]) = g6[0]
       /\ HeaderCrc(g6[0], b[7]) = g7[0] /\ HeaderCrc(g7[0], b[8]) = g8[0]
  BY <1>12, Zenon DEF late, g5, g6, g7, g8
<1>16. TwoWords(c, b) = g8[0]
  <2>1. \A j \in 1 .. 8 : Slice(c, b, j) = t(j)[8 - j]
    <3>1. \A j \in 1 .. 8 : 8 - j \in 0 .. 7
      OBVIOUS
    <3>2. \A j : Slice(c, b, j) = Table(8 - j, Mixed(c, b, j))
      BY DEF Slice, Mixed
    <3>3. QED
      BY <3>1, <3>2, Zenon DEF Tables, t
  <2>2. ASSUME NEW g, NEW u
        PROVE  /\ Plus(g, u)[0] = Xor(g[1], u[0]) /\ Plus(g, u)[1] = Xor(g[2], u[1])
               /\ Plus(g, u)[2] = Xor(g[3], u[2]) /\ Plus(g, u)[3] = Xor(g[4], u[3])
               /\ Plus(g, u)[4] = Xor(g[5], u[4]) /\ Plus(g, u)[5] = Xor(g[6], u[5])
               /\ Plus(g, u)[6] = Xor(g[7], u[6])
    BY DEF Plus
  <2>3. /\ 8 - 1 = 7 /\ 8 - 2 = 6 /\ 8 - 3 = 5 /\ 8 - 4 = 4 /\ 8 - 5 = 3 /\ 8 - 6 = 2
        /\ 8 - 7 = 1 /\ 8 - 8 = 0
    OBVIOUS
  <2>4. /\ g8[0] = Xor(g7[1], t(8)[0]) /\ g7[1] = Xor(g6[2], t(7)[1]) /\ g6[2] = Xor(g5[3], t(6)[2])
        /\ g5[3] = Xor(g4[4], t(5)[3]) /\ g4[4] = Xor(g3[5], t(4)[4]) /\ g3[5] = Xor(g2[6], t(3)[5])
        /\ g2[6] = Xor(g1[7], t(2)[6])
    <3>1. g8[0] = Xor(g7[1], t(8)[0])
      BY <2>2, Zenon DEF g8
    <3>2. g7[1] = Xor(g6[2], t(7)[1])
      BY <2>2, Zenon DEF g7
    <3>3. g6[2] = Xor(g5[3], t(6)[2])
      BY <2>2, Zenon DEF g6
    <3>4. g5[3] = Xor(g4[4], t(5)[3])
      BY <2>2, Zenon DEF g5
    <3>5. g4[4] = Xor(g3[5], t(4)[4])
      BY <2>2, Zenon DEF g4
    <3>6. g3[5] = Xor(g2[6], t(3)[5])
      BY <2>2, Zenon DEF g3
    <3>7. g2[6] = Xor(g1[7], t(2)[6])
      BY <2>2, Zenon DEF g2
    <3>8. QED
      BY <3>1, <3>2, <3>3, <3>4, <3>5, <3>6, <3>7, Zenon
  <2>5. /\ Slice(c, b, 1) = g1[7] /\ Slice(c, b, 2) = t(2)[6] /\ Slice(c, b, 3) = t(3)[5]
        /\ Slice(c, b, 4) = t(4)[4] /\ Slice(c, b, 5) = t(5)[3] /\ Slice(c, b, 6) = t(6)[2]
        /\ Slice(c, b, 7) = t(7)[1] /\ Slice(c, b, 8) = t(8)[0]
    BY <1>5, <2>1, <2>3, Zenon DEF g1
  <2>6. QED
    BY <2>4, <2>5, Zenon DEF TwoWords
<1>17. QED
  BY <1>7, <1>13, <1>14, <1>15, <1>16, Zenon

LEMMA PartRead ==
  ASSUME NEW S, NEW s \in Seq(S), NEW m \in Nat, NEW n \in Nat, 0 < m, m <= n, n <= Len(s)
  PROVE  /\ SubSeq(s, m, n) \in Seq(S) /\ Len(SubSeq(s, m, n)) = n - m + 1
         /\ \A i \in 1 .. n - m + 1 : SubSeq(s, m, n)[i] = s[m + i - 1]
<1>1. \A i \in 1 .. n - m + 1 : m + i - 1 \in 1 .. Len(s)
  OBVIOUS
<1>2. Len(SubSeq(s, m, n)) = n - m + 1
  OBVIOUS
<1>3. SubSeq(s, m, n) \in Seq(S)
  OBVIOUS
<1>4. ASSUME NEW i \in 1 .. n - m + 1 PROVE SubSeq(s, m, n)[i] = s[m + i - 1]
  OBVIOUS
<1>5. QED
  BY <1>2, <1>3, <1>4

LEMMA HeaderCrcWord == \A c \in Word, b \in Octet : HeaderCrc(c, b) \in Word
  BY DividedWord, XorWord, OctetWord, Zenon DEF HeaderCrc

-----------------------------------------------------------------------------
(* A message *)

(* Checksum c after r more bytes of m, those behind place at. *)
Fed(c, m, at, r) ==
  LET f1 == HeaderCrc(c, m[at + 1])
      f2 == HeaderCrc(f1, m[at + 2])
      f3 == HeaderCrc(f2, m[at + 3])
      f4 == HeaderCrc(f3, m[at + 4])
      f5 == HeaderCrc(f4, m[at + 5])
      f6 == HeaderCrc(f5, m[at + 6])
      f7 == HeaderCrc(f6, m[at + 7])
  IN  CASE r = 0 -> c [] r = 1 -> f1 [] r = 2 -> f2 [] r = 3 -> f3
        [] r = 4 -> f4 [] r = 5 -> f5 [] r = 6 -> f6 [] r = 7 -> f7

LEMMA FedStep ==
  ASSUME NEW c, NEW m, NEW at, NEW r \in 0 .. 6
  PROVE  Fed(c, m, at, r + 1) = HeaderCrc(Fed(c, m, at, r), m[at + (r + 1)])
<1>1. Fed(c, m, at, 0) = c
  BY DEF Fed
<1>2. Fed(c, m, at, 1) = HeaderCrc(c, m[at + 1])
  BY DEF Fed
<1>3. Fed(c, m, at, 2) = HeaderCrc(Fed(c, m, at, 1), m[at + 2])
  BY DEF Fed
<1>4. Fed(c, m, at, 3) = HeaderCrc(Fed(c, m, at, 2), m[at + 3])
  BY DEF Fed
<1>5. Fed(c, m, at, 4) = HeaderCrc(Fed(c, m, at, 3), m[at + 4])
  BY DEF Fed
<1>6. Fed(c, m, at, 5) = HeaderCrc(Fed(c, m, at, 4), m[at + 5])
  BY DEF Fed
<1>7. Fed(c, m, at, 6) = HeaderCrc(Fed(c, m, at, 5), m[at + 6])
  BY DEF Fed
<1>8. Fed(c, m, at, 7) = HeaderCrc(Fed(c, m, at, 6), m[at + 7])
  BY DEF Fed
<1>9. \/ (r = 0 /\ r + 1 = 1) \/ (r = 1 /\ r + 1 = 2) \/ (r = 2 /\ r + 1 = 3) \/ (r = 3 /\ r + 1 = 4)
      \/ (r = 4 /\ r + 1 = 5) \/ (r = 5 /\ r + 1 = 6) \/ (r = 6 /\ r + 1 = 7)
  OBVIOUS
<1>10. QED
  BY <1>1, <1>2, <1>3, <1>4, <1>5, <1>6, <1>7, <1>8, <1>9, Zenon

LEMMA FedAll ==
  ASSUME NEW c, NEW m, NEW at
  PROVE  /\ Fed(c, m, at, 0) = c
         /\ Fed(c, m, at, 7) =
              HeaderCrc(HeaderCrc(HeaderCrc(HeaderCrc(HeaderCrc(HeaderCrc(HeaderCrc(
                c, m[at + 1]), m[at + 2]), m[at + 3]), m[at + 4]), m[at + 5]), m[at + 6]), m[at + 7])
<1>1. Fed(c, m, at, 0) = c
  BY DEF Fed
<1>2. QED
  BY <1>1 DEF Fed

(* Place up to which a message of n bytes is read in pairs of words. *)
Slices(n) == n - (n % 8)

(* The slower checksum has read what the faster one waits for. *)
MessageOK ==
  /\ input \in Seq(Octet) /\ taken \in Nat /\ taken <= Len(input)
  /\ values[1] \in Word /\ values[2] \in Word
  /\ taken > Slices(Len(input)) => values[1] = values[2]
  /\ taken <= Slices(Len(input)) => values[1] = Fed(values[2], input, taken - (taken % 8), taken % 8)

TwinsInv ==
  /\ stage = "idle" => taken = 0
  /\ stage = "header" => input \in Headers
  /\ stage = "message" => MessageOK

LEMMA PlacesInSlices ==
  ASSUME NEW n \in Nat, NEW i \in Nat, i < n
  PROVE  /\ i % 8 \in 0 .. 7
         /\ (i + 1) % 8 = 0 => i % 8 = 7 /\ i + 1 <= Slices(n) /\ i - (i % 8) = i - 7 /\ i - 7 \in Nat
         /\ (i + 1) % 8 # 0 => i % 8 \in 0 .. 6 /\ (i + 1) % 8 = (i % 8) + 1
                               /\ (i + 1) - ((i + 1) % 8) = i - (i % 8)
         /\ i - (i % 8) + ((i % 8) + 1) = i + 1
         /\ i + 1 > Slices(n) => i > Slices(n) \/ i % 8 = 0
  BY DEF Slices

LEMMA ChecksumKeeps ==
  ASSUME MessageOK, stage = "message", Checksum
  PROVE  MessageOK'
<1> DEFINE v == values[1]
           w == values[2]
           i == taken
           n == Len(input)
           byte == input[i + 1]
<1>1. /\ i \in Nat /\ n \in Nat /\ i < n /\ taken' = i + 1 /\ input' = input /\ i + 1 \in 1 .. n
      /\ byte \in Octet /\ v \in Word /\ w \in Word
  BY DEF MessageOK, Checksum
<1>2. /\ values'[1] = HeaderCrc(v, byte)
      /\ values'[2] = IF (i + 1) % 8 = 0 THEN TwoWords(w, SubSeq(input, (i + 1) - 7, i + 1))
                      ELSE IF i + 1 > Slices(n) THEN OneByte(w, byte) ELSE w
  BY <1>1, Zenon DEF Checksum, Slices
<1>3. HeaderCrc(v, byte) \in Word
  BY <1>1, HeaderCrcWord, Zenon
<1>4. /\ i > Slices(n) => v = w
      /\ i <= Slices(n) => v = Fed(w, input, i - (i % 8), i % 8)
  BY <1>1, Zenon DEF MessageOK
<1>5. /\ Slices(n) \in Int /\ i % 8 \in 0 .. 7
      /\ (i + 1) % 8 = 0 => i % 8 = 7 /\ i + 1 <= Slices(n) /\ i - (i % 8) = i - 7 /\ i - 7 \in Nat
      /\ (i + 1) % 8 # 0 => i % 8 \in 0 .. 6 /\ (i + 1) % 8 = (i % 8) + 1
                            /\ (i + 1) - ((i + 1) % 8) = i - (i % 8)
      /\ i - (i % 8) + ((i % 8) + 1) = i + 1
      /\ i + 1 > Slices(n) => i > Slices(n) \/ i % 8 = 0
  <2>1. Slices(n) \in Int
    BY <1>1 DEF Slices
  <2>2. QED
    BY <1>1, <2>1, PlacesInSlices
<1>6. /\ input' \in Seq(Octet) /\ taken' \in Nat /\ taken' <= Len(input')
      /\ Len(input') = n /\ taken' = i + 1 /\ input' = input
  BY <1>1 DEF MessageOK
<1> HIDE DEF v, w, i, n, byte
<1>7. ASSUME NEW a \in Word, NEW c \in Word, values'[1] = a, values'[2] = c,
             i + 1 > Slices(n) => a = c,
             i + 1 <= Slices(n) => a = Fed(c, input, (i + 1) - ((i + 1) % 8), (i + 1) % 8)
      PROVE  MessageOK'
  BY <1>6, <1>7, Zenon DEF MessageOK
<1>8. CASE (i + 1) % 8 = 0
  <2> DEFINE b == SubSeq(input, (i + 1) - 7, i + 1)
             a == HeaderCrc(v, byte)
  <2>1. values'[1] = a /\ values'[2] = TwoWords(w, b)
    BY <1>2, <1>8, Zenon
  <2>2. v = Fed(w, input, i - 7, 7)
    <3>1. i <= Slices(n) /\ i % 8 = 7 /\ i - (i % 8) = i - 7
      BY <1>1, <1>5, <1>8
    <3>2. QED
      BY <1>4, <3>1, Zenon
  <2>3. \A j \in 1 .. 8 : b[j] = input[(i - 7) + j] /\ b[j] \in Octet
    <3>1. /\ (i + 1) - 7 \in Nat /\ 0 < (i + 1) - 7 /\ (i + 1) - 7 <= i + 1 /\ i + 1 <= Len(input)
          /\ input \in Seq(Octet) /\ i + 1 \in Nat
      BY <1>1, <1>5, <1>8 DEF n, MessageOK
    <3>2. /\ Len(b) = 8
          /\ \A j \in 1 .. 8 : b[j] = input[((i + 1) - 7) + j - 1]
      <4>1. (i + 1) - ((i + 1) - 7) + 1 = 8
        BY <1>1
      <4>2. /\ Len(b) = (i + 1) - ((i + 1) - 7) + 1
            /\ \A j \in 1 .. (i + 1) - ((i + 1) - 7) + 1 : b[j] = input[((i + 1) - 7) + j - 1]
        <5> DEFINE lo == (i + 1) - 7
                   hi == i + 1
        <5> HIDE DEF lo, hi
        <5>1. /\ Len(SubSeq(input, lo, hi)) = hi - lo + 1
              /\ \A j \in 1 .. hi - lo + 1 : SubSeq(input, lo, hi)[j] = input[lo + j - 1]
          BY <3>1, PartRead, Zenon DEF lo, hi
        <5>2. QED
          BY <5>1, Zenon DEF lo, hi
      <4>3. QED
        BY <4>1, <4>2, Zenon
    <3>3. ASSUME NEW j \in 1 .. 8
          PROVE  ((i + 1) - 7) + j - 1 = (i - 7) + j /\ (i - 7) + j \in 1 .. Len(input)
      BY <3>1, <1>1
    <3>4. \A k \in 1 .. Len(input) : input[k] \in Octet
      BY <3>1
    <3>5. QED
      BY <3>2, <3>3, <3>4
  <2> HIDE DEF b
  <2>4. /\ b[1] = input[(i - 7) + 1] /\ b[2] = input[(i - 7) + 2] /\ b[3] = input[(i - 7) + 3]
        /\ b[4] = input[(i - 7) + 4] /\ b[5] = input[(i - 7) + 5] /\ b[6] = input[(i - 7) + 6]
        /\ b[7] = input[(i - 7) + 7] /\ b[8] = byte
    <3>1. /\ 1 \in 1 .. 8 /\ 2 \in 1 .. 8 /\ 3 \in 1 .. 8 /\ 4 \in 1 .. 8
          /\ 5 \in 1 .. 8 /\ 6 \in 1 .. 8 /\ 7 \in 1 .. 8 /\ 8 \in 1 .. 8 /\ (i - 7) + 8 = i + 1
      BY <1>1
    <3>2. QED
      BY <2>3, <3>1, Zenon DEF byte
  <2>5. TwoWords(w, b) = a
    <3>1. \A j \in 1 .. 8 : b[j] \in Octet
      BY <2>3
    <3>2. TwoWords(w, b) =
           HeaderCrc(HeaderCrc(HeaderCrc(HeaderCrc(HeaderCrc(HeaderCrc(HeaderCrc(HeaderCrc(
             w, b[1]), b[2]), b[3]), b[4]), b[5]), b[6]), b[7]), b[8])
      <4>1. w \in Word
        BY <1>1
      <4>2. QED
        BY <3>1, <4>1, EightBytes
    <3>3. v = HeaderCrc(HeaderCrc(HeaderCrc(HeaderCrc(HeaderCrc(HeaderCrc(HeaderCrc(
                w, b[1]), b[2]), b[3]), b[4]), b[5]), b[6]), b[7])
      <4> DEFINE at == i - 7
      <4>1. /\ b[1] = input[at + 1] /\ b[2] = input[at + 2] /\ b[3] = input[at + 3]
            /\ b[4] = input[at + 4] /\ b[5] = input[at + 5] /\ b[6] = input[at + 6]
            /\ b[7] = input[at + 7] /\ v = Fed(w, input, at, 7)
        BY <2>2, <2>4, Zenon
      <4> HIDE DEF at
      <4>2. Fed(w, input, at, 7) =
              HeaderCrc(HeaderCrc(HeaderCrc(HeaderCrc(HeaderCrc(HeaderCrc(HeaderCrc(
                w, input[at + 1]), input[at + 2]), input[at + 3]), input[at + 4]),
                input[at + 5]), input[at + 6]), input[at + 7])
        BY FedAll
      <4>3. QED
        BY <4>1, <4>2, Zenon
    <3>4. QED
      BY <2>4, <3>2, <3>3, Zenon
  <2>6. i + 1 <= Slices(n) => a = Fed(a, input, (i + 1) - ((i + 1) % 8), (i + 1) % 8)
    BY <1>8, FedAll, Zenon
  <2> HIDE DEF a
  <2>7. a \in Word
    BY <1>3, Zenon DEF a
  <2>8. values'[1] = a /\ values'[2] = a
    BY <2>1, <2>5, Zenon
  <2>9. QED
    BY <1>7, <2>6, <2>7, <2>8, Zenon
<1>9. CASE (i + 1) % 8 # 0 /\ i + 1 > Slices(n)
  <2>1. v = w
    <3>1. i > Slices(n) \/ (i % 8 = 0 /\ i <= Slices(n))
      BY <1>1, <1>5, <1>9
    <3>2. QED
      BY <1>4, <3>1, FedAll, Zenon
  <2>2. values'[2] = OneByte(w, byte)
    BY <1>2, <1>9, Zenon
  <2>3. values'[1] = HeaderCrc(v, byte) /\ values'[2] = HeaderCrc(v, byte)
    BY <1>1, <1>2, <2>1, <2>2, OneByteIsHeaderCrc, Zenon
  <2>4. ~(i + 1 <= Slices(n))
    BY <1>1, <1>5, <1>9
  <2>5. QED
    BY <1>3, <1>7, <2>3, <2>4, Zenon
<1>10. CASE (i + 1) % 8 # 0 /\ ~(i + 1 > Slices(n))
  <2>1. values'[1] = HeaderCrc(v, byte) /\ values'[2] = w
    BY <1>2, <1>10, Zenon
  <2>2. v = Fed(w, input, i - (i % 8), i % 8)
    <3>1. i <= Slices(n)
      BY <1>1, <1>5, <1>10
    <3>2. QED
      BY <1>4, <3>1, Zenon
  <2>3. Fed(w, input, i - (i % 8), (i % 8) + 1) =
          HeaderCrc(Fed(w, input, i - (i % 8), i % 8), input[i - (i % 8) + ((i % 8) + 1)])
    <3> DEFINE r == i % 8
               at == i - (i % 8)
    <3>1. r \in 0 .. 6
      BY <1>5, <1>10, Zenon
    <3> HIDE DEF r, at
    <3>2. Fed(w, input, at, r + 1) = HeaderCrc(Fed(w, input, at, r), input[at + (r + 1)])
      BY <3>1, FedStep, ZenonT(40)
    <3>3. QED
      BY <3>2, Zenon DEF r, at
  <2>4. HeaderCrc(v, byte) = Fed(w, input, (i + 1) - ((i + 1) % 8), (i + 1) % 8)
    BY <1>5, <1>10, <2>2, <2>3, Zenon DEF byte
  <2>5. QED
    BY <1>1, <1>3, <1>7, <1>10, <2>1, <2>4, Zenon
<1>11. QED
  BY <1>8, <1>9, <1>10

LEMMA TwinsInitial == RawImageInit => TwinsInv
  BY DEF RawImageInit, TwinsInv

LEMMA MessageGiven == stage = "idle" /\ taken = 0 /\ GiveMessage => MessageOK'
<1> SUFFICES ASSUME stage = "idle", taken = 0, GiveMessage PROVE MessageOK'
  OBVIOUS
<1>1. PICK m \in Messages : input' = m
  BY DEF GiveMessage
<1>2. m \in Seq(Octet)
  BY InputAssumption DEF Octet
<1>3. values'[1] = AllOnes /\ values'[2] = AllOnes /\ taken' = 0
  BY DEF GiveMessage
<1>4. Len(m) \in Nat /\ 0 <= Len(m) /\ 0 % 8 = 0 /\ 0 \in Nat /\ Slices(Len(m)) \in Nat
  BY <1>2 DEF Slices
<1>5. ~(0 > Slices(Len(m)))
  BY <1>4
<1>6. AllOnes = Fed(AllOnes, m, 0 - (0 % 8), 0 % 8)
  BY <1>4, FedAll, Zenon
<1>7. QED
  BY <1>1, <1>2, <1>3, <1>4, <1>5, <1>6, OctetWord, Zenon DEF MessageOK

LEMMA TwinsStep == TwinsInv /\ [RawImageNext]_rawImageVars => TwinsInv'
<1> SUFFICES ASSUME TwinsInv, [RawImageNext]_rawImageVars PROVE TwinsInv'
  OBVIOUS
<1>1. CASE Give
  BY <1>1 DEF TwinsInv, Give
<1>2. CASE GiveMessage
  <2>1. stage' = "message" /\ MessageOK'
    BY <1>2, MessageGiven DEF TwinsInv, GiveMessage
  <2>2. QED
    BY <2>1 DEF TwinsInv
<1>3. CASE Checksum
  <2>1. stage = "message" /\ stage' = "message"
    BY <1>3 DEF Checksum
  <2>2. MessageOK'
    BY <1>3, <2>1, ChecksumKeeps DEF TwinsInv
  <2>3. QED
    BY <2>1, <2>2 DEF TwinsInv
<1>4. CASE OpenBlock \/ Pixel \/ EndBlock
  <2>1. stage' \in {"pixels", "refused", "accepted"}
    BY <1>4 DEF OpenBlock, Pixel, EndBlock
  <2>2. QED
    BY <2>1 DEF TwinsInv
<1>5. CASE UNCHANGED rawImageVars
  BY <1>5 DEF TwinsInv, MessageOK, rawImageVars
<1>6. QED
  BY <1>1, <1>2, <1>3, <1>4, <1>5 DEF RawImageNext

LEMMA HeadersDecided == TwinsInv => HeadersAgree
<1> SUFFICES ASSUME stage = "header", input \in Headers, ParsesHeader(input)
             PROVE  /\ DecodesHeader(input) <=> input.total <= 25 * 1024 * 1024
                    /\ TriggerOf(input) # 0 => input.timing = 4 /\ input.stamp # 0
  BY DEF TwinsInv, HeadersAgree
<1> DEFINE h == input
<1>1. /\ h.total \in Nat /\ h.bytes \in Nat /\ h.bayer \in Nat /\ h.camera \in Nat /\ h.timing \in Nat
  BY InputAssumption
<1>2. /\ h.magic \in {"PRG1", "PRZ1"} /\ h.format \in {0, IF h.magic = "PRG1" THEN 4 ELSE 3}
      /\ h.depth = 12 /\ h.bayer <= 3 /\ h.kind = 2 /\ h.camera < 4 /\ h.geometry = "5120x3072"
      /\ \/ h.timing = 0 /\ h.stamp = 0
         \/ h.timing \in 1 .. 3
         \/ h.timing = 4 /\ h.stamp # 0
      /\ h.magic = "PRG1" => h.block = 256 /\ h.payload = h.total - h.bytes
      /\ h.version = 2 => \/ h.timing = 4 /\ h.trigger # 0
                          \/ h.timing = 0 /\ h.trigger = 0
  BY DEF ParsesHeader
<1>3. h.total >= (IF h.magic = "PRG1" THEN 65 ELSE 49)
  BY <1>1 DEF ParsesHeader
<1>4. h.camera <= 3 /\ h.timing <= 4 /\ ValidProfileTiming(h.timing, h.stamp)
  BY <1>1, <1>2 DEF ValidProfileTiming
<1>5. DecodesHeader(h) <=> h.total <= 25 * 1024 * 1024
  BY <1>2, <1>3, <1>4 DEF DecodesHeader
<1>6. TriggerOf(h) # 0 => h.timing = 4 /\ h.stamp # 0
  BY <1>2 DEF TriggerOf
<1>7. QED
  BY <1>5, <1>6

LEMMA ChecksumsEqual == TwinsInv => ChecksumsAgree
<1> SUFFICES ASSUME MessageOK, taken = Len(input) PROVE values[1] = values[2]
  BY DEF TwinsInv, ChecksumsAgree
<1>1. CASE taken > Slices(Len(input))
  BY <1>1 DEF MessageOK
<1>2. CASE ~(taken > Slices(Len(input)))
  <2>1. taken \in Nat /\ Slices(taken) \in Int /\ ~(taken > Slices(taken))
    BY <1>2 DEF MessageOK, Slices
  <2>2. taken <= Slices(taken)
    BY <2>1
  <2>3. taken % 8 = 0
    BY <2>1, <2>2 DEF Slices
  <2>4. values[1] = Fed(values[2], input, taken - (taken % 8), taken % 8)
    BY <2>2, Zenon DEF MessageOK
  <2>5. values[1] = Fed(values[2], input, taken - (taken % 8), 0)
    BY <2>3, <2>4, Zenon
  <2>6. QED
    BY <2>5, FedAll, Zenon
<1>3. QED
  BY <1>1, <1>2

(* A header that is parsed is decoded unless the image is too large, and both *)
(* checksums of a message are equal, whatever its length (decodeRaw12,          *)
(* rawCrc32 and rawHeaderCrc32).                                                  *)
THEOREM TwinsDecideAlike == RawImageSpec => []TwinsAgree
<1>1. RawImageInit => TwinsInv
  BY TwinsInitial
<1>2. TwinsInv /\ [RawImageNext]_rawImageVars => TwinsInv'
  BY TwinsStep
<1>3. TwinsInv => TwinsAgree
  BY HeadersDecided, ChecksumsEqual DEF TwinsAgree
<1>4. QED
  BY <1>1, <1>2, <1>3, PTL DEF RawImageSpec

-----------------------------------------------------------------------------
(***************************************************************************)
(* LidarPoints for all batches.  The fields of a stored point lie behind   *)
(* each other (FieldsStored) and the bytes of a number give it back        *)
(* (WordOfDigits).  The offset of a point times the number of gaps is the  *)
(* exact one rounded by less than half of it (Spread), which bounds the    *)
(* distance of two neighbours from both sides.                             *)
(***************************************************************************)

(* Bytes *)

(* Sequence t lies in s behind place at. *)
Within(t, s, at) == \A b \in 1 .. Len(t) : s[at + b] = t[b]

(* Byte k of a number, from 0. *)
Digit(v, k) == (v \div 256 ^ k) % 256

LEMMA RangeOfInt == \A a, b : a .. b \subseteq Int
  BY SMT

LEMMA Ranges == Byte \subseteq Int /\ UInt16 \subseteq Int /\ Int32 \subseteq Int
<1>1. Byte \subseteq Int
  BY SMT DEF Byte
<1>2. UInt16 \subseteq Int
  <2>1. UInt16 \subseteq Nat
    BY Zenon DEF UInt16
  <2>2. QED
    BY <2>1
<1>3. Int32 \subseteq Int
  BY RangeOfInt, ZenonT(60) DEF Int32
<1>4. QED
  BY <1>1, <1>2, <1>3

LEMMA DigitsOfInt ==
  \A v \in Int : Digit(v, 0) \in Int /\ Digit(v, 1) \in Int /\ Digit(v, 2) \in Int /\ Digit(v, 3) \in Int
  BY SMT DEF Digit

LEMMA PutDigits ==
  ASSUME NEW v \in Int
  PROVE  /\ Put(v, 2) \in Seq(Int) /\ Len(Put(v, 2)) = 2
         /\ Put(v, 4) \in Seq(Int) /\ Len(Put(v, 4)) = 4
         /\ Put(v, 2)[1] = Digit(v, 0) /\ Put(v, 2)[2] = Digit(v, 1)
         /\ Put(v, 4)[1] = Digit(v, 0) /\ Put(v, 4)[2] = Digit(v, 1)
         /\ Put(v, 4)[3] = Digit(v, 2) /\ Put(v, 4)[4] = Digit(v, 3)
<1>1. /\ Put(v, 2) = [b \in 1 .. 2 |-> Digit(v, b - 1)]
      /\ Put(v, 4) = [b \in 1 .. 4 |-> Digit(v, b - 1)]
  BY DEF Put, Digit
<1>2. \A b \in 1 .. 4 : b - 1 = 0 \/ b - 1 = 1 \/ b - 1 = 2 \/ b - 1 = 3
  BY SMT
<1>3. \A b \in 1 .. 4 : Digit(v, b - 1) \in Int
  BY <1>2, DigitsOfInt, Zenon
<1>4. \A b \in 1 .. 2 : Digit(v, b - 1) \in Int
  BY <1>2, DigitsOfInt, SMT
<1>5. Put(v, 4) \in [1 .. 4 -> Int] /\ Put(v, 2) \in [1 .. 2 -> Int]
  BY <1>1, <1>3, <1>4, Zenon
<1>6. \A n \in Nat : \A f : f \in [1 .. n -> Int] => f \in Seq(Int) /\ Len(f) = n
  BY SMT
<1>7. /\ Put(v, 4) \in Seq(Int) /\ Len(Put(v, 4)) = 4
      /\ Put(v, 2) \in Seq(Int) /\ Len(Put(v, 2)) = 2
  <2>1. 4 \in Nat /\ 2 \in Nat
    BY SMT
  <2>2. QED
    BY <1>5, <1>6, <2>1, Zenon
<1>8. /\ 1 \in 1 .. 2 /\ 2 \in 1 .. 2 /\ 1 \in 1 .. 4 /\ 2 \in 1 .. 4 /\ 3 \in 1 .. 4 /\ 4 \in 1 .. 4
      /\ 1 - 1 = 0 /\ 2 - 1 = 1 /\ 3 - 1 = 2 /\ 4 - 1 = 3
  BY SMT
<1>9. QED
  BY <1>1, <1>7, <1>8, Zenon

(* Four bytes, read without and with a sign. *)
FourBytes(b1, b2, b3, b4) == b1 + 256 * b2 + 256 ^ 2 * (b3 + 256 * b4)
SignedBytes(b1, b2, b3, b4) ==
  IF b4 >= 128 THEN -1 - FourBytes(255 - b1, 255 - b2, 255 - b3, 255 - b4) ELSE FourBytes(b1, b2, b3, b4)

(* The bytes of a number in two's complement. *)
SignAppliesTo(v, b1, b2, b3, b4) ==
  /\ {v, b1, b2, b3, b4} \subseteq Int
  /\ b4 >= 128 <=> v < 0
  /\ b1 + 256 * b2 + 65536 * (b3 + 256 * b4) = v + (IF v < 0 THEN 4294967296 ELSE 0)

LEMMA SignApplied ==
  ASSUME NEW v, NEW b1, NEW b2, NEW b3, NEW b4, SignAppliesTo(v, b1, b2, b3, b4)
  PROVE  SignedBytes(b1, b2, b3, b4) = v
<1>1. CASE v < 0
  BY <1>1, SMT DEF SignedBytes, FourBytes, SignAppliesTo
<1>2. CASE ~(v < 0)
  BY <1>2, SMT DEF SignedBytes, FourBytes, SignAppliesTo
<1>3. QED
  BY <1>1, <1>2, SMT

(* The digits of a number give it back. *)
LEMMA WordOfDigits ==
  ASSUME NEW v \in Int32
  PROVE  SignedBytes(Digit(v, 0), Digit(v, 1), Digit(v, 2), Digit(v, 3)) = v
<1>1. v \in Int /\ (-128) * 16777216 <= v /\ v < 128 * 16777216
  BY SMT DEF Int32
<1>2. /\ Digit(v, 0) = v % 256 /\ Digit(v, 1) = (v \div 256) % 256
      /\ Digit(v, 2) = (v \div 65536) % 256 /\ Digit(v, 3) = (v \div 16777216) % 256
  BY <1>1, SMT DEF Digit
<1>3. Digit(v, 3) >= 128 <=> v < 0
  BY <1>1, <1>2, SMT
<1>4. (v % 256) + 256 * ((v \div 256) % 256)
        + 65536 * (((v \div 65536) % 256) + 256 * ((v \div 16777216) % 256))
        = v + (IF v < 0 THEN 4294967296 ELSE 0)
  BY <1>1, SMT
<1>5. Digit(v, 0) + 256 * Digit(v, 1) + 65536 * (Digit(v, 2) + 256 * Digit(v, 3))
        = v + (IF v < 0 THEN 4294967296 ELSE 0)
  BY <1>2, <1>4, SMT
<1>6. Digit(v, 0) \in Int /\ Digit(v, 1) \in Int /\ Digit(v, 2) \in Int /\ Digit(v, 3) \in Int
  BY <1>1, <1>2, SMT
<1>7. SignAppliesTo(v, Digit(v, 0), Digit(v, 1), Digit(v, 2), Digit(v, 3))
  BY <1>1, <1>3, <1>5, <1>6, SMT DEF SignAppliesTo
<1>8. QED
  BY <1>7, SignApplied, Zenon

LEMMA HalfWordOfDigits ==
  ASSUME NEW v \in UInt16
  PROVE  Digit(v, 0) + 256 * Digit(v, 1) = v
  BY SMT DEF Digit, UInt16

(* How the reader reads four bytes in a row. *)
LEMMA WordRead ==
  ASSUME NEW s \in Seq(Int), NEW at \in Nat, at + 4 <= Len(s)
  PROVE  Signed32(s, at) = SignedBytes(s[at + 1], s[at + 2], s[at + 3], s[at + 4])
<1>1. at + 2 + 1 = at + 3 /\ at + 2 + 2 = at + 4
  BY SMT
<1>2. at + 1 \in DOMAIN s /\ at + 2 \in DOMAIN s /\ at + 3 \in DOMAIN s /\ at + 4 \in DOMAIN s
  BY SMT
<1>3. \A t : Unsigned32(t, at) = FourBytes(t[at + 1], t[at + 2], t[at + 3], t[at + 4])
  BY <1>1, ZenonT(40) DEF Unsigned32, Unsigned16, FourBytes
<1>4. Unsigned32([b \in DOMAIN s |-> 255 - s[b]], at) =
        FourBytes(255 - s[at + 1], 255 - s[at + 2], 255 - s[at + 3], 255 - s[at + 4])
  <2> DEFINE t == [b \in DOMAIN s |-> 255 - s[b]]
  <2>1. /\ t[at + 1] = 255 - s[at + 1] /\ t[at + 2] = 255 - s[at + 2]
        /\ t[at + 3] = 255 - s[at + 3] /\ t[at + 4] = 255 - s[at + 4]
    BY <1>2, Zenon
  <2> HIDE DEF t
  <2>2. Unsigned32(t, at) = FourBytes(t[at + 1], t[at + 2], t[at + 3], t[at + 4])
    BY <1>3, Zenon
  <2>3. QED
    BY <2>1, <2>2, ZenonT(40) DEF t
<1>5. QED
  BY <1>3, <1>4, ZenonT(40) DEF Signed32, SignedBytes

(* The four bytes of a number give it back, its sign from the highest bit. *)
LEMMA WordRecovered ==
  ASSUME NEW v \in Int32, NEW s \in Seq(Int), NEW at \in Nat, at + 4 <= Len(s), Within(Put(v, 4), s, at)
  PROVE  Signed32(s, at) = v
<1>1. v \in Int
  BY Ranges
<1>2. 1 \in 1 .. 4 /\ 2 \in 1 .. 4 /\ 3 \in 1 .. 4 /\ 4 \in 1 .. 4
  BY SMT
<1>3. /\ s[at + 1] = Digit(v, 0) /\ s[at + 2] = Digit(v, 1)
      /\ s[at + 3] = Digit(v, 2) /\ s[at + 4] = Digit(v, 3)
  BY <1>1, <1>2, PutDigits, Zenon DEF Within
<1>4. QED
  BY <1>3, WordRead, WordOfDigits, Zenon

LEMMA HalfWordRecovered ==
  ASSUME NEW v \in UInt16, NEW s, NEW at \in Nat, Within(Put(v, 2), s, at)
  PROVE  Unsigned16(s, at) = v
<1>1. v \in Int /\ 1 \in 1 .. 2 /\ 2 \in 1 .. 2
  BY Ranges, SMT
<1>2. s[at + 1] = Digit(v, 0) /\ s[at + 2] = Digit(v, 1)
  BY <1>1, PutDigits, Zenon DEF Within
<1>3. QED
  BY <1>2, HalfWordOfDigits, Zenon DEF Unsigned16

(* What two sequences one behind the other hold. *)
LEMMA JoinedHold ==
  ASSUME NEW s \in Seq(Int), NEW t \in Seq(Int)
  PROVE  /\ s \o t \in Seq(Int) /\ Len(s \o t) = Len(s) + Len(t)
         /\ Within(s, s \o t, 0) /\ Within(t, s \o t, Len(s))
<1>1. /\ s \o t \in Seq(Int) /\ Len(s \o t) = Len(s) + Len(t)
      /\ \A i \in 1 .. Len(s) + Len(t) : (s \o t)[i] = IF i <= Len(s) THEN s[i] ELSE t[i - Len(s)]
  BY ConcatProperties
<1>2. Len(s) \in Nat /\ Len(t) \in Nat
  OBVIOUS
<1>3. ASSUME NEW i \in 1 .. Len(s) PROVE (s \o t)[0 + i] = s[i]
  <2>1. i \in 1 .. Len(s) + Len(t) /\ 0 + i = i /\ i <= Len(s)
    BY <1>2, SMT
  <2>2. QED
    BY <1>1, <2>1, Zenon
<1>4. ASSUME NEW i \in 1 .. Len(t) PROVE (s \o t)[Len(s) + i] = t[i]
  <2>1. Len(s) + i \in 1 .. Len(s) + Len(t) /\ ~(Len(s) + i <= Len(s)) /\ (Len(s) + i) - Len(s) = i
    BY <1>2, SMT
  <2>2. QED
    BY <1>1, <2>1, Zenon
<1>5. QED
  BY <1>1, <1>3, <1>4, Zenon DEF Within

LEMMA JoinAssociative ==
  \A s, t, u \in Seq(Int) : s \o (t \o u) = (s \o t) \o u
  BY ConcatAssociative, SMTT(30)

(* Brackets around joined sequences move. *)
Moved(s, t, u, v) == s \o ((t \o u) \o v) = ((s \o t) \o u) \o v

LEMMA JoinsAssociative == \A s, t, u, v \in Seq(Int) : Moved(s, t, u, v)
<1> SUFFICES ASSUME NEW s \in Seq(Int), NEW t \in Seq(Int), NEW u \in Seq(Int), NEW v \in Seq(Int)
             PROVE  s \o ((t \o u) \o v) = ((s \o t) \o u) \o v
  BY Zenon DEF Moved
<1> DEFINE tu == t \o u
<1>1. tu \in Seq(Int)
  OBVIOUS
<1>2. s \o tu = (s \o t) \o u
  BY JoinAssociative, SMTT(30)
<1> HIDE DEF tu
<1>3. s \o (tu \o v) = (s \o tu) \o v
  BY <1>1, JoinAssociative, SMTT(30)
<1>4. QED
  BY <1>2, <1>3, Zenon DEF tu

LEMMA JoinLength ==
  \A s, t \in Seq(Int) : s \o t \in Seq(Int) /\ Len(s \o t) = Len(s) + Len(t)
  BY JoinedHold, Zenon

(* Sequence u lies in s, behind place at. *)
Holds(s, at, u) ==
  s \in Seq(Int) /\ u \in Seq(Int) /\ at \in Nat /\ at + Len(u) <= Len(s) /\ Within(u, s, at)

LEMMA JoinHolds ==
  ASSUME NEW s \in Seq(Int), NEW t \in Seq(Int)
  PROVE  /\ s \o t \in Seq(Int)
         /\ Holds(s \o t, 0, s) /\ Holds(s \o t, Len(s), t)
         /\ \A u, at : Holds(s, at, u) => Holds(s \o t, at, u)
<1>1. Len(s) \in Nat /\ Len(t) \in Nat /\ s \o t \in Seq(Int) /\ Len(s \o t) = Len(s) + Len(t)
  BY JoinedHold
<1>2. 0 \in Nat /\ 0 + Len(s) <= Len(s) + Len(t) /\ Len(s) + Len(t) <= Len(s) + Len(t)
  BY <1>1, SMT
<1>3. Holds(s \o t, 0, s) /\ Holds(s \o t, Len(s), t)
  BY <1>1, <1>2, JoinedHold DEF Holds
<1>4. ASSUME NEW u, NEW at, Holds(s, at, u) PROVE Holds(s \o t, at, u)
  <2>1. \A i \in 1 .. Len(s) + Len(t) : (s \o t)[i] = IF i <= Len(s) THEN s[i] ELSE t[i - Len(s)]
    BY ConcatProperties
  <2>2. at \in Nat /\ u \in Seq(Int) /\ Len(u) \in Nat /\ at + Len(u) <= Len(s)
    BY <1>4 DEF Holds
  <2>3. ASSUME NEW i \in 1 .. Len(u) PROVE (s \o t)[at + i] = u[i]
    <3>1. at + i \in 1 .. Len(s) + Len(t) /\ at + i <= Len(s)
      BY <1>1, <2>2, SMT
    <3>2. s[at + i] = u[i]
      BY <1>4, Zenon DEF Holds, Within
    <3>3. QED
      BY <2>1, <3>1, <3>2, Zenon
  <2>4. at + Len(u) <= Len(s \o t)
    BY <1>1, <2>2, SMT
  <2>5. QED
    BY <1>1, <2>2, <2>3, <2>4, Zenon DEF Holds, Within
<1>5. QED
  BY <1>1, <1>3, <1>4, Zenon

-----------------------------------------------------------------------------
(* Points as they are stored *)

(* Where each field of a point is. *)
LEMMA FieldsStored ==
  ASSUME NEW p \in LidarPoint, NEW model
  PROVE  LET s == Stored(model, p) IN
         /\ s \in Seq(Int) /\ Len(s) = (IF model = "Xt32" THEN 24 ELSE 16)
         /\ Holds(s, 0, Put(p.x_mm, 4)) /\ Holds(s, 4, Put(p.y_mm, 4)) /\ Holds(s, 8, Put(p.z_mm, 4))
         /\ Holds(s, 12, <<p.reflectivity, p.tag>>)
         /\ model = "Xt32" =>
              /\ Holds(s, 14, Put(p.ring, 2)) /\ Holds(s, 16, Put(p.offset_ns, 4))
              /\ Holds(s, 20, <<p.return_id, p.confidence, 0, 0>>)
         /\ model # "Xt32" => Holds(s, 14, IF p.line_valid THEN <<p.line, 1>> ELSE <<0, 0>>)
<1> DEFINE x == Put(p.x_mm, 4)
           y == Put(p.y_mm, 4)
           z == Put(p.z_mm, 4)
           look == <<p.reflectivity, p.tag>>
           ring == Put(p.ring, 2)
           offset == Put(p.offset_ns, 4)
           end == <<p.return_id, p.confidence, 0, 0>>
           livox == IF p.line_valid THEN <<p.line, 1>> ELSE <<0, 0>>
<1>1. /\ p.x_mm \in Int /\ p.y_mm \in Int /\ p.z_mm \in Int /\ p.ring \in Int /\ p.offset_ns \in Int
      /\ p.reflectivity \in Int /\ p.tag \in Int /\ p.return_id \in Int /\ p.confidence \in Int
      /\ p.line \in Int
  BY Ranges DEF LidarPoint
<1>2. /\ look \in Seq(Int) /\ Len(look) = 2
      /\ end \in Seq(Int) /\ Len(end) = 4
      /\ livox \in Seq(Int) /\ Len(livox) = 2
  BY <1>1
<1>3. \A v \in Int : Put(v, 2) \in Seq(Int) /\ Len(Put(v, 2)) = 2 /\ Put(v, 4) \in Seq(Int) /\ Len(Put(v, 4)) = 4
  BY PutDigits, Zenon
<1>4. /\ x \in Seq(Int) /\ Len(x) = 4 /\ y \in Seq(Int) /\ Len(y) = 4 /\ z \in Seq(Int) /\ Len(z) = 4
      /\ ring \in Seq(Int) /\ Len(ring) = 2 /\ offset \in Seq(Int) /\ Len(offset) = 4
  BY <1>1, <1>3, Zenon
<1> HIDE DEF x, y, z, look, ring, offset, end, livox
<1> DEFINE xy  == x \o y
           xyz == xy \o z
           f   == xyz \o look
<1>5. xy \in Seq(Int) /\ Len(xy) = 8 /\ Holds(xy, 0, x) /\ Holds(xy, 4, y)
  <2>1. Len(xy) = Len(x) + Len(y)
    BY <1>4, JoinLength, Zenon
  <2>2. Len(xy) = 8
    BY <1>4, <2>1, SMT
  <2>3. QED
    BY <1>4, <2>2, JoinHolds, Zenon
<1> HIDE DEF xy
<1>6. xyz \in Seq(Int) /\ Len(xyz) = 12 /\ Holds(xyz, 0, x) /\ Holds(xyz, 4, y) /\ Holds(xyz, 8, z)
  <2>1. Len(xyz) = Len(xy) + Len(z)
    BY <1>4, <1>5, JoinLength, Zenon
  <2>2. Len(xyz) = 12
    BY <1>4, <1>5, <2>1, SMT
  <2>3. QED
    BY <1>4, <1>5, <2>2, JoinHolds, Zenon
<1> HIDE DEF xyz
<1>7. /\ f \in Seq(Int) /\ Len(f) = 14
      /\ Holds(f, 0, x) /\ Holds(f, 4, y) /\ Holds(f, 8, z) /\ Holds(f, 12, look)
  <2>1. Len(f) = Len(xyz) + Len(look)
    BY <1>2, <1>6, JoinLength, Zenon
  <2>2. Len(f) = 14
    BY <1>2, <1>6, <2>1, SMT
  <2>3. QED
    BY <1>2, <1>6, <2>2, JoinHolds, Zenon
<1> HIDE DEF f
<1>8. CASE model = "Xt32"
  <2> DEFINE fr == f \o ring
             fo == fr \o offset
             fe == fo \o end
  <2>1. Stored(model, p) = f \o ((ring \o offset) \o end)
    BY <1>8, Zenon DEF Stored, f, xyz, xy, x, y, z, look, ring, offset, end
  <2>2. Stored(model, p) = fe
    <3>1. f \in Seq(Int) /\ ring \in Seq(Int) /\ offset \in Seq(Int) /\ end \in Seq(Int)
      BY <1>2, <1>4, <1>7
    <3>2. f \o ((ring \o offset) \o end) = ((f \o ring) \o offset) \o end
      <4>1. Moved(f, ring, offset, end)
        BY <3>1, JoinsAssociative, Zenon
      <4>2. QED
        BY <4>1, Zenon DEF Moved
    <3>3. QED
      BY <2>1, <3>2, Zenon
  <2>3. /\ fr \in Seq(Int) /\ Len(fr) = 16
        /\ Holds(fr, 0, x) /\ Holds(fr, 4, y) /\ Holds(fr, 8, z) /\ Holds(fr, 12, look)
        /\ Holds(fr, 14, ring)
    <3>1. Len(fr) = Len(f) + Len(ring)
      BY <1>4, <1>7, JoinLength, Zenon
    <3>2. Len(fr) = 16
      BY <1>4, <1>7, <3>1, SMT
    <3>3. QED
      BY <1>4, <1>7, <3>2, JoinHolds, Zenon
  <2> HIDE DEF fr
  <2>4. /\ fo \in Seq(Int) /\ Len(fo) = 20
        /\ Holds(fo, 0, x) /\ Holds(fo, 4, y) /\ Holds(fo, 8, z) /\ Holds(fo, 12, look)
        /\ Holds(fo, 14, ring) /\ Holds(fo, 16, offset)
    <3>1. Len(fo) = Len(fr) + Len(offset)
      BY <1>4, <2>3, JoinLength, Zenon
    <3>2. Len(fo) = 20
      BY <1>4, <2>3, <3>1, SMT
    <3>3. QED
      BY <1>4, <2>3, <3>2, JoinHolds, Zenon
  <2> HIDE DEF fo
  <2>5. /\ fe \in Seq(Int) /\ Len(fe) = 24
        /\ Holds(fe, 0, x) /\ Holds(fe, 4, y) /\ Holds(fe, 8, z) /\ Holds(fe, 12, look)
        /\ Holds(fe, 14, ring) /\ Holds(fe, 16, offset) /\ Holds(fe, 20, end)
    <3>1. Len(fe) = Len(fo) + Len(end)
      BY <1>2, <2>4, JoinLength, Zenon
    <3>2. Len(fe) = 24
      BY <1>2, <2>4, <3>1, SMT
    <3>3. QED
      BY <1>2, <2>4, <3>2, JoinHolds, Zenon
  <2> HIDE DEF fe
  <2>6. QED
    BY <1>8, <2>2, <2>5, Zenon DEF x, y, z, look, ring, offset, end
<1>9. CASE model # "Xt32"
  <2> DEFINE fe == f \o livox
  <2>1. Stored(model, p) = fe
    BY <1>9, Zenon DEF Stored, f, xyz, xy, x, y, z, look, livox
  <2>2. /\ fe \in Seq(Int) /\ Len(fe) = 16
        /\ Holds(fe, 0, x) /\ Holds(fe, 4, y) /\ Holds(fe, 8, z) /\ Holds(fe, 12, look)
        /\ Holds(fe, 14, livox)
    <3>1. Len(fe) = Len(f) + Len(livox)
      BY <1>2, <1>7, JoinLength, Zenon
    <3>2. Len(fe) = 16
      BY <1>2, <1>7, <3>1, SMT
    <3>3. QED
      BY <1>2, <1>7, <3>2, JoinHolds, Zenon
  <2> HIDE DEF fe
  <2>3. QED
    BY <1>9, <2>1, <2>2, Zenon DEF x, y, z, look, livox
<1>10. QED
  BY <1>8, <1>9

(* What the writer refuses is not stored. *)
Storable(model, p) ==
  /\ model \in {"Mid360", "Mid360S", "Xt32"} /\ p \in LidarPoint
  /\ model # "Xt32" /\ p.line_valid => p.line < 4

LEMMA LastFour ==
  ASSUME NEW s \in Seq(Int), Len(s) = 24, NEW a, NEW b, Within(<<a, b, 0, 0>>, s, 20)
  PROVE  SubSeq(s, 21, 24) = <<a, b, 0, 0>>
<1>1. 1 \in 1 .. 4 /\ 2 \in 1 .. 4 /\ 3 \in 1 .. 4 /\ 4 \in 1 .. 4 /\ Len(<<a, b, 0, 0>>) = 4
  OBVIOUS
<1>2. s[20 + 1] = a /\ s[20 + 2] = b /\ s[20 + 3] = 0 /\ s[20 + 4] = 0
  BY <1>1 DEF Within
<1>3. s[21] = a /\ s[22] = b /\ s[23] = 0 /\ s[24] = 0
  BY <1>2
<1>4. SubSeq(s, 21, 24) = <<s[21], s[22], s[23], s[24]>>
  <2> DEFINE t == SubSeq(s, 21, 24)
  <2>1. t \in Seq(Int) /\ Len(t) = 4 /\ t[1] = s[21] /\ t[2] = s[22] /\ t[3] = s[23] /\ t[4] = s[24]
    <3>1. 21 \in Nat /\ 24 \in Nat /\ 0 < 21 /\ 21 <= 24 /\ 24 <= Len(s)
      OBVIOUS
    <3>2. /\ t \in Seq(Int) /\ Len(t) = 24 - 21 + 1
          /\ \A i \in 1 .. 24 - 21 + 1 : t[i] = s[21 + i - 1]
      BY <3>1, PartRead, ZenonT(60)
    <3>3. QED
      BY <3>2
  <2> HIDE DEF t
  <2>2. t = <<t[1], t[2], t[3], t[4]>>
    BY <2>1
  <2>3. QED
    BY <2>1, <2>2 DEF t
<1>5. QED
  BY <1>3, <1>4

LEMMA FirstTwo ==
  ASSUME NEW s, NEW at, NEW a, NEW b, Within(<<a, b>>, s, at)
  PROVE  s[at + 1] = a /\ s[at + 2] = b
<1>1. 1 \in 1 .. 2 /\ 2 \in 1 .. 2 /\ Len(<<a, b>>) = 2
  OBVIOUS
<1>2. QED
  BY <1>1 DEF Within

(* A stored point can be read back. *)
LEMMA PointRead ==
  ASSUME NEW model, NEW p, Storable(model, p)
  PROVE  Recovered(Stored(model, p), model, p)
<1> DEFINE s == Stored(model, p)
<1>1. /\ p \in LidarPoint /\ model \in {"Mid360", "Mid360S", "Xt32"}
      /\ p.x_mm \in Int32 /\ p.y_mm \in Int32 /\ p.z_mm \in Int32 /\ p.offset_ns \in Int32
      /\ p.ring \in UInt16 /\ p.line_valid \in BOOLEAN
  BY Zenon DEF Storable, LidarPoint
<1>2. /\ s \in Seq(Int) /\ Len(s) = (IF model = "Xt32" THEN 24 ELSE 16)
      /\ Holds(s, 0, Put(p.x_mm, 4)) /\ Holds(s, 4, Put(p.y_mm, 4)) /\ Holds(s, 8, Put(p.z_mm, 4))
      /\ Holds(s, 12, <<p.reflectivity, p.tag>>)
      /\ model = "Xt32" =>
           /\ Holds(s, 14, Put(p.ring, 2)) /\ Holds(s, 16, Put(p.offset_ns, 4))
           /\ Holds(s, 20, <<p.return_id, p.confidence, 0, 0>>)
      /\ model # "Xt32" => Holds(s, 14, IF p.line_valid THEN <<p.line, 1>> ELSE <<0, 0>>)
  BY <1>1, FieldsStored, Zenon
<1> SUFFICES Recovered(s, model, p)
  BY Zenon DEF s
<1> HIDE DEF s
<1>3. Len(s) = Stride(model)
  BY <1>1, <1>2 DEF Stride
<1>4. \A v \in Int32 : \A at : Holds(s, at, Put(v, 4)) => Signed32(s, at) = v
  <2> SUFFICES ASSUME NEW v \in Int32, NEW at, Holds(s, at, Put(v, 4)) PROVE Signed32(s, at) = v
    OBVIOUS
  <2>1. v \in Int
    BY Ranges
  <2>2. Len(Put(v, 4)) = 4
    BY <2>1, PutDigits, Zenon
  <2>3. s \in Seq(Int) /\ at \in Nat /\ at + 4 <= Len(s) /\ Within(Put(v, 4), s, at)
    BY <2>2, Zenon DEF Holds
  <2>4. QED
    BY <2>3, WordRecovered, Zenon
<1>5. Signed32(s, 0) = p.x_mm /\ Signed32(s, 4) = p.y_mm /\ Signed32(s, 8) = p.z_mm
  BY <1>1, <1>2, <1>4, Zenon
<1>6. s[13] = p.reflectivity /\ s[14] = p.tag
  <2>1. Within(<<p.reflectivity, p.tag>>, s, 12)
    BY <1>2, Zenon DEF Holds
  <2>2. 12 \in Nat /\ 13 = 12 + 1 /\ 14 = 12 + 2
    BY SMT
  <2>3. QED
    <3>1. s[12 + 1] = p.reflectivity /\ s[12 + 2] = p.tag
      BY <2>1, FirstTwo, Zenon
    <3>2. QED
      BY <2>2, <3>1
<1> DEFINE kept ==
      IF model = "Xt32"
      THEN /\ Unsigned16(s, 14) = p.ring /\ Signed32(s, 16) = p.offset_ns
           /\ SubSeq(s, 21, 24) = <<p.return_id, p.confidence, 0, 0>>
      ELSE /\ s[16] = 1 <=> p.line_valid
           /\ s[15] = (IF p.line_valid THEN p.line ELSE 0) /\ s[15] < 4
<1>7. ASSUME model = "Xt32" PROVE kept
  <2>1. Unsigned16(s, 14) = p.ring
    <3>1. Within(Put(p.ring, 2), s, 14) /\ 14 \in Nat
      BY <1>2, <1>7, Zenon DEF Holds
    <3>2. QED
      BY <1>1, <3>1, HalfWordRecovered, Zenon
  <2>2. Signed32(s, 16) = p.offset_ns
    BY <1>1, <1>2, <1>4, <1>7, Zenon
  <2>3. SubSeq(s, 21, 24) = <<p.return_id, p.confidence, 0, 0>>
    <3>1. Within(<<p.return_id, p.confidence, 0, 0>>, s, 20) /\ Len(s) = 24
      BY <1>2, <1>7, Zenon DEF Holds
    <3>2. QED
      BY <1>2, <3>1, LastFour, Zenon
  <2>4. QED
    BY <1>7, <2>1, <2>2, <2>3, Zenon
<1>8. ASSUME model # "Xt32" PROVE kept
  <2>1. Within(IF p.line_valid THEN <<p.line, 1>> ELSE <<0, 0>>, s, 14)
    BY <1>2, <1>8, Zenon DEF Holds
  <2>2. 14 \in Nat /\ 15 = 14 + 1 /\ 16 = 14 + 2
    BY SMT
  <2>3. CASE p.line_valid
    <3>1. s[15] = p.line /\ s[16] = 1
      <4>1. Within(<<p.line, 1>>, s, 14)
        BY <2>1, <2>3, Zenon
      <4>2. s[14 + 1] = p.line /\ s[14 + 2] = 1
        BY <4>1, FirstTwo, Zenon
      <4>3. QED
        BY <2>2, <4>2
    <3>2. p.line < 4
      BY <1>8, <2>3 DEF Storable
    <3>3. /\ s[16] = 1 <=> p.line_valid
          /\ s[15] = (IF p.line_valid THEN p.line ELSE 0) /\ s[15] < 4
      BY <2>3, <3>1, <3>2
    <3>4. QED
      BY <1>8, <3>3, Zenon
  <2>4. CASE ~p.line_valid
    <3>1. s[15] = 0 /\ s[16] = 0
      <4>1. Within(<<0, 0>>, s, 14)
        BY <2>1, <2>4, Zenon
      <4>2. s[14 + 1] = 0 /\ s[14 + 2] = 0
        BY <4>1, FirstTwo, Zenon
      <4>3. QED
        BY <2>2, <4>2
    <3>2. /\ s[16] = 1 <=> p.line_valid
          /\ s[15] = (IF p.line_valid THEN p.line ELSE 0) /\ s[15] < 4
      BY <2>4, <3>1, <1>1
    <3>3. QED
      BY <1>8, <3>2, Zenon
  <2>5. QED
    BY <2>3, <2>4
<1>9. kept
  BY <1>7, <1>8, Zenon
<1>10. /\ <<Signed32(s, 0), Signed32(s, 4), Signed32(s, 8)>> = <<p.x_mm, p.y_mm, p.z_mm>>
       /\ <<s[13], s[14]>> = <<p.reflectivity, p.tag>>
  BY <1>5, <1>6, Zenon
<1>11. QED
  BY <1>3, <1>9, <1>10, Zenon DEF Recovered

-----------------------------------------------------------------------------
(* Offsets *)

LEMMA Quotient ==
  ASSUME NEW a \in Nat, NEW d \in Nat, d > 0
  PROVE  a \div d \in Nat /\ d * (a \div d) <= a /\ a < d * (a \div d) + d
  OBVIOUS

LEMMA Times ==
  ASSUME NEW d \in Nat, d > 0, NEW a \in Int, NEW b \in Int, d * a < d * b + d
  PROVE  a <= b
  OBVIOUS

(* Offsets of n points, spread over t from the first to the last. *)
LEMMA Spread ==
  ASSUME NEW n \in Nat, n >= 2, NEW v \in Nat, NEW i \in Nat
  PROVE  LET d == n - 1
             t == v * TickNs
             x == SpreadOffset(i, n, v) IN
         /\ x \in Nat /\ d \in Nat /\ d > 0 /\ t \in Nat
         /\ d * x <= i * t + d \div 2
         /\ i * t + d \div 2 < d * x + d
         /\ d \div 2 \in Nat /\ d \div 2 < d
<1> DEFINE d == n - 1
           t == v * TickNs
           a == i * t + d \div 2
<1>1. d \in Nat /\ d > 0 /\ d \div 2 \in Nat /\ d \div 2 < d
  OBVIOUS
<1>2. t \in Nat /\ i * v * TickNs = i * t
  BY TimeAssumption
<1>3. a \in Nat /\ SpreadOffset(i, n, v) = a \div d
  <2>1. i * t \in Nat
    BY <1>2
  <2>2. ~(n < 2)
    OBVIOUS
  <2>3. a \in Nat
    BY <1>1, <2>1
  <2>4. QED
    BY <1>2, <2>2, <2>3, Zenon DEF SpreadOffset
<1> HIDE DEF d, t, a
<1>4. a \div d \in Nat /\ d * (a \div d) <= a /\ a < d * (a \div d) + d
  BY <1>1, <1>3, Quotient
<1>5. QED
  BY <1>1, <1>2, <1>3, <1>4 DEF d, t, a

(* The distance of two neighbours is the exact one up to less than one. *)
LEMMA Neighbours ==
  ASSUME NEW n \in Nat, n >= 2, NEW v \in Nat, NEW i \in Nat
  PROVE  LET d == n - 1
             t == v * TickNs
             s == SpreadOffset(i + 1, n, v) - SpreadOffset(i, n, v) IN
         s \in Int /\ d * s < t + d /\ t - d < d * s
<1> DEFINE d == n - 1
           t == v * TickNs
           x == SpreadOffset(i, n, v)
           y == SpreadOffset(i + 1, n, v)
           h == d \div 2
<1>1. /\ x \in Nat /\ d \in Nat /\ d > 0 /\ t \in Nat /\ h \in Nat
      /\ d * x <= i * t + h /\ i * t + h < d * x + d
  BY Spread
<1>2. i + 1 \in Nat
  OBVIOUS
<1>3. y \in Nat /\ d * y <= (i + 1) * t + h /\ (i + 1) * t + h < d * y + d
  BY <1>2, Spread
<1> HIDE DEF d, t, x, y, h
<1>4. (i + 1) * t = i * t + t
  BY <1>1
<1>5. d * (y - x) = d * y - d * x
  BY <1>1, <1>3
<1>6. y - x \in Int /\ d * (y - x) < t + d /\ t - d < d * (y - x)
  <2> DEFINE dx == d * x
             dy == d * y
             it == i * t
             nt == (i + 1) * t
  <2>1. dx \in Int /\ dy \in Int /\ it \in Int /\ nt \in Int
    BY <1>1, <1>3
  <2>2. /\ dx <= it + h /\ it + h < dx + d /\ dy <= nt + h /\ nt + h < dy + d /\ nt = it + t
    BY <1>1, <1>3, <1>4
  <2> HIDE DEF dx, dy, it, nt
  <2>3. dy - dx < t + d /\ t - d < dy - dx
    BY <1>1, <2>1, <2>2
  <2>4. d * (y - x) = dy - dx
    BY <1>5 DEF dx, dy
  <2>5. y - x \in Int
    BY <1>1, <1>3
  <2>6. QED
    BY <2>3, <2>4, <2>5
<1>7. QED
  BY <1>6 DEF d, t, x, y

(* Distances grow by at most one, and nothing lies before its predecessor. *)
LEMMA EvenlySpread ==
  ASSUME NEW n \in Nat, n >= 2, NEW v \in Nat, NEW i \in Nat, NEW j \in Nat
  PROVE  LET s(k) == SpreadOffset(k + 1, n, v) - SpreadOffset(k, n, v) IN
         s(i) - s(j) \in -1 .. 1 /\ s(i) >= 0
<1> DEFINE d == n - 1
           t == v * TickNs
           a == SpreadOffset(i + 1, n, v) - SpreadOffset(i, n, v)
           b == SpreadOffset(j + 1, n, v) - SpreadOffset(j, n, v)
<1>1. d \in Nat /\ d > 0 /\ t \in Nat
  BY TimeAssumption
<1>2. a \in Int /\ d * a < t + d /\ t - d < d * a
  BY Neighbours
<1>3. b \in Int /\ d * b < t + d /\ t - d < d * b
  BY Neighbours
<1> HIDE DEF d, t, a, b
<1>4. a <= b + 1
  <2>1. d * (b + 1) = d * b + d
    BY <1>1, <1>3
  <2>2. d * a \in Int /\ d * b \in Int
    BY <1>1, <1>2, <1>3
  <2>3. d * a < d * (b + 1) + d /\ b + 1 \in Int
    BY <1>1, <1>2, <1>3, <2>1, <2>2
  <2>4. QED
    BY <1>1, <1>2, <2>3, Times
<1>5. b <= a + 1
  <2>1. d * (a + 1) = d * a + d
    BY <1>1, <1>2
  <2>2. d * a \in Int /\ d * b \in Int
    BY <1>1, <1>2, <1>3
  <2>3. d * b < d * (a + 1) + d /\ a + 1 \in Int
    BY <1>1, <1>2, <1>3, <2>1, <2>2
  <2>4. QED
    BY <1>1, <1>3, <2>3, Times
<1>6. 0 <= a
  <2>1. d * 0 = 0 /\ 0 \in Int
    BY <1>1
  <2>2. d * a \in Int
    BY <1>1, <1>2
  <2>3. d * 0 < d * a + d
    BY <1>1, <1>2, <2>1, <2>2
  <2>4. QED
    BY <1>1, <1>2, <2>1, <2>3, Times
<1>7. a - b \in -1 .. 1 /\ a >= 0
  BY <1>2, <1>3, <1>4, <1>5, <1>6
<1>8. QED
  BY <1>7 DEF a, b

(* The first has no offset, the last that of the whole interval. *)
LEMMA SpreadEnds ==
  ASSUME NEW n \in Nat, n >= 2, NEW v \in Nat
  PROVE  SpreadOffset(0, n, v) = 0 /\ SpreadOffset(n - 1, n, v) = v * TickNs
<1> DEFINE d == n - 1
           t == v * TickNs
           x == SpreadOffset(0, n, v)
           y == SpreadOffset(n - 1, n, v)
           h == d \div 2
<1>1. /\ x \in Nat /\ d \in Nat /\ d > 0 /\ t \in Nat /\ h \in Nat /\ h < d
      /\ d * x <= 0 * t + h
  BY Spread
<1>2. y \in Nat /\ d * y <= d * t + h /\ d * t + h < d * y + d
  BY <1>1, Spread
<1> HIDE DEF d, t, x, y, h
<1>3. x = 0
  <2>1. d * x \in Int /\ d * 0 = 0 /\ 0 * t = 0
    BY <1>1
  <2>2. d * x < d * 0 + d /\ 0 \in Int
    BY <1>1, <2>1
  <2>3. x <= 0
    BY <1>1, <2>2, Times
  <2>4. QED
    BY <1>1, <2>3
<1>4. y = t
  <2>1. d * y \in Int /\ d * t \in Int
    BY <1>1, <1>2
  <2>2. d * y < d * t + d /\ d * t < d * y + d
    BY <1>1, <1>2, <2>1
  <2>3. y <= t /\ t <= y
    BY <1>1, <1>2, <2>2, Times
  <2>4. QED
    BY <1>1, <1>2, <2>3
<1>5. QED
  BY <1>3, <1>4 DEF x, y, t, d

-----------------------------------------------------------------------------
(* The loops of the writer and of a caller of lidarPointTimestampNs *)

BatchOK ==
  batch \in [model : LidarModels, version : Nat, interval : Nat, base : Nat, points : Seq(LidarPoint)]

(* What is written so far is stored from the first points of the batch. *)
WrittenOK ==
  /\ Len(written) \in Nat /\ Len(written) <= Count
  /\ written \in Seq(Seq(Int))
  /\ \A i \in 1 .. Len(written) :
       /\ Storable(batch.model, batch.points[i])
       /\ written[i] = Stored(batch.model, batch.points[i])

(* The times so far are those of the first points of the batch. *)
TimesOK ==
  /\ times \in Seq(Int) /\ Len(times) <= Count
  /\ \A i \in 1 .. Len(times) :
       times[i] = batch.base + PointOffset(i - 1) /\ times[i] \in 0 .. MaxTime

(* A loop that goes on has a point to take. *)
TaskOK ==
  /\ task = "none" => written = <<>> /\ times = <<>>
  /\ task = "store" /\ ended = "no" =>
       Len(written) < Count /\ batch.model \in {"Mid360", "Mid360S", "Xt32"} /\ times = <<>>
  /\ task = "time" /\ ended = "no" => Len(times) < Count /\ written = <<>>

PointsInv == BatchOK /\ WrittenOK /\ TimesOK /\ TaskOK

LEMMA PointsInitial == PointsInit => PointsInv
<1> SUFFICES ASSUME PointsInit PROVE PointsInv
  OBVIOUS
<1>1. BatchOK
  BY DEF PointsInit, BatchOK, NoBatch, LidarModels
<1>2. WrittenOK /\ TimesOK /\ TaskOK
  BY DEF PointsInit, WrittenOK, TimesOK, TaskOK, Count, NoBatch
<1>3. QED
  BY <1>1, <1>2 DEF PointsInv

LEMMA GiveBatchKeeps == PointsInv /\ GiveBatch => PointsInv'
<1> SUFFICES ASSUME PointsInv, GiveBatch PROVE PointsInv'
  OBVIOUS
<1>1. BatchOK'
  <2>1. PICK b \in Batches, t \in Bases : batch' = [b EXCEPT !.base = t]
    BY DEF GiveBatch
  <2>2. b \in [model : LidarModels, version : Nat, interval : Nat, base : Nat, points : Seq(LidarPoint)]
    BY BatchAssumption
  <2>3. t \in Nat
    BY TimeAssumption
  <2>4. QED
    BY <2>1, <2>2, <2>3 DEF BatchOK
<1>2. written = <<>> /\ times = <<>> /\ written' = <<>> /\ times' = <<>>
  BY DEF PointsInv, TaskOK, GiveBatch
<1>3. Count' \in Nat /\ (Count' # 0 <=> batch'.points # <<>>)
  BY <1>1 DEF BatchOK, Count
<1>4. WrittenOK' /\ TimesOK'
  BY <1>2, <1>3 DEF WrittenOK, TimesOK
<1>5. TaskOK'
  <2>1. /\ task' \in {"store", "time"}
        /\ ended' = (IF task' = "store" /\ Stride(batch'.model) = 0 THEN "model"
                     ELSE IF batch'.points = <<>> THEN "yes" ELSE "no")
    BY DEF GiveBatch
  <2>2. task' = "store" /\ ended' = "no" => batch'.model \in {"Mid360", "Mid360S", "Xt32"}
    <3>1. Stride(batch'.model) = 0 \/ batch'.model \in {"Mid360", "Mid360S", "Xt32"}
      BY <1>1 DEF BatchOK, LidarModels, Stride
    <3>2. QED
      BY <2>1, <3>1
  <2>3. ended' = "no" => Count' > 0
    BY <1>3, <2>1
  <2>4. QED
    BY <1>2, <2>1, <2>2, <2>3 DEF TaskOK
<1>6. QED
  BY <1>1, <1>4, <1>5 DEF PointsInv

LEMMA WritePointKeeps == PointsInv /\ WritePoint => PointsInv'
<1> SUFFICES ASSUME PointsInv, WritePoint PROVE PointsInv'
  OBVIOUS
<1>1. /\ task = "store" /\ ended = "no" /\ UNCHANGED <<batch, task, times>>
      /\ batch.model \in {"Mid360", "Mid360S", "Xt32"} /\ times = <<>>
      /\ Len(written) \in Nat /\ Count \in Nat /\ Len(written) < Count
  BY DEF PointsInv, TaskOK, WrittenOK, BatchOK, Count, WritePoint
<1>2. BatchOK' /\ TimesOK' /\ Count' = Count
  BY <1>1 DEF PointsInv, BatchOK, TimesOK, Count, PointOffset
<1> DEFINE n == Len(written)
           p == batch.points[n + 1]
<1>3. p \in LidarPoint
  BY <1>1 DEF PointsInv, BatchOK, Count
<1>4. CASE batch.model # "Xt32" /\ p.line_valid /\ p.line >= 4
  <2>1. ended' = "line" /\ UNCHANGED written
    BY <1>4 DEF WritePoint
  <2>2. WrittenOK' /\ TaskOK'
    BY <1>1, <1>2, <2>1 DEF PointsInv, WrittenOK, TaskOK
  <2>3. QED
    BY <1>2, <2>2 DEF PointsInv
<1>5. CASE ~(batch.model # "Xt32" /\ p.line_valid /\ p.line >= 4)
  <2>1. /\ written' = Append(written, Stored(batch.model, p))
        /\ ended' = (IF Len(written') = Count THEN "yes" ELSE "no")
    BY <1>5, Zenon DEF WritePoint
  <2>2. Storable(batch.model, p)
    <3>1. p.line \in Int
      BY <1>3, Ranges DEF LidarPoint
    <3>2. QED
      BY <1>1, <1>3, <1>5, <3>1 DEF Storable
  <2>3. Stored(batch.model, p) \in Seq(Int)
    BY <1>3, FieldsStored, Zenon
  <2>4. /\ written' \in Seq(Seq(Int)) /\ Len(written') = n + 1 /\ written'[n + 1] = Stored(batch.model, p)
        /\ \A i \in 1 .. n : written'[i] = written[i]
    <3> DEFINE new == Stored(batch.model, p)
    <3>1. new \in Seq(Int) /\ written' = Append(written, new) /\ written \in Seq(Seq(Int))
      BY <2>1, <2>3 DEF PointsInv, WrittenOK
    <3> HIDE DEF new, p
    <3>2. /\ written' \in Seq(Seq(Int)) /\ Len(written') = n + 1 /\ written'[n + 1] = new
          /\ \A i \in 1 .. n : written'[i] = written[i]
      BY <1>1, <3>1
    <3>3. QED
      BY <3>2 DEF new
  <2>5. ASSUME NEW i \in 1 .. Len(written')
        PROVE  /\ Storable(batch.model, batch.points[i])
               /\ written'[i] = Stored(batch.model, batch.points[i])
    <3>1. CASE i = n + 1
      BY <2>2, <2>4, <3>1, Zenon
    <3>2. CASE i # n + 1
      <4>1. i \in 1 .. n
        BY <1>1, <2>4, <3>2
      <4>2. QED
        BY <2>4, <4>1, Zenon DEF PointsInv, WrittenOK
    <3>3. QED
      BY <3>1, <3>2
  <2>6. Len(written') \in Nat /\ Len(written') <= Count'
    BY <1>1, <1>2, <2>4
  <2>7. WrittenOK'
    <3>1. batch' = batch
      BY <1>1
    <3>2. QED
      BY <2>4, <2>5, <2>6, <3>1, Zenon DEF WrittenOK
  <2>8. TaskOK'
    <3>1. ended' = "no" => Len(written') < Count'
      BY <1>1, <1>2, <2>1, <2>6
    <3>2. /\ task' = "store" /\ times' = <<>>
          /\ batch'.model \in {"Mid360", "Mid360S", "Xt32"}
      BY <1>1
    <3>3. QED
      BY <3>1, <3>2 DEF TaskOK
  <2>9. QED
    BY <1>2, <2>7, <2>8 DEF PointsInv
<1>6. QED
  BY <1>4, <1>5

LEMMA TimePointKeeps == PointsInv /\ TimePoint => PointsInv'
<1> SUFFICES ASSUME PointsInv, TimePoint PROVE PointsInv'
  OBVIOUS
<1> DEFINE n == Len(times)
<1>1. /\ task = "time" /\ ended = "no" /\ UNCHANGED <<batch, task, written>> /\ written = <<>>
      /\ n \in Nat /\ Count \in Nat /\ n < Count
  BY DEF PointsInv, TaskOK, TimesOK, BatchOK, Count, TimePoint
<1>2. BatchOK' /\ WrittenOK' /\ Count' = Count
  BY <1>1 DEF PointsInv, BatchOK, WrittenOK, Count
<1>3. \A i : PointOffset(i)' = PointOffset(i)
  BY <1>1 DEF PointOffset, Count
<1>4. CASE TimeError(n) # "no"
  <2>1. ended' = TimeError(n) /\ UNCHANGED times
    BY <1>4 DEF TimePoint
  <2>2. TimesOK' /\ TaskOK'
    BY <1>1, <1>2, <1>3, <1>4, <2>1 DEF PointsInv, TimesOK, TaskOK
  <2>3. QED
    BY <1>2, <2>2 DEF PointsInv
<1>5. CASE TimeError(n) = "no"
  <2>1. /\ times' = Append(times, batch.base + PointOffset(n))
        /\ ended' = (IF n + 1 = Count THEN "yes" ELSE "no")
    BY <1>5 DEF TimePoint
  <2>2. batch.base + PointOffset(n) \in 0 .. MaxTime
    BY <1>5 DEF TimeError
  <2> DEFINE new == batch.base + PointOffset(n)
  <2>3. new \in Int /\ times \in Seq(Int) /\ times' = Append(times, new)
    BY <2>1, <2>2, TimeAssumption DEF PointsInv, TimesOK
  <2> HIDE DEF new
  <2>4. /\ times' \in Seq(Int) /\ Len(times') = n + 1 /\ times'[n + 1] = new
        /\ \A i \in 1 .. n : times'[i] = times[i]
    BY <1>1, <2>3
  <2>5. ASSUME NEW i \in 1 .. Len(times')
        PROVE  times'[i] = batch.base + PointOffset(i - 1) /\ times'[i] \in 0 .. MaxTime
    <3>1. CASE i = n + 1
      <4>1. i - 1 = n
        BY <1>1, <3>1
      <4>2. QED
        BY <2>2, <2>4, <3>1, <4>1, Zenon DEF new
    <3>2. CASE i # n + 1
      <4>1. i \in 1 .. n
        BY <1>1, <2>4, <3>2
      <4>2. QED
        BY <2>4, <4>1, Zenon DEF PointsInv, TimesOK
    <3>3. QED
      BY <3>1, <3>2
  <2>6. Len(times') <= Count'
    BY <1>1, <1>2, <2>4
  <2>7. TimesOK'
    <3>1. batch' = batch
      BY <1>1
    <3>2. QED
      BY <1>3, <2>4, <2>5, <2>6, <3>1, Zenon DEF TimesOK
  <2>8. TaskOK'
    <3>1. ended' = "no" => Len(times') < Count'
      BY <1>1, <1>2, <2>1, <2>4
    <3>2. QED
      BY <1>1, <3>1 DEF TaskOK
  <2>9. QED
    BY <1>2, <2>7, <2>8 DEF PointsInv
<1>6. QED
  BY <1>4, <1>5

LEMMA PointsStep == PointsInv /\ [PointsNext]_pointVars => PointsInv'
<1> SUFFICES ASSUME PointsInv, [PointsNext]_pointVars PROVE PointsInv'
  OBVIOUS
<1>1. CASE UNCHANGED pointVars
  BY <1>1 DEF pointVars, PointsInv, BatchOK, WrittenOK, TimesOK, TaskOK, Count, PointOffset
<1>2. QED
  BY <1>1, GiveBatchKeeps, WritePointKeeps, TimePointKeeps DEF PointsNext

LEMMA TimesAreSpread == PointsInv => TimesSpread
<1> SUFFICES ASSUME PointsInv PROVE TimesSpread
  OBVIOUS
<1>1. /\ times \in Seq(Int) /\ Len(times) \in Nat /\ Len(times) <= Count /\ Count \in Nat
      /\ batch.interval \in Nat /\ batch.base \in Nat
      /\ \A i \in 1 .. Len(times) :
           times[i] = batch.base + PointOffset(i - 1) /\ times[i] \in 0 .. MaxTime
  BY DEF PointsInv, BatchOK, TimesOK, Count
<1>2. \A i \in DOMAIN times : times[i] \in 0 .. MaxTime
  BY <1>1
<1>3. ASSUME batch.model # "Xt32", Len(times) > 1
      PROVE  LET step(i) == times[i + 1] - times[i] IN
             /\ times[1] = batch.base /\ step(1) >= 0
             /\ \A i, j \in 1 .. Len(times) - 1 : step(i) - step(j) \in -1 .. 1
             /\ Len(times) = Count => times[Count] = batch.base + batch.interval * TickNs
  <2> DEFINE n == Count
             v == batch.interval
             x(i) == SpreadOffset(i, n, v)
             b == batch.base
  <2>1. n \in Nat /\ n >= 2 /\ v \in Nat /\ b \in Nat
    BY <1>1, <1>3
  <2>2. \A i \in 1 .. Len(times) : times[i] = b + x(i - 1)
    BY <1>1, <1>3, Zenon DEF PointOffset
  <2>3. \A i \in Nat : x(i) \in Nat
    BY <2>1, Spread
  <2>4. ASSUME NEW i \in 1 .. Len(times) - 1
        PROVE  times[i + 1] - times[i] = x((i - 1) + 1) - x(i - 1) /\ i - 1 \in Nat
    <3>1. /\ i \in 1 .. Len(times) /\ i + 1 \in 1 .. Len(times) /\ (i + 1) - 1 = (i - 1) + 1
          /\ i - 1 \in Nat /\ (i - 1) + 1 \in Nat
      BY <1>1
    <3>2. times[i] = b + x(i - 1) /\ times[i + 1] = b + x((i - 1) + 1)
      BY <2>2, <3>1, Zenon
    <3>3. x(i - 1) \in Nat /\ x((i - 1) + 1) \in Nat
      BY <2>3, <3>1, Zenon
    <3> HIDE DEF x
    <3>4. QED
      BY <2>1, <3>1, <3>2, <3>3
  <2>5. ASSUME NEW i \in 1 .. Len(times) - 1, NEW j \in 1 .. Len(times) - 1
        PROVE  /\ (times[i + 1] - times[i]) - (times[j + 1] - times[j]) \in -1 .. 1
               /\ times[i + 1] - times[i] >= 0
    <3>1. /\ (x((i - 1) + 1) - x(i - 1)) - (x((j - 1) + 1) - x(j - 1)) \in -1 .. 1
          /\ x((i - 1) + 1) - x(i - 1) >= 0
      <4>1. i - 1 \in Nat /\ j - 1 \in Nat
        BY <2>4
      <4>2. QED
        BY <2>1, <4>1, EvenlySpread, Zenon
    <3> HIDE DEF x
    <3>2. QED
      BY <2>4, <3>1, Zenon
  <2>6. x(0) = 0 /\ x(n - 1) = v * TickNs
    BY <2>1, SpreadEnds, Zenon
  <2> HIDE DEF x
  <2>7. times[1] = b
    <3>1. 1 \in 1 .. Len(times) /\ 1 - 1 = 0
      BY <1>1, <1>3
    <3>2. times[1] = b + 0
      BY <2>2, <2>6, <3>1, Zenon
    <3>3. QED
      BY <2>1, <3>2
  <2>8. times[1 + 1] - times[1] >= 0
    <3>1. 1 \in 1 .. Len(times) - 1
      BY <1>1, <1>3
    <3>2. QED
      BY <2>5, <3>1, Zenon
  <2>9. Len(times) = Count => times[Count] = b + v * TickNs
    <3>1. Len(times) = Count => Count \in 1 .. Len(times)
      BY <1>1, <2>1
    <3>2. QED
      BY <2>2, <2>6, <3>1, Zenon
  <2>10. QED
    BY <2>5, <2>7, <2>8, <2>9, Zenon
<1>4. QED
  BY <1>2, <1>3, Zenon DEF TimesSpread

LEMMA PointsAreKept == PointsInv => PointsKept
<1> SUFFICES ASSUME PointsInv PROVE PointsKept
  OBVIOUS
<1>1. ASSUME NEW i \in DOMAIN written
      PROVE  Recovered(written[i], batch.model, batch.points[i])
  <2>1. i \in 1 .. Len(written)
    BY DEF PointsInv, WrittenOK
  <2>2. /\ Storable(batch.model, batch.points[i])
        /\ written[i] = Stored(batch.model, batch.points[i])
    BY <2>1, Zenon DEF PointsInv, WrittenOK
  <2>3. QED
    BY <2>2, PointRead, Zenon
<1>2. QED
  BY <1>1, TimesAreSpread, Zenon DEF PointsKept, BytesRecovered

(* Every stored point can be read back, and the times of a Livox batch are     *)
(* spread over its whole interval without a wrap (serializeLidarPoints and       *)
(* lidarPointTimestampNs).                                                         *)
THEOREM BatchKept == PointsSpec => []PointsKept
<1>1. PointsInit => PointsInv
  BY PointsInitial
<1>2. PointsInv /\ [PointsNext]_pointVars => PointsInv'
  BY PointsStep
<1>3. PointsInv => PointsKept
  BY PointsAreKept
<1>4. QED
  BY <1>1, <1>2, <1>3, PTL DEF PointsSpec
=============================================================================
