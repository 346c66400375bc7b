--------------------------- MODULE ProfileImages ---------------------------
(***************************************************************************)
(* ProfileImageAssembler of include/prism/usb/profile_video.hpp: one slot  *)
(* per camera, in which the chunks of independent images (no frame set, no *)
(* barrier between cameras) are joined.  A chunk that does not fit throws  *)
(* and empties its camera's slot.                                          *)
(*                                                                         *)
(* An image value stands for everything every one of its chunks repeats:   *)
(* frame id, format, geometry, timestamp and encoded size.  Bytes are      *)
(* counted in units, and a unit remembers the image it was sent for.       *)
(***************************************************************************)
EXTENDS Integers, Sequences

CONSTANTS
  Cameras,  \* the slots (four in the code)
  Images,   \* what tells two images of a camera apart
  Size,     \* encoded size of each image, in units
  None      \* no image; a camera_id outside the slots

ASSUME SizeAssumption == Size \in [Images -> Nat \ {0}]
ASSUME NoneAssumption == None \notin Cameras \cup Images

Flags == [first : BOOLEAN, last : BOOLEAN]

(* `data' is the number of units the chunk carries; a chunk without an image *)
(* has a malformed envelope (flags, format, geometry, sizes or no data).      *)
Units(i)     == 0 .. (Size[i] - 1)
ChunksOf(i)  == {c \in [camera : Cameras, image : {i}, offset : Units(i), data : 1 .. Size[i],
                        flags : Flags] : c.offset + c.data <= Size[i]}
BadChunks    == [camera : Cameras \cup {None}, image : {None}, offset : {0}, data : {1},
                 flags : Flags]
Chunk        == BadChunks \cup UNION {ChunksOf(i) : i \in Images}

Unit         == [image : Images, at : Nat]
Data(c)      == [n \in 1 .. c.data |-> [image |-> c.image, at |-> c.offset + n - 1]]
WholeImage(i) == [n \in 1 .. Size[i] |-> [image |-> i, at |-> n - 1]]

EmptySlot    == [image |-> None, encoded |-> <<>>]

VARIABLES
  slots,   \* slots_: the image a camera's slot is filled with, and what it has of it
  result,  \* the camera of the last call, whether it threw, and the image it returned
  sent     \* history: each camera's chunks since the last one flagged first

vars == <<slots, result, sent>>

TypeOK ==
  /\ slots \in [Cameras -> [image : Images \cup {None}, encoded : Seq(Unit)]]
  /\ \A c \in Cameras :
       IF slots[c].image = None THEN slots[c].encoded = <<>>
                                ELSE Len(slots[c].encoded) \in Units(slots[c].image) \ {0}
  /\ result.threw \in BOOLEAN /\ result.camera \in Cameras \cup {None}
  /\ result.image \in Seq(Unit)

Returned(c, image) == [threw |-> FALSE, camera |-> c.camera, image |-> image]
Threw(c)           == [threw |-> TRUE, camera |-> c.camera, image |-> <<>>]

Init ==
  /\ slots = [c \in Cameras |-> EmptySlot]
  /\ result = [threw |-> FALSE, camera |-> None, image |-> <<>>]
  /\ sent = [c \in Cameras |-> <<>>]

-----------------------------------------------------------------------------
(* ingest(c) *)

BadEnvelope(c) == c.image = None

(* The slot once the first flag has been obeyed. *)
Opened(c) == IF c.flags.first THEN [image |-> c.image, encoded |-> <<>>]
             ELSE slots[c.camera]

(* Mutant: only the offset is compared. *)
FitsByOffset(c) == Opened(c).image # None /\ Len(Opened(c).encoded) = c.offset

Fits(c) == Opened(c).image = c.image /\ Len(Opened(c).encoded) = c.offset

EndsImage(c) == c.offset + c.data = Size[c.image]

Reject(c) == result' = Threw(c) /\ slots' = [slots EXCEPT ![c.camera] = EmptySlot]

UnknownCamera(c) == c.camera = None /\ result' = Threw(c) /\ UNCHANGED slots

Malformed(c) == c.camera # None /\ BadEnvelope(c) /\ Reject(c)

Discontinuous(c) == c.camera # None /\ ~BadEnvelope(c) /\ ~Fits(c) /\ Reject(c)

Misflagged(c) ==
  /\ c.camera # None /\ ~BadEnvelope(c) /\ Fits(c)
  /\ c.flags.last # EndsImage(c)
  /\ Reject(c)

Partial(c) ==
  /\ c.camera # None /\ ~BadEnvelope(c) /\ Fits(c)
  /\ ~c.flags.last /\ ~EndsImage(c)
  /\ slots' = [slots EXCEPT ![c.camera] =
                 [Opened(c) EXCEPT !.encoded = @ \o Data(c)]]
  /\ result' = Returned(c, <<>>)

Complete(c) ==
  /\ c.camera # None /\ ~BadEnvelope(c) /\ Fits(c)
  /\ c.flags.last /\ EndsImage(c)
  /\ slots' = [slots EXCEPT ![c.camera] = EmptySlot]
  /\ result' = Returned(c, Opened(c).encoded \o Data(c))

(* The chunks of a camera, beginning with one flagged first, are the beginning *)
(* of image i, or all of it: in order, none lost, repeated or foreign.          *)
Begins(run, i) ==
  /\ run # <<>> /\ run[1].flags.first /\ run[1].offset = 0
  /\ \A n \in 1 .. Len(run) :
       LET end == run[n].offset + run[n].data
       IN  /\ run[n].image = i
           /\ run[n].flags.last <=> end = Size[i]
           /\ n < Len(run) => end = run[n + 1].offset /\ end < Size[i]

(* The history forgets a run that is no image's. *)
Noted(run, c) ==
  LET longer == IF c.flags.first THEN <<c>> ELSE IF run = <<>> THEN run ELSE Append(run, c)
  IN  IF \E i \in Images : Begins(longer, i) THEN longer ELSE <<>>

Ingest(c) ==
  /\ \/ UnknownCamera(c) \/ Malformed(c) \/ Discontinuous(c)
     \/ Misflagged(c) \/ Partial(c) \/ Complete(c)
  /\ sent' = [k \in Cameras |-> IF k = c.camera THEN Noted(sent[k], c) ELSE sent[k]]

Next == \E c \in Chunk : Ingest(c)

Spec == Init /\ [][Next]_vars

-----------------------------------------------------------------------------
(* Properties *)

(* All of image i. *)
IsRunOf(run, i) == Begins(run, i) /\ run[Len(run)].flags.last

(* A camera's call returns an image exactly when the camera's chunks since the *)
(* last one flagged first are one whole image, and returns that image: nothing *)
(* is joined across a lost, repeated, damaged or foreign chunk, and no healthy *)
(* run is refused, whatever came before it or comes for other cameras.         *)
DeliversExactlyWholeRuns ==
  result.camera # None =>
    LET run == sent[result.camera]
    IN  /\ \A i \in Images : result.image = WholeImage(i) <=> IsRunOf(run, i)
        /\ result.image # <<>> => ~result.threw /\ \E i \in Images : IsRunOf(run, i)
=============================================================================
