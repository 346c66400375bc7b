---------------------------- MODULE LidarPoints ----------------------------
(***************************************************************************)
(* LiDAR points (include/prism/usb/lidar_points.hpp): a batch is written   *)
(* point by point as little-endian bytes (serializeLidarPoints), and the   *)
(* time of each point is its batch's plus an offset (lidarPointTimestampNs)*)
(* which an XT32 states and a Livox sensor spreads over the batch.         *)
(***************************************************************************)
EXTENDS Integers, Sequences

CONSTANTS
  Batches,   \* the batches under check: [model, version, interval, points, base]
  Bases,     \* base times under check
  MaxTime,   \* 2^64 - 1
  TickNs     \* nanoseconds of a unit of the interval: 100

ASSUME TimeAssumption == MaxTime \in Nat /\ Bases \subseteq 0 .. MaxTime /\ TickNs \in Nat

LidarModels == {"None", "Mid360", "Mid360S", "Xt32"}

(* A point with the widths of its fields. *)
Byte       == 0 .. 255
UInt16     == {n \in Nat : n < 256 ^ 2}
Int32      == (-128) * 256 ^ 3 .. 127 * 256 ^ 3 + (256 ^ 3 - 1)
LidarPoint ==
  [x_mm : Int32, y_mm : Int32, z_mm : Int32, reflectivity : Byte, tag : Byte, ring : UInt16,
   offset_ns : Int32, return_id : Byte, confidence : Byte, line : Byte, line_valid : BOOLEAN]

ASSUME BatchAssumption ==
  Batches \subseteq
    [model : LidarModels, version : Nat, interval : Nat, base : Nat, points : Seq(LidarPoint)]

VARIABLES
  batch,     \* the batch and its base time
  task,      \* "none", "store" or "time"
  written,   \* bytes of the points written, a sequence per point
  times,     \* their times
  ended      \* "no", "yes", or the exception: "model", "line", "explicit", "range"

pointVars == <<batch, task, written, times, ended>>

NoBatch     == [model |-> "None", version |-> 0, interval |-> 0, points |-> <<>>, base |-> 0]
Count       == Len(batch.points)

(* lidarStoredPointStride, 0 for its exception. *)
Stride(model) == CASE model = "Xt32" -> 24 [] model \in {"Mid360", "Mid360S"} -> 16 [] OTHER -> 0

(* The n lowest bytes of a number, two's complement. *)
Put(value, n) == [b \in 1 .. n |-> (value \div 256 ^ (b - 1)) % 256]

(* The bytes of a point: an XT32 has a ring and a return, a Livox sensor a line. *)
Stored(model, p) ==
  Put(p.x_mm, 4) \o Put(p.y_mm, 4) \o Put(p.z_mm, 4) \o <<p.reflectivity, p.tag>> \o
  (IF model = "Xt32" THEN Put(p.ring, 2) \o Put(p.offset_ns, 4) \o <<p.return_id, p.confidence, 0, 0>>
   ELSE IF p.line_valid THEN <<p.line, 1>> ELSE <<0, 0>>)

(* Mutant: the offset is rounded down before it is multiplied. *)
StepwiseOffset(index, n, interval) ==
  IF n < 2 THEN 0 ELSE index * ((interval * TickNs + (n - 1) \div 2) \div (n - 1))

(* Offset of the index-th of n Livox points, from 0, rounded to the nearest. *)
SpreadOffset(index, n, interval) ==
  IF n < 2 THEN 0 ELSE (index * interval * TickNs + (n - 1) \div 2) \div (n - 1)

PointOffset(index) ==
  IF batch.model = "Xt32" THEN batch.points[index + 1].offset_ns
  ELSE SpreadOffset(index, Count, batch.interval)

(* What lidarPointTimestampNs throws. *)
TimeError(index) ==
  IF batch.model = "Xt32" /\ (batch.version # 3 \/ batch.interval # 0) THEN "explicit"
  ELSE IF batch.base + PointOffset(index) \notin 0 .. MaxTime THEN "range" ELSE "no"

PointsInit == batch = NoBatch /\ task = "none" /\ written = <<>> /\ times = <<>> /\ ended = "no"

GiveBatch ==
  /\ task = "none"
  /\ \E b \in Batches, t \in Bases : batch' = [b EXCEPT !.base = t]
  /\ task' \in {"store", "time"}
  /\ ended' = (IF task' = "store" /\ Stride(batch'.model) = 0 THEN "model"
               ELSE IF batch'.points = <<>> THEN "yes" ELSE "no")
  /\ UNCHANGED <<written, times>>

(* The loop of serializeLidarPoints. *)
WritePoint ==
  /\ task = "store" /\ ended = "no"
  /\ LET p == batch.points[Len(written) + 1]
     IN  IF batch.model # "Xt32" /\ p.line_valid /\ p.line >= 4
         THEN ended' = "line" /\ UNCHANGED written
         ELSE /\ written' = Append(written, Stored(batch.model, p))
              /\ ended' = (IF Len(written') = Count THEN "yes" ELSE "no")
  /\ UNCHANGED <<batch, task, times>>

(* A caller's loop over lidarPointTimestampNs. *)
TimePoint ==
  /\ task = "time" /\ ended = "no"
  /\ LET at == Len(times)
     IN  IF TimeError(at) # "no" THEN ended' = TimeError(at) /\ UNCHANGED times
         ELSE /\ times' = Append(times, batch.base + PointOffset(at))
              /\ ended' = (IF at + 1 = Count THEN "yes" ELSE "no")
  /\ UNCHANGED <<batch, task, written>>

PointsNext == GiveBatch \/ WritePoint \/ TimePoint

PointsSpec == PointsInit /\ [][PointsNext]_pointVars

-----------------------------------------------------------------------------
(* Properties *)

(* A reader of the dataset: unsigned and signed little-endian numbers. *)
Unsigned16(s, at) == s[at + 1] + 256 * s[at + 2]
Unsigned32(s, at) == Unsigned16(s, at) + 256 ^ 2 * Unsigned16(s, at + 2)
Signed32(s, at)   ==
  IF s[at + 4] >= 128 THEN -1 - Unsigned32([b \in DOMAIN s |-> 255 - s[b]], at) ELSE Unsigned32(s, at)

(* Every stored point can be read back at its stride: its coordinates, and     *)
(* either a ring, a signed offset and a return, or a line that says whether it  *)
(* is valid; what a sensor does not supply is stored as zero.                    *)
Recovered(s, model, p) ==
  /\ Len(s) = Stride(model)
  /\ <<Signed32(s, 0), Signed32(s, 4), Signed32(s, 8)>> = <<p.x_mm, p.y_mm, p.z_mm>>
  /\ <<s[13], s[14]>> = <<p.reflectivity, p.tag>>
  /\ IF model = "Xt32"
     THEN /\ Unsigned16(s, 14) = p.ring /\ Signed32(s, 16) = p.offset_ns
          /\ SubSeq(s, 21, 24) = <<p.return_id, p.confidence, 0, 0>>
     ELSE /\ s[16] = 1 <=> p.line_valid
          /\ s[15] = (IF p.line_valid THEN p.line ELSE 0) /\ s[15] < 4

BytesRecovered ==
  \A i \in DOMAIN written : Recovered(written[i], batch.model, batch.points[i])

(* The points of a Livox batch are spread over its whole interval: the first   *)
(* has the batch's time, the last is the interval later, none is before its      *)
(* predecessor, and the distances differ by at most one; no time has wrapped.     *)
TimesSpread ==
  /\ \A i \in DOMAIN times : times[i] \in 0 .. MaxTime
  /\ batch.model # "Xt32" /\ Len(times) > 1 =>
       LET step(i) == times[i + 1] - times[i] IN
       /\ times[1] = batch.base /\ step(1) >= 0
       /\ \A i, j \in 1 .. Len(times) - 1 : step(i) - step(j) \in -1 .. 1
       /\ Len(times) = Count => times[Count] = batch.base + batch.interval * TickNs

(* A batch survives being stored and timed: both of the above. *)
PointsKept == BytesRecovered /\ TimesSpread
=============================================================================
