---------------------------- MODULE MCDeviceData ----------------------------
(* Small instances of what is read from a device: ProfileImages (two slots,   *)
(* two images of three units), Raw12 (pixels of three bits, four in a block,    *)
(* bytes of two bits), LidarPoints, GnssRawLog and GnssSatellites, checked side *)
(* by side.  In a behaviour one of them runs; the others stay in one initial     *)
(* state.                                                                         *)
EXTENDS ProfileImages, Raw12, LidarPoints, GnssRawLog, GnssSatellites, TLC

CONSTANTS c1, c2, i1, i2

TwoCameras == {c1, c2}
TwoImages  == {i1, i2}
Sizes      == [i \in Images |-> 3]
Symmetry   == Permutations(Cameras) \cup Permutations(Images)

BitStrings(N) == UNION {[1 .. n -> {0, 1}] : n \in N}
FewBlocks ==
  [mode : {"fixed"}, k : 0 .. 4, length : {0}, seeds : {<<1, 6>>, <<8, 0>>, <<0, 8>>},
   data : BitStrings({0, 2, 4, 8})]
  \cup [mode : {"rice"}, k : 0 .. 3, length : 2 .. 5, seeds : {<<0, 7>>, <<5, 2>>},
        data : BitStrings({0, 2, 4, 8})]
  \cup [mode : {"fixed"}, k : {3}, length : {0}, seeds : {<<0, 0>>}, data : BitStrings({11, 12})]

FewMessages ==
  {[i \in 1 .. n |-> IF i = j THEN x ELSE y] :
     n \in 0 .. 17, j \in 1 .. 17, x \in {{0}, {3, 7}}, y \in {{}, {5}, 0 .. 7}}

Base ==
  [magic |-> "PRG1", format |-> 4, version |-> 2, bytes |-> 80, total |-> 90, depth |-> 12, bayer |-> 3,
   kind |-> 2, camera |-> 3, geometry |-> "5120x3072", timing |-> 4, stamp |-> 7, block |-> 256,
   payload |-> 10, group_crc |-> "good", trigger |-> 9]
Bases12 == {Base, [Base EXCEPT !.magic = "PRZ1", !.format = 3, !.bytes = 64]}
FewHeaders ==
  {[h EXCEPT !.version = v, !.bytes = b, !.timing = t, !.stamp = s, !.trigger = g, !.total = n, !.payload = n - b] :
     h \in Bases12, v \in 1 .. 3, b \in {48, 64, 80}, t \in 0 .. 5, s \in {0, 7}, g \in {0, 9},
     n \in {64, 65, 90, 26214400, 26214401, 33554433}}
  \cup UNION {{[h EXCEPT !.format = 0], [h EXCEPT !.camera = 4], [h EXCEPT !.bayer = 4],
               [h EXCEPT !.group_crc = "bad"], [h EXCEPT !.payload = 11]} : h \in Bases12}

Point(x, k, l, v) ==
  [x_mm |-> x, y_mm |-> -1, z_mm |-> 70000, reflectivity |-> 9, tag |-> 255, ring |-> 300 * k,
   offset_ns |-> k * (-70001), return_id |-> k, confidence |-> 200, line |-> l, line_valid |-> v]
FewPoints  == {Point(-300, 0, 3, TRUE), Point(2147483647, 1, 2, FALSE),
               Point(-2147483647 - 1, 1, 4, TRUE), Point(256, 2, 4, FALSE)}
FewBatches ==
  [model : LidarModels, version : {1, 3}, interval : {0, 3, 500}, base : {0},
   points : UNION {[1 .. n -> FewPoints] : n \in 0 .. 2}]
  \cup [model : {"Mid360"}, version : {2}, interval : {1, 7, 50, 65535}, base : {0},
        points : {[i \in 1 .. n |-> Point(i, 0, i % 4, TRUE)] : n \in 4 .. 9}]

BothLogs == {"raw", "text"}

Talker(key) == CASE key = "GL/" -> "GL" [] key = "XX/" -> "XX" [] OTHER -> "GN"
Part(key, total, part, count, groups, prns) ==
  [key |-> key, total |-> total, part |-> part, count |-> count, groups |-> groups,
   sats |-> [i \in DOMAIN prns |-> Satellite(Talker(key), prns[i])]]

(* Two cycles of two parts, one with a blank number, a damaged part, a second key, *)
(* and cycles, one of them empty, of a talker whose system is unknown.                *)
Parts ==
  {Part("GN/1", 2, 1, n, 4, <<1, 2, 65, 201>>) : n \in {5, 6}}
  \cup {Part("GN/1", 2, 2, 5, 1, <<>>), Part("GN/1", 2, 2, 6, 2, <<3, 4>>), Part("GN/1", 2, 2, 5, 0, <<>>),
        Part("GL/", 2, 1, 8, 4, <<1, 2, 65, 201>>),
        Part("XX/", 1, 1, 1, 1, <<1>>), Part("XX/", 1, 1, 0, 0, <<>>)}
Fixes ==
  {[system |-> System("GN", 1, 2), sats |-> {Canonical("GLONASS", 65)}],
   [system |-> System("GP", 1, 0), sats |-> {1}], [system |-> System("GP", 1, 0), sats |-> {}],
   [system |-> System("XX", 1, 0), sats |-> {1}]}

NoImages     == Init /\ UNCHANGED vars
NoRaw12      == RawImageInit /\ UNCHANGED rawImageVars
NoPoints     == PointsInit /\ UNCHANGED pointVars
NoLog        == RawInit /\ log = "raw" /\ UNCHANGED rawVars
NoSatellites == SatInit /\ UNCHANGED satVars

MCInit == Init /\ RawImageInit /\ PointsInit /\ RawInit /\ SatInit
MCNext ==
  \/ NoRaw12  /\ NoPoints /\ NoLog    /\ NoSatellites /\ Next
  \/ NoImages /\ NoPoints /\ NoLog    /\ NoSatellites /\ RawImageNext
  \/ NoImages /\ NoRaw12  /\ NoLog    /\ NoSatellites /\ PointsNext
  \/ NoImages /\ NoRaw12  /\ NoPoints /\ NoSatellites /\ RawNext
  \/ NoImages /\ NoRaw12  /\ NoPoints /\ NoLog /\ SatNext
MCSpec == MCInit /\ [][MCNext]_<<vars, rawImageVars, pointVars, rawVars, satVars>>

(* The type invariants of the stateful ones. *)
DataTypesOK == TypeOK /\ SatTypeOK
=============================================================================
