# Prism SDK: verification project

TLA+ models of the receiver-side logic of the Prism SDK, TLC runs that check them on
small instances, and TLAPS proofs of their main properties for every value of the
constants. Paths are relative to the repository; `camera_assembler.hpp:353` is line 353
of `include/prism/usb/camera_assembler.hpp`.

The SDK is a header-only C++ layer (`include/prism`) over a binary library that talks to
a Prism device's *Agent* by USB, TCP or a local socket, with capture and monitoring
programs on top (`examples`). The library and the Agent have no source in the
repository: they are the *environment* of the models, described from the checks,
comments and tests of the code that uses them, and marked external in the map.

    Agent (binary) --chunks, metadata--> capture loop --> CameraFrameAssembler
          ^                                   |
          +--------- sendVideoAck ------------+        (CameraCredit)
    Agent --------- start/stop commands <---- capture programs and guards   (CaptureGuard)
    Agent --------- record log -------------> PositionReader --> gnss_plot::Model (GnssPositions)
    Agent --------- independent images -----> ProfileImageAssembler         (ProfileImages)
                                              RAW12 header, blocks, checksums (Raw12)
    Agent --------- LiDAR batches ----------> stored points and their times (LidarPoints)
    Agent --------- raw and text GNSS logs -> parseGnssRaw and its reader   (GnssRawLog)
                                              satellite cycles, use, display (GnssSatellites)
    Agent <-------- settings, revision -----> camera control                (CameraControl)
    Agent <-------- one request, one answer > LiDAR, exposure, RTK, ...     (DeviceCommands)
    runtime library (DLL) <--- load, check, free ---- host programs         (RuntimeLoading)

## Inventory

| component | state | operations | what is hard |
|---|---|---|---|
| camera frame assembler (`camera_assembler.hpp`) | four maps keyed by frame id: images in progress, finished images, metadata, start times; newest id; history of 64 settled ids; last diagnostic | `ingest`, `addMetadata`, `expire`, `reset`, `diagnostic`, `pendingDiagnostic` | ids wrap modulo 2^32; chunks and metadata arrive in any order, damaged or not at all; four maps must agree; a frame's credit must be given back exactly once |
| capture loop (`camera_imu_capture.cpp`, `network_camera_imu_capture.cpp`) | the assembler, counters | expire, read one message, feed it, acknowledge | the Agent stops after a window of unacknowledged frames: a credit returned twice or never is an overrun or a standstill |
| start, stop and guards (same files, `lidar_capture.cpp`, `rklocal_capture.cpp`, `hardware_test.cpp`) | `armed_`, `active_`, exit code | start video, start IMU, start LiDAR, stop, destructor | a command that times out may have been carried out; exceptions from every call; destructors that stop again |
| GNSS position model (`gnss_plot.hpp`) | cursor, session, device time, two positions, two tracks; satellite cycles | `apply`, `clearTracks`, `satellites` | positions age; gaps, sessions and epochs |
| RTK position reader (`rtk_position.cpp`) | a model, two availability flags | `consume`, the 100 ms poll | a log that repeats, drops, restarts and starts over; nothing stale may be shown |
| independent profile images (`profile_video.hpp:46-81`) | a slot per camera | `ingest` | chunks lost, repeated or foreign; errors isolated to one camera |
| RAW12 decoders (`profile_video.hpp:89-214`, `raw12_header.hpp`) | none between calls; the bit reader within a block | header, Rice blocks, CRC | bounds, canonical padding, 12-bit wrap, two checksums that must agree |
| GNSS raw stream (`gnss_raw.hpp`, `gnss_observation.hpp`) | the reader's cursor and session | parse an answer, ask for the next | an overwriting log: cursor, oldest and newest of one answer must agree |
| LiDAR points (`lidar_points.hpp`) | none | store a batch, time its points | widths, roundings, signed offsets near the end of the range |
| camera control (`camera_control.hpp`, `exposure.hpp`) | settings, epoch and revision in the Agent; the status a writer has read | expand globals, set, idle request | all-or-nothing updates; writers that outdate each other; an answer that comes late |
| LiDAR and RTK commands (`lidar_power.hpp`, `lidar_speed.hpp`, `rtk_module_control.cpp`) | none | one command, one confirming answer | no retry after a timeout; consent bound to a generation |
| runtime loading (`device_info_time_sync.cpp`, `windows_runtime_api_examples.cpp`) | module and client handles | load, check, free | every check may throw |
| client, streams, transports, wire structures, update, RK-local client | in binaries | declarations | - |

`ImuStream` and `LidarStream` are fed by the capture loops' only thread (`handleFrame`);
`Client` is not thread safe (`docs/reference/host.md:247`). The concurrency is between the
host program and the Agent, over ordered links, and with the clock.

What makes each modelled component correct:

* assembler: whole images only; one delivery per frame; nothing that holds credit without
  a timer; a settled frame has given everything back; damage stays in its slot;
* loop: acknowledgements are exactly the credits due, and every credit returns;
* guards: success means the device confirmed the stop; no capture known to be started is
  left without an attempt to stop it; another program's capture is left alone, if the status showed it;
* position reader: coordinates are of a current record; what was shown and went is
  withdrawn; no record is passed over in silence or shown twice; tracks join neighbours only;
* profile images: an image is returned exactly for a whole run of its chunks;
* RAW12: every accepted block has exactly one encoding, and its pixels are those encoded; the
  sliced checksum is the bitwise one;
* GNSS logs: nothing is read twice; bytes are lost only where the Agent announces a gap or the head of an answer is
  missing; an honest answer is never refused;
* satellites: only complete, recent cycles are shown, and as used only what the last GSA of the same system names;
* LiDAR points: what is stored is the batch, in order; times never wrap, and those of a Livox batch never go back;
* camera control: a write changes what its writer saw, or nothing; what a writer is told is true;
* commands: success means carried out; positions go only where a user agreed;
* runtime: nothing is called or read that is not there; freed exactly once, after its client and its exceptions.

## Modules and how they correspond to the code

### `CameraAssembler` (`CameraFrameAssembler`)

One record per frame id holds the entries of the class's four maps: `pending` (images in
progress), `ready` and `invalid` (the partial frame set), `metadata`, `started` and `overdue`
(the start time, reduced to whether it exists and whether a second has passed since).
`newestFrameId`, `settledOrder` and `lastDiscarded` are the members of those names;
`result` is what the last call returned. Every call is one action: `Ingest` (in seven
disjuncts, for its early returns), `AddMetadata`, `Expire`, `Reset`; `SecondPasses` is the
clock. Ids are `0 .. IdModulus-1` and compared as the code does (`FrameIdIsNewer`, modulo).
An image is `ImageChunks` pieces, and a piece remembers the image it was cut from. So bytes,
sizes and geometry are not modelled, but every envelope check is a choice: a chunk is well
formed or not (`image = None`), its camera id is a slot or not (`camera = None`).
Where the code settles several frames in one call, it walks them in the order
of a map keyed by id; `HistoriesAfter` and `Ascending` reproduce that order.

### `CameraCredit`, `CreditWindow` (the loop, the Agent's flow control)

`CameraCredit` extends the assembler by the Agent, an ordered link in each direction and the
capture loop (`HostExpires` then `HostReads` or `HostTimesOut`, as the loop alternates).
The Agent opens a frame only within its window, sends its pieces in order per slot, and may
miss or damage pieces, send a piece of another image than the one the slot took of this frame
(`Captured`), and lose metadata. A frame to which any of that happens, or which stands still for a second, is `spoiled`. `CreditWindow` is the abstract promise:
frames opened within a window, each acknowledged once, each credit back eventually.
`CreditReturned` states that the detailed system implements it, liveness included.

### `CaptureGuard` (four capture programs and the hardware test)

`pc` follows the program; an exception goes to `unwind`, where the guard's destructor runs.
`Answered` and `TimesOut` are the only assumptions about a command: answered means
carried out; a throw says nothing; a broken link loses everything later. A capture of somebody else is
known by what the status shows of it (`Foreign`): images, samples only, or nothing, as when it is stalled.
`Open` includes the check for it (`LooksFor`): the network program tests the camera mask alone
(`network_camera_imu_capture.cpp:186`), the hardware test the mask of the IMUs, too (`hardware_test.cpp:116`), the others nothing.
The RK-local programs have no guard: their client's destructor stops what runs, as
`docs/reference/rk-local.md` says, at best effort. `Results` is the verdict; the hardware test's
counters of gaps and damage are one choice in it.

### `GnssModel`, `GnssPositions` (position model and reader)

`GnssModel` writes `Model::apply` and `clearTracks` as functions from model to model, with a
sentence reduced to its effect. `GnssPositions` is `PositionReader::consume` line by line
(session, gap, records one by one, end cursor, availability), polling an Agent whose log
keeps the last `Retained` records of a session, repeats or holds back records, restarts with
a new session, or starts over in the same one. What a poll prints is `out`: what it says of the
session, of each record in turn, and of what it withdraws at the end. Four history variables let
properties talk about earlier polls: `printed` and `lost` are the records of this log that were printed,
or announced as missing; `standing` is what a reader of the output takes to be current; `since` is the first
segment of the tracks that can only hold points of this log, as the numbers of a log that
started over mean nothing beside those of the one before.

### `ProfileImages` (`ProfileImageAssembler`)

A slot per camera. An image value stands for everything each of its chunks repeats (frame
id, format, geometry, timestamp, encoded size); units of data remember their image.
`sent` is a history: the camera's chunks since one flagged first, if they begin an image.

### `Raw12` (`decodeRaw12Rice`, `parseRaw12Header`, `rawCrc32`)

One machine for three pure pieces of code. A header is tried by both of its readers; a message by
both of its checksums; a block is decoded pixel by pixel (`OpenBlock`, `Pixel`,
`EndBlock`), as the code reads it bit by bit. The widths are scaled by constants (`PixelBits`, `ByteBits`,
`BlockPixels`), so that every block up to a length can be tried. The checksum is division of polynomials over
two elements, a polynomial being the set of its exponents; table and slices are those of the code.

### `LidarPoints` (`lidarPointTimestampNs`, `serializeLidarPoints`)

A batch is stored point by point, each field put into its width (`Put`), and timed point by point.
`ended` names the exception that cut either loop short; a caller then gets nothing of what was written.

### `GnssRawLog` (`parseGnssRaw`, `parseGnssObservations`)

The acceptance rules of both logs, translated check by check, in front of a reader that sends back
the cursor and session of its last answer, and an Agent that overwrites, restarts, and whose answers arrive
whole or damaged: records missing in the middle, at the beginning or altogether, repeated or out of order, the gap flag
gone, or a number of the head wrong. The parser compares the first record with the oldest the Agent keeps,
not with the cursor that was asked for, so it cannot tell an answer without its first records or without its flag from an
honest one; `Headless` marks such an answer in the history of what was read. Damage that replaces the session or the
cursor by another one that is plausible is not modelled.

### `GnssSatellites` (the satellite half of `gnss_plot::Model`)

`Gsv` collects numbered parts of a cycle per talker and signal, `Gsa` notes which satellites a fix uses, `Gap`
and `Pause` let the rest of `apply` and the clock interfere, and `Satellites` is what is shown.
A part has a number of groups of fields, which must add up with the others', and names a satellite for each group whose
number is not blank (`gnss_plot.hpp:172`, `:177`), so a complete cycle may hold fewer satellites than its sentences count.
A satellite is used if its own system's last GSA says so; a talker of no known system has the system `Unknown`.
Two histories keep the parts received and the GSA sentences since the last gap (`heard`, `fixes`), to say what a complete cycle
and a satellite in use are.

### `CameraControl` (`camera_control.hpp` and the application sequence of `configuration_api_examples.cpp`)

Writers read the status (`Get`), change settings (`Changed`: `withCameraControlGlobals` or one
camera's manual values), send them with the epoch and revision they read (`Set`) and wait
(`Finish`). Messages are a set: they arrive in any order, late, or never (`Lose`). The Agent compares and sets
(`Serve`), and starts a new epoch at any time (`NewEpoch`).

### `DeviceCommands` (one request, one answer)

A task per caller: LiDAR power and speed, exposure and its limits, frame rate, clock, hotspot, upgrade, save,
start and stop of the RTK module. `Permitted` has the refusals before anything is sent, `Confirms` what
an answer must be: of LiDAR power and speed, the state or speed asked for, which the LiDAR may not have taken. A request may be carried out after its caller has given up, or never.
`OthersSave` is any other program that saves.

### `RuntimeLoading` (`RuntimeModule`, `RuntimeClient`, `run`)

A library is the set of its faults. `Check` does the constructor's checks in order, and
crashes if one reads what an earlier fault has made unreadable; `Call` the calls of `run`, each of which may throw;
`Destroy` and `Free` the destructors, `Handle` what `main` does with an exception: it calls `what()` and destroys it. The
catalogue program and the program that is linked to the library are the same machine with other lists.

Operators marked *Mutant* are wrong versions of the definition they precede (a dropped
guard, a missing reset, an off-by-one). No specification uses them: substituted one at
a time, each must break the property that is supposed to depend on it.

## Runs

| run | what it shows | bounds |
|---|---|---|
| `assembler_slots` | every frame with work is on the timer; a complete image is lost only by damage to its own slot; no frame is dropped without being reported; the frame `pendingDiagnostic` names does not depend on scan order, though wrapped ids are not totally ordered | 2 slots, 4 ids, 1-piece images, declared, partial, empty and legacy metadata, history 1, 1 metadata record; beside it 1 slot, 6 ids, 3 metadata records, the clock stands still |
| `assembler_lanes` | types; only whole, unmixed images are held ready or delivered, and once; images at the newest id only; settled frames stay released; the history is bounded and free of duplicates | 1 slot, two images of 2 pieces, ids 0..3, history 2, 2 metadata records |
| `credit_lanes` | no credit is returned twice or for nothing; every credit returns, by refinement of `CreditWindow` | 3 frames, window 2, ids wrap at the second frame, link of 2 messages |
| `credit_slots` | loss in one frame never retires a neighbour that was sent whole in time | 2 slots, two images of 2 pieces (the Agent may mix them), declared and legacy metadata, 2 frames |
| `credit_stray` | *violation*: a credit returned twice (finding 1) | 2 slots, images for undeclared slots |
| `gnss_reader` | types; no record passed over in silence; points joined in a track are close in time with nothing lost or invalid between | 1 source, 2 epochs, 3 records of which the Agent keeps 1, 3 times, track of 2 points |
| `gnss_sessions` | only current positions are shown, each once, and withdrawn when they go; no record is passed over in silence; the reader agrees with one `apply` of the whole reply | 2 sessions, 1 rewind, 2 records, the Agent keeps both, 2 times |
| `gnss_cached` | *violation*: a cached position is printed for another record (finding 2) | 2 sources, 1 rewind |
| `host_programs` | capture: success means stopped, a started capture is never abandoned, a foreign one left alone; runtime: nothing dangling, freed exactly once; camera control: no update lost, verdicts true; commands: success means carried out, only as agreed; types | five programs, complete; 3 programs with every single fault (and one more for a short table); 2 writers, 2 cameras, 5 edits, 2 writes, 2 epochs; 2 callers, 22 tasks, 2 saves by others |
| `device_data` | whole images only; canonical blocks; checksums agree; points kept; honest answers accepted, losses only at announced gaps and missing heads; only complete and recent satellite cycles; types | 2 cameras, 2 images of 3 units, pieces of any length; pixels of 3 bits, 4 in a block, bytes of 2 bits; headers around every limit; messages of 0 to 17 bytes; batches of 0 to 9 points; a log of 5 records of which 3 are kept and 2 fit an answer, 2 sessions; 4 satellite sentences and gaps, 4 times |
| `guard_usb` | *violation*: a start that times out is not stopped (finding 3) | the USB program, complete |
| `loading_errors` | *violation*: an exception of the library outlives it (finding 4) | one program, a library without a fault, complete |

Why the bounds are enough. The assembler's decisions depend on a frame's order to the
newest id (newer, same, older, unordered), on membership in the history, and on single
slots. Four ids give all four relations (half a turn included); six are needed for
two pending frames ahead of the newest, and three metadata records for all three to hold something
(ids 5, 0 and 1 do). A history or metadata limit of one makes eviction
happen on every second settlement, which 64 and 16 only delay. Two pieces suffice for
"first, middle gap, repeated, mixed" in the assembler; three units with chunks of every
length for the profile slots, which have no piece boundaries of their own. Two slots
tell "own" from "other". In `credit_lanes` a window of 2 with 3 frames makes
the Agent wait for credit, and starting at the last id makes the ids wrap; the two frames of
`credit_slots` are a damaged frame and its neighbour, in either order. In the GNSS runs
the ages are scaled to 0, 1 and 2 time steps: in both, a record may be current or old but read, and in `gnss_reader` too
old as well. There the Agent keeps one record of three, so the second may be lost with a point before and one behind the loss;
in `gnss_sessions` it keeps two, so that replies of two records are compared with one `apply`. `CaptureGuard` has no bounds: it is finite. A block of
RAW12 is scaled so that seeds, quotients and residuals can leave their range by one, and that padding of every length
occurs in Rice blocks (in fixed-width ones it does not arise at this scale); messages reach over two slices of eight bytes and one byte more. The raw log outgrows
what is kept, and an answer holds fewer, so that the Agent has more to send. Two writers and two callers suffice for one to outdate the other; two epochs for an answer of an earlier one.
The proofs remove the bounds for the properties they cover.

`host_programs` and `device_data` put machines that share no state side by side: in each behaviour one
of them runs and the others stay in one initial state (`MCHostPrograms.tla`, `MCDeviceData.tla`), so the state space is the
sum, not the product, and every property is checked on all behaviours of its machine. Each machine's
module stands by itself, with its own specification, and its theorems are about that.

`CHECK_DEADLOCK FALSE` is set where the system really stops: the frames, records and time
of an instance are used up, or the program has ended.

### Fairness

Only `credit_lanes` checks liveness. `FairCreditSpec` assumes weak fairness of the loop's steps
(`while` with a 200 ms read timeout: it always comes round), of the clock, of the
acknowledgement's arrival, and of the Agent's ending a frame it began and sending its
metadata. It does not assume that a piece is ever sent, that the Agent opens another
frame, or that anything arrives undamaged: `expire()` must do it alone. Without the
clock's fairness the property fails, as it must.

## Findings

1. `credit_stray`. Pending images of slots the metadata leaves out survive their completed frame
   (`:327`). After 64 more settled frames have pushed its id out of the history, the frame is
   reported discarded again, and acknowledged again, against `stream-resilience.md:18`.
2. `gnss_cached`. `rtk_position.cpp:143` recognises a record's position by sequence number.
   After a log started over (`:131-133`) the number may be a cached position's: that position is
   printed again, as INVALID and without coordinates, against the comment at `:115-116`.
3. `guard_usb`. `camera_imu_capture.cpp:198-199` arms the guard after the start command has
   returned; if that command times out, nothing stops the capture. The network program
   arms first, for that reason (`network_camera_imu_capture.cpp:204`). The LiDAR program's guard
   has the same gap (`active()` is false until the start is answered).
4. `loading_errors`. A function of the DLL may throw. The exception leaves `run()`
   (`device_info_time_sync.cpp:193-218`), whose module frees the DLL on the way (`:159-163`), and then `main` calls its `what()`
   (`:257`) and destroys it: against `docs/examples/interfaces.md:624-625`, "Keep the DLL loaded until all SDK-returned objects and
   the Client have been destroyed." Whether that ends badly depends on what else keeps the DLL mapped and on where
   the exception's code lies, neither of which is in the repository.

Two more behaviours are worth knowing though no run is spent on them. The network program refuses to disturb a capture
("device is already streaming; stop the existing capture first", `network_camera_imu_capture.cpp:187`) only if its
cameras stream (`:186`). A capture of IMUs alone, or one whose cameras are stalled, it takes over, and stops at its end:
`docs/reference/rk-local.md:123` says "Either stop path stops both Camera and IMU". `ForeignCaptureKept` is therefore about captures
the status showed. Next, the first chunk of a session
only sets the newest id (`camera_assembler.hpp:373`) and retires nothing, so a frame known before it
by metadata alone waits for the one-second timeout (`credit_lanes` shows its credit
still returns).

## Proofs

TLAPS checks the following for all values of the constants that satisfy the modules' named
assumptions. The theorems are listed in `PROJECT.json` with the properties they state.

| proofs | for any |
|---|---|
| `CameraAssemblerProofs` | finite set of slots, even id modulus above 3, image size, history and metadata limit |
| `CameraCreditProofs` | those, link capacity, window not above the history, first id; run not longer than half a turn of the ids |
| `DeviceDataProofs` | cameras, images, sizes; messages of octets, headers; batches of points of the fields' widths |
| `GnssRawLogProofs` | size of the log and of an answer, number of records and sessions |
| `GnssPositionsProofs` | sources, epochs, ages and track length; size of the log and of what is kept, number of sessions and rewinds |
| `GnssSatellitesProofs` | sentences the parser accepts, ages, number of cycles kept |
| `CameraControlProofs` | writers, cameras, edits, number of writes and epochs |
| `HostProgramsProofs` | set of the programs; callers, tasks and number of saves by others; hosts and sets of faults |

`CameraAssemblerProofs`: `Spec => []IInv`, and from it `TypeOK`, `DeliveredWhole`,
`SettledFrameReleased`, `ImagesOnlyAtNewest`, `TimerCoversWork` and `HistorySound`.
`IInv` is their conjunction strengthened where they are not inductive:
`FrameSound` adds, per frame, that an image in progress is a proper prefix of one image (so the
next piece extends or finishes it), that a slot found invalid holds no ready image, and that
whatever a frame holds is on the timer. `HistorySound` needs `SettledFrameReleased` in
turn: a frame is only settled while it is not remembered, so a call never appends an id
that is there. The argument has three layers: lemmas about one frame (what starting,
rejecting, extending and finishing an image preserve), lemmas about the
history (appending a batch to a bounded injective sequence, forgetting from the front),
and one lemma per action that combines them. The history is stated as a sequence suffix, not by
recursion, so that no induction over data is needed. From the same invariant follow the action properties
`DeliveredOnce`, `ImagesSurvive` and `NoSilentLoss`: each action is shown to let a frame progress
(`Progress`: no ready image lost except to damage), or to drop it together with a report. Of the diagnostics,
`DiagnosticIsLatest` (which no run checks) and `PendingDiagnosticUnambiguous`: among frames that are all within half a turn ahead of the newest id
the wrapped order is total, so the scan finds the same frame in whatever order it walks.

`CameraCreditProofs`: without stray images (`~StrayImages`: the Agent sends images of declared slots only; finding 1 is what
happens otherwise), `AcksMatchCredit`, and that `CameraCredit` implements `CreditWindow` step by step
(`FlowControlImplemented`, the safety half of `CreditReturned`; its liveness half stays with TLC).
`LoopUsesAssembler` shows that the loop and the Agent only ever use the assembler as its specification allows, so that every theorem about
the assembler alone holds of the composed system. The inductive invariant `CreditInv` adds to the assembler's `IInv`:
frames reach the assembler in the order they were opened in (`InOrder`); what the assembler may settle is owed to the Agent
(`WorkOwed`); a frame acknowledged before its last message has arrived is still in the history, and stays there even if all
frames in progress are settled after it (`Remembered`, which is why the window must not exceed the history); and pieces
are of slots the metadata declares, and arrive once and in order, so that nothing comes behind a whole image
(`LanesDeclared`, `LanesOrdered`).
`HealthyComplete` proves `HealthyFramesComplete`, from `HealthInv` on top of these: a frame not spoiled is `Over` (completed, with nothing
of it left on the link), or `Alive`, and nothing settled. `Alive` follows each message from the Agent into the assembler: per slot, the
pieces the assembler has and those on the link are together the ones passed, in order, and all of the captured image (`LaneAlive`);
the metadata is still to be sent, on the link once, or kept (`MetaAlive`); nothing damaged is on the link. So when the last message of such a
frame arrives the frame completes, and what retires frames (damage, a newer chunk behind which nothing of it remains, the timer) does
not meet it; what completes or retires a neighbour leaves it alone. The metadata cap could: `addMetadata` evicts the smallest ids
beyond `kMaxPendingMetadata`, healthy or not. The theorem therefore assumes `Window <= MetaCap` (4 and 16 in the code), under which it
never does: metadata is kept of frames whose credit is out, and of no others (`CapSuffices`). `CreditAssumption` limits a run to half a turn of the ids
(2^31 frames: two years at 30 frames a second). Nothing but the clock, which safety says nothing of, keeps a frame
that has started and holds nothing from staying open that long; then its id would no longer be older
than the new ones, and the order of ids would not be the order of frames.

`DeviceDataProofs` has three sections.

* `ProfileImages`: `TypeOK` and `DeliversExactlyWholeRuns`. The invariant says that a slot holds exactly the units of the
  run it was sent since the chunk flagged first, a proper prefix of one image, and that the slot an error empties is the one
  whose run is given up; so a last chunk that fits completes a whole run, and anything else leaves none.
* `Raw12`: `TwinsAgree` (`TwinsDecideAlike`). The two CRC-32 implementations walk a message at different
  paces, `rawCrc32` eight bytes a step, so `MessageOK` says where each of them is: the bitwise one has been fed
  exactly the bytes up to there (`FedAll`). That one step of eight table lookups equals eight steps of the bitwise loop (`EightBytes`) follows from
  algebra: dividing by the polynomial is linear over exclusive or (`DividedXor`), a word without low bits is only shifted (`DividedHigh`), so
  a byte can be fed late or early (`LateByte`, `EarlyByte`), and table *n* divides *n* zero bytes further (`TablesAdvance`). The
  polynomial is the code's, its value is used nowhere. `InputAssumption` says that messages consist of octets, and that
  a header's fields are numbers.
* `LidarPoints`: `PointsKept` (`BatchKept`), for any batch of points whose fields have the widths of `LidarPoint`. `FieldsStored` says where each
  field lands in the stored bytes, `WordRecovered` that the four bytes of a two's complement word give it back (from digits in base 256,
  `WordOfDigits`), and `PointRead` puts both together. `Spread` bounds the rounded division of the time span by its quotient and remainder, from which neighbouring steps
  differ by at most one nanosecond (`EvenlySpread`) and the last point lies at the end of the span (`SpreadEnds`). `PointsInv`
  keeps that the loops have written, and timed, the first points of the batch. `BatchAssumption` gives the fields their widths.

`GnssRawLogProofs`: `HonestAccepted` and `LostOnlyAtHeads`. `IInv` keeps that the records read are not beyond the reader's cursor, nor that beyond the Agent
(`ReadUpTo`; the raw log's last entry is the cursor, or a mark is noted after it), that they are in order (`InOrder`), and that the raw log has no
hole that is neither announced nor at the head of an answer (`NoHole`). The lemmas about an answer carry the weight: of the damaged answers the raw parser
accepts none but those that lack a beginning or the flag (`CutOff`), since last record, cursor and the steps between records must agree; the
text parser may take an answer that lacks records anywhere, but then in order, and the theorem says no more of it than that.

`GnssPositionsProofs`: all seven properties of the reader that the runs check. Everything rests on one
inductive invariant, `Core` (`CoreHolds`): the Agent's log is numbered from one; the model is
well formed, and a position it takes for valid is fresh and not beyond the cursor (`Sound`); the sources the reader
remembers as available are the usable ones, and those are the ones that stand in the output
(`Answered`); what was printed or lost of this log is behind the cursor, and the cursor within the log
(`HistoryOK`). `Consumed` names the models a reply passes through, one per record, from an *origin*: the cursor
when the reply continues from it, zero after a gap. A statement about the end of a reply is then proved record by record; where the code loops,
the least record for which it would be false takes the place of induction. `ShownIsCurrent` needs that a
position with the number of a record read is that record's; `ShownOnce` that a record that is read is
beyond everything printed; `EveryRecordReported` that a record passed over without a line was too old for the model.
`ReaderAgreesWithModel` compares two models that are fed the same reply, one record at a time and as a whole: they
stay `Alike` (equal but for the cursor and for positions one of them has not yet withdrawn), and the
end of the reply makes them equal. `JoinedHolds` needs a second invariant, `Tracked`: each pair of neighbours
in a segment of this log spans no number lost or reported as without a position, and while the last segment is
open, no such number lies between its last point and the cursor (`Reached`), so that the next point may be joined to it.

`GnssSatellitesProofs`: types, `CyclesAreWholeRuns` and `ShownIsRecent`. `SatInv` holds of each talker and signal by itself: parts
are timed in order (`Timely`), the cycle in progress is the run its history ends with (`Working`), and the complete one the last whole
run before (`Holding`). `UsedInv` ties what is remembered of each system to the last GSA of it in the history since the gap. The satellites of a run are flattened by a recursive function of the community modules, and what it computes for
one more part is proved by taking the least number of parts for which it would be otherwise: a least counterexample
(`WellFoundedInduction`'s `WFMin`) takes the place of induction. `SentencesAssumption` is what `gnss_plot.hpp:169-170` refuses, a part below one or above the total, a
total below one, a negative count, and that a part names no more satellites than it has groups.

`CameraControlProofs`: `VerdictTrue`, `NoLostUpdate` and `CtlTypeOK`, from two inductive invariants. `CtlInv`
follows the numbers: an answer names one request, and nothing is answered that was not asked. `SettingsInv` follows
the settings: what a writer knows of the current revision is what the Agent holds, and every request on its way is one
edit of what its writer saw. An outdated write therefore never matches the Agent's revision.
`ControlAssumption` asks that the Agent starts with settings one could have sent.

`HostProgramsProofs` has three sections.

* `DeviceCommands`: `DevTypeOK`, `SuccessMeansDone` and `OnlyAsAgreed`, from `DevInv`. `AnswersTrue` says what an answer that
  confirms a request means; `AccountsKnown` that the generation a user was shown belongs to one account, so that a start
  the Agent accepts is for the endpoint shown.
  `TaskAssumption` is what `client.hpp:219` can ask of a LiDAR, to run or to stand by, that it has two speeds, and that a frame rate is a number.
* `RuntimeLoading`: `LoadTypeOK`, `NothingDangling` and `EndsClean`, from `LoadInv`, which keeps that all checks done so far have
  passed and that a loaded library is held by the module's handle. The lemma `ChecksInOrder` is the heart of it: whatever lies
  before a field in the table is checked alone, earlier, by both programs.
* `CaptureGuard`: `Spec => []GInv`, and from it `TypeOK`, `SuccessMeansStopped`,
  `StartedNotAbandoned` and `ForeignCaptureKept`. The properties are about the end of a program; `GInv` carries back
  what the end needs: an armed guard (or an active stream) wherever a capture may run, a device
  confirmed idle before a result is reported, exit code 1 on every exception path, and at most one
  stop before the destructor's.

### Model-checked only

* `CreditReturned`'s liveness under fairness, out of TLAPS's reach (as is ENABLED).
* The joint type invariants `HostTypesOK` and `DataTypesOK`, as conjunctions; each of their parts is a theorem about its
  own module, since the modules share no state.
* `BlocksCanonical` of `Raw12`: that a block is accepted exactly when it encodes some pixels sums over the bits of any number of pixels, which
  takes induction over data. TLC tries every block of the scaled sizes instead.

The library's induction theorems take an operator as a parameter, which none of the installed provers can instantiate. Where a
definition is recursive, a least counterexample serves instead, case by case.

## Not modelled, and why

Declarations of the binary library (client, streams, runtime tables, network, Wi-Fi, update,
telemetry parsers, the RK-local client) have no bodies to translate; nor have the examples that only show
calls and are never run (`parser_api_examples.cpp`, most of `client_api_examples.cpp`). Of the implementation's 12370 lines,
6240 are the copies of `include/` that are shipped with the ROS runtimes (`runtime/ros/linux-arm64`, `linux-x64`): the models of
the originals stand for them, but the map names the originals only. Scripts build, check sums and links; they have no
part in the system's state.

Formatting, option parsing, statistics and
file output of the programs carry no property. Text parsing of NMEA and ADRNAV, coordinate
projection and floating-point origin are left out of `GnssModel`. Zstandard is a library. Diagnostics of the
assembler are reduced to the frame they describe. The `rejected` and `gaps` counters are left out, as are the counters of
the hardware test, whose verdict is a choice.

Another client may also start a capture between the network program's status check and its
own start. What the Agent does with the second start is in the binary, and no text says.

## Plan

1. **Proofs**: the blocks of `Raw12`.
2. **Liveness** of the capture programs: that each ends, once the transport's timeouts are fair.
3. **Hardware test**: its counters, as a check of what a passing verdict says of the samples received.
