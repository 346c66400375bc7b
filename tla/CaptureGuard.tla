---------------------------- MODULE CaptureGuard ----------------------------
(***************************************************************************)
(* Starting and stopping a capture: runCapture of                          *)
(* examples/camera_imu/camera_imu_capture.cpp and of                       *)
(* examples/network/network_camera_imu_capture.cpp, run of                 *)
(* examples/lidar/lidar_capture.cpp, main of                               *)
(* examples/rklocal/rklocal_capture.cpp and the capture of                 *)
(* rk-local-sdk/tests/hardware_test.cpp, with the guard objects whose      *)
(* destructors stop a capture that an exception interrupts.  The RK-local  *)
(* programs have no guard: closing their client stops what still runs.     *)
(*                                                                         *)
(* The library and the Agent are binaries: a command is carried out or     *)
(* not, and its caller sees an answer or an exception.  A timeout says     *)
(* nothing about the device; a broken link loses every later command.      *)
(* Video and IMU share one capture, which either stop command ends.  Of a   *)
(* capture of somebody else the status shows the images that complete and  *)
(* the samples that arrive: it may consist of IMUs alone, or be stalled.   *)
(***************************************************************************)
EXTENDS Integers

CONSTANT Programs  \* the programs under check

ASSUME ProgramsAssumption == Programs \subseteq {"usb", "network", "lidar", "rklocal", "hardware"}

VARIABLES
  program,  \* which program runs
  pc,       \* where it is; the guard's destructor runs at "unwind"
  armed,    \* CaptureGuard::armed_; an open client of an RK-local program
  active,   \* ImuStream / LidarStream::active_
  data,     \* the kinds of data received
  exit,     \* the exit code
  device,   \* the capture of the device: "idle", "running", or one of Foreign
  link,     \* whether the transport works
  started,  \* history: whether the first start command was answered
  stops     \* history: stop commands given

vars == <<program, pc, armed, active, data, exit, device, link, started, stops>>

(* A capture of somebody else, by what the status shows of it: images, which set *)
(* camera_streaming_mask, only samples, which set imu_receiving_mask, or neither.  *)
Foreign == {"foreignImages", "foreignImu", "foreignSilent"}

Steps == {"open", "start", "start imu", "loop", "stop", "report", "unwind", "ended"}

TypeOK ==
  /\ program \in Programs /\ pc \in Steps
  /\ armed \in {"yes", "no"} /\ started \in {"yes", "no"} /\ active \in {"yes", "no"} /\ link \in {"up", "broken"}
  /\ data \subseteq {"images", "imu", "points"} /\ exit \in {0, 1, 3}
  /\ device \in {"idle", "running"} \cup Foreign
  /\ stops \in 0 .. 2

Init ==
  /\ program \in Programs
  /\ pc = "open" /\ armed = "no" /\ active = "no" /\ data = {} /\ exit = 0
  /\ device \in {"idle"} \cup Foreign /\ link = "up" /\ started = "no" /\ stops = 0

Goto(step)  == pc' = step /\ UNCHANGED exit
Throw       == pc' = "unwind" /\ exit' = 1

(* A command whose effect on the device is `effect': answered, or thrown, and *)
(* when it is thrown the device may or may not have carried it out.            *)
Answered(effect)  == link = "up" /\ device' = effect
TimesOut(effect)  == device' = device \/ (link = "up" /\ device' = effect)

-----------------------------------------------------------------------------
(* Opening, and arming the guard. *)

(* Whether a stop will be tried already when the start command fails. *)
ArmsFirst == program \in {"network", "rklocal", "hardware"}

(* The captures of somebody else a program looks for first: the network program *)
(* tests the camera mask alone, the hardware test the mask of the IMUs, too.       *)
LooksFor ==
  IF program = "network" THEN {"foreignImages"}
  ELSE IF program = "hardware" THEN {"foreignImages", "foreignImu"}
  ELSE {}

(* Mutant: a capture of somebody else is taken over. *)
TakingOver ==
  /\ pc = "open" /\ link = "up"
  /\ armed' = (IF ArmsFirst THEN "yes" ELSE "no")
  /\ Goto("start")
  /\ UNCHANGED <<program, active, data, device, link, started, stops>>

(* Everything before the start command: options, an output directory that must *)
(* not exist, the hardware test's read-only checks, of which none may fail.      *)
Open ==
  /\ pc = "open"
  /\ \/ /\ link = "up"
        /\ device \notin LooksFor
        /\ armed' = (IF ArmsFirst THEN "yes" ELSE "no")
        /\ Goto("start")
     \/ Throw /\ UNCHANGED armed
  /\ UNCHANGED <<program, active, data, device, link, started, stops>>

(* startVideo1280x1024, or startCapture, which starts the IMUs, too: the USB *)
(* program arms its guard once it has returned.                               *)
StartVideo ==
  /\ pc = "start" /\ program # "lidar"
  /\ \/ /\ Answered("running") /\ armed' = "yes" /\ started' = "yes"
        /\ Goto(IF program \in {"rklocal", "hardware"} THEN "loop" ELSE "start imu")
     \/ /\ Answered(device)  \* not enabled
        /\ Throw /\ armed' = "yes" /\ UNCHANGED started
     \/ TimesOut("running") /\ Throw /\ UNCHANGED <<armed, started>>
  /\ UNCHANGED <<program, active, data, link, stops>>

(* ImuStream::start: active once the Agent's status says so. *)
StartImu ==
  /\ pc = "start imu"
  /\ \/ Answered("running") /\ active' = "yes" /\ Goto("loop")
     \/ TimesOut("running") /\ Throw /\ UNCHANGED active
  /\ UNCHANGED <<program, armed, data, link, started, stops>>

(* LidarStream::start; an answer that the stream is not active also throws, and *)
(* leaves the device as it was.                                                  *)
StartLidar ==
  /\ pc = "start" /\ program = "lidar"
  /\ \/ Answered("running") /\ active' = "yes" /\ started' = "yes" /\ Goto("loop")
     \/ TimesOut("running") /\ Throw /\ UNCHANGED <<active, started>>
  /\ UNCHANGED <<program, armed, data, link, stops>>

(* What is received: the hardware test counts images and the samples of one IMU. *)
Kinds == IF program = "lidar" THEN {"points", "imu"} ELSE {"images", "imu"}

(* A frame is read and what it carries is counted and saved. *)
Receive ==
  /\ pc = "loop" /\ link = "up"
  /\ \E kind \in Kinds : data' = data \cup {kind}
  /\ UNCHANGED <<program, pc, armed, active, exit, device, link, started, stops>>

(* The loop ends at its deadline, or with an exception of a read, a parse, an *)
(* acknowledgement or a file.  A read that times out is no exception.           *)
Loop ==
  /\ pc = "loop"
  /\ Goto("stop") \/ Throw
  /\ UNCHANGED <<program, armed, active, data, device, link, started, stops>>

-----------------------------------------------------------------------------
(* Stopping *)

(* The stop command: either one stops video and IMU; an exception leaves the *)
(* stream active or not.                                                      *)
StopAnswered == Answered("idle") /\ active' = "no"
StopThrows   == TimesOut("idle") /\ active' \in {active, "no"}

(* Mutant: an exception of the stop command is swallowed. *)
SwallowingStop ==
  /\ pc = "stop"
  /\ stops' = stops + 1
  /\ StopAnswered \/ StopThrows
  /\ armed' = "no" /\ Goto("report")
  /\ UNCHANGED <<program, data, link, started>>

(* guard.stop() or LidarStream::stop(), on the way out. *)
Stop ==
  /\ pc = "stop"
  /\ stops' = stops + 1
  /\ \/ StopAnswered /\ armed' = "no" /\ Goto("report")
     \/ StopThrows /\ Throw /\ UNCHANGED armed
  /\ UNCHANGED <<program, data, link, started>>

(* What each program asks for: anything, both kinds, or points. *)
EnoughData ==
  /\ data # {}
  /\ program = "lidar" => "points" \in data
  /\ program \in {"network", "rklocal", "hardware"} => {"images", "imu"} \subseteq data

(* The exit code.  The hardware test also fails if anything was lost, damaged or *)
(* out of order, or if the saved configuration has changed.                        *)
Results ==
  IF ~EnoughData THEN {IF program \in {"rklocal", "hardware"} THEN 1 ELSE 3}
  ELSE IF program = "hardware" THEN {0, 1} ELSE {0}

(* Statistics; closing the files or asking the device again may throw. *)
Report ==
  /\ pc = "report"
  /\ \/ pc' = "ended" /\ exit' \in Results
     \/ program \in {"network", "lidar", "hardware"} /\ Throw
  /\ UNCHANGED <<program, armed, active, data, device, link, started, stops>>

(* Mutant: the destructor stops only an active stream. *)
GuardedIfActive == active = "yes"

(* Whether the destructor has something to stop. *)
Guarded == IF program = "lidar" THEN active = "yes" ELSE armed = "yes"

(* Mutant: a stop that throws is repeated. *)
RetryingUnwind ==
  /\ pc = "unwind"
  /\ IF Guarded THEN stops' = stops + 1 /\ (StopAnswered \/ StopThrows)
     ELSE UNCHANGED <<stops, device, active>>
  /\ pc' \in {"unwind", "ended"}
  /\ UNCHANGED <<program, armed, data, exit, link, started>>

(* ~CaptureGuard, ~LidarGuard: no exception leaves them. *)
Unwind ==
  /\ pc = "unwind"
  /\ IF Guarded THEN stops' = stops + 1 /\ (StopAnswered \/ StopThrows)
     ELSE UNCHANGED <<stops, device, active>>
  /\ pc' = "ended"
  /\ UNCHANGED <<program, armed, data, exit, link, started>>

LinkBreaks ==
  /\ link = "up" /\ pc # "ended"
  /\ link' = "broken"
  /\ UNCHANGED <<program, pc, armed, active, data, exit, device, started, stops>>

Next ==
  \/ Open \/ StartVideo \/ StartImu \/ StartLidar \/ Receive \/ Loop \/ Stop \/ Report \/ Unwind
  \/ LinkBreaks

Spec == Init /\ [][Next]_vars

-----------------------------------------------------------------------------
(* Properties *)

(* The program reports success, with or without data, only when the device has *)
(* confirmed that its capture is stopped, and plain success only with data.      *)
SuccessMeansStopped == pc = "ended" /\ exit # 1 => device = "idle" /\ (exit = 0 => data # {})

(* A program that ends while the capture it started may be running has at      *)
(* least tried to stop it: no exception, of whatever call, skips the stop.      *)
NotAbandoned == pc = "ended" /\ device = "running" => stops > 0

(* The same of every program once its start command was answered, and in any    *)
(* case of the network program, which arms its guard before it starts, and of    *)
(* the RK-local programs.                                                         *)
StartedNotAbandoned == started = "yes" \/ ArmsFirst => NotAbandoned

(* A capture that the status showed when the program looked for one is left     *)
(* alone: one with images by the network program and by the hardware test, one of  *)
(* IMUs by the hardware test.  The guard, or the closing of the client, though      *)
(* shared with captures of its own, never stops it.  (A capture of IMUs alone is    *)
(* not looked for by the network program, which takes it over and stops it.)         *)
ForeignCaptureKept ==
  [][(device \in LooksFor) => device' = device]_vars
=============================================================================
