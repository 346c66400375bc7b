--------------------------- MODULE DeviceCommands ---------------------------
(***************************************************************************)
(* Commands that change the device, each a single request with one answer: *)
(* LiDAR power and speed (include/prism/usb/lidar_power.hpp, lidar_speed   *)
(* .hpp), the saved frame rate, exposures, clock, hotspot and upgrade      *)
(* (examples/api/configuration_api_examples.cpp, client_api_examples.cpp)  *)
(* and the RTK control program (examples/gnss_rtk/rtk_module_control.cpp). *)
(*                                                                         *)
(* Every caller carries out one task.  The Agent, a binary, handles        *)
(* requests one after the other.  A request, once sent, may be carried out *)
(* long after its caller has given up, or never.                           *)
(***************************************************************************)
EXTENDS Integers

CONSTANTS
  Callers,
  Tasks,     \* what a caller may be asked to do
  NoTask,
  Endpoints,  \* of CORS accounts
  MaxSaves   \* bound on saves by others

(* A LiDAR is asked to run or to stand by, and for one of two speeds; a frame *)
(* rate is a number.                                                            *)
ASSUME TaskAssumption ==
  \A t \in Tasks : /\ t.kind = "power" => t.value \in {"running", "standby"}
                   /\ t.kind = "speed" => t.value \in {"normal", "low"}
                   /\ t.kind = "fps" => t.value \in Nat

VARIABLES
  task,     \* caller -> its task
  at,       \* caller -> "idle", "read", "write", "waiting", "ok" or "failed"
  read,     \* caller -> what it has read of the Agent before its request
  sent,     \* caller -> "no", "underway", "moving" or "answered"
  answer,   \* caller -> the Agent's answer
  motor,    \* the LiDAR's power state
  speed,    \* and its speed mode
  fps, quality, saves,  \* the Agent's saved configuration; quality counts its saves
  account,  \* saved CORS endpoint and its generation
  rtk,      \* "stopped", or the endpoint that positions are sent to
  carried   \* history: the callers whose request was carried out

devVars == <<task, at, read, sent, answer, motor, speed, fps, quality, saves, account, rtk, carried>>

CameraFpsSupported(n) == n >= 1 /\ n <= 30

CameraMaxExposureUs(n) == IF CameraFpsSupported(n) THEN 1000000 \div n - 5000 ELSE 0

(* What is checked before anything is sent. *)
Permitted(t) ==
  /\ t.kind \in {"fps", "network", "clock", "hotspot", "upgrade", "start"} => t.consent
  /\ t.kind \in {"offset", "clock", "hotspot", "upgrade"} => ~t.streaming
  /\ t.kind = "power" => t.model \in 1 .. 3 /\ t.timeout \in 1 .. 30000
  /\ t.kind = "speed" => t.model = 2 /\ t.timeout \in 1 .. 10000 /\ t.value \in {"normal", "low"}
  /\ t.kind = "fps"   => CameraFpsSupported(t.value)
  /\ t.kind = "exposure" => CameraMaxExposureUs(t.fps) # 0 /\ t.value <= CameraMaxExposureUs(t.fps)
  /\ t.kind = "limits" =>
       /\ 50 <= t.min_us /\ t.min_us <= t.max_us /\ t.max_us <= 995000
       /\ 1024 <= t.min_gain /\ t.min_gain <= t.max_gain /\ t.max_gain <= 126976
       /\ t.min_gain % 32 = 0 /\ t.max_gain % 32 = 0
  /\ t.kind = "save" => t.value # "none" /\ t.port \in 1 .. 65535

(* Tasks that read what they are going to replace, or to start, first. *)
ReadsFirst(t) == t.kind \in {"fps", "limits", "start"}

(* The fields of the configuration that saveCameraFps writes. *)
FieldMask(t) == {"fps"}

DevInit ==
  /\ task = [c \in Callers |-> NoTask] /\ at = [c \in Callers |-> "idle"]
  /\ read = [c \in Callers |-> <<>>] /\ sent = [c \in Callers |-> "no"]
  /\ answer = [c \in Callers |-> "none"]
  /\ motor = "running" /\ speed = "normal" /\ fps = 30 /\ quality = 0 /\ saves = 0
  /\ account = [endpoint |-> "none", generation |-> 0] /\ rtk = "stopped" /\ carried = {}

agentVars == <<motor, speed, fps, quality, saves, account, rtk, carried>>

-----------------------------------------------------------------------------
(* Callers *)

(* A task whose arguments, consent or state do not permit it sends nothing. *)
Accept(c) ==
  /\ at[c] = "idle"
  /\ \E t \in Tasks :
       /\ task' = [task EXCEPT ![c] = t]
       /\ at' = [at EXCEPT ![c] = IF ~Permitted(t) THEN "failed" ELSE IF ReadsFirst(t) THEN "read" ELSE "write"]
  /\ UNCHANGED <<agentVars, read, sent, answer>>

(* deviceConfiguration, timeSyncCorsConfiguration, whose endpoint is shown. *)
ReadFirst(c) ==
  /\ at[c] = "read"
  /\ \/ /\ read' = [read EXCEPT ![c] = [fps |-> fps, quality |-> quality, account |-> account]]
        /\ at' = [at EXCEPT ![c] = "write"]
     \/ at' = [at EXCEPT ![c] = "failed"] /\ UNCHANGED read
  /\ UNCHANGED <<agentVars, task, sent, answer>>

(* One request, never sent again. *)
Send(c) ==
  /\ at[c] = "write"
  /\ at' = [at EXCEPT ![c] = "waiting"] /\ sent' = [sent EXCEPT ![c] = "underway"]
  /\ UNCHANGED <<agentVars, task, read, answer>>

(* Mutant: any state or speed the LiDAR reports will do. *)
ConfirmsAnything(c) == answer[c] # "refused"

(* The answer has to be the state, or the speed, that was asked for. *)
Confirms(c) ==
  /\ answer[c] # "refused"
  /\ task[c].kind \in {"power", "speed"} => answer[c] = task[c].value

Return(c) ==
  /\ at[c] = "waiting" /\ sent[c] = "answered"
  /\ at' = [at EXCEPT ![c] = IF Confirms(c) THEN "ok" ELSE "failed"]
  /\ UNCHANGED <<agentVars, task, read, sent, answer>>

(* Nothing is undone, and nothing sent again. *)
TimeOut(c) ==
  /\ at[c] = "waiting"
  /\ at' = [at EXCEPT ![c] = "failed"]
  /\ UNCHANGED <<agentVars, task, read, sent, answer>>

-----------------------------------------------------------------------------
(* The Agent *)

(* Mutant: the start names the newest saved account. *)
NewestGeneration(c) == account.generation

(* The generation of the account that was shown when consent was given. *)
ExpectedGeneration(c) == read[c].account.generation

(* A request is carried out, or refused.  A LiDAR takes the speed it is asked for *)
(* or keeps its own, and the answer reads it back.                                  *)
Carry(c) ==
  LET t == task[c]
      refused == t.kind = "start" /\ (ExpectedGeneration(c) # account.generation \/ account.endpoint = "none")
      writes(kind) == t.kind = kind /\ ~refused
      done == ~refused /\ (t.kind = "speed" => speed' = t.value) IN
  /\ sent[c] = "underway"
  /\ speed' \in (IF t.kind = "speed" THEN {speed, t.value} ELSE {speed})
  /\ IF t.kind = "power" /\ motor # t.value
     THEN sent' = [sent EXCEPT ![c] = "moving"] /\ motor' = "transitioning" /\ UNCHANGED <<answer, carried>>
     ELSE /\ sent' = [sent EXCEPT ![c] = "answered"] /\ UNCHANGED motor
          /\ answer' = [answer EXCEPT ![c] = IF refused THEN "refused"
                                            ELSE IF t.kind = "power" THEN motor
                                            ELSE IF t.kind = "speed" THEN speed' ELSE "as asked"]
          /\ carried' = IF done THEN carried \cup {c} ELSE carried
  /\ fps' = IF writes("fps") THEN t.value ELSE fps
  /\ quality' = IF writes("fps") /\ "quality" \in FieldMask(t) THEN read[c].quality ELSE quality
  /\ account' = IF writes("save") THEN [endpoint |-> t.value, generation |-> account.generation + 1] ELSE account
  /\ rtk' = IF writes("start") THEN account.endpoint ELSE IF writes("stop") THEN "stopped" ELSE rtk
  /\ UNCHANGED <<task, at, read, saves>>

(* A moving LiDAR arrives, fails, or is still moving when the time is over. *)
Moved(c) ==
  /\ sent[c] = "moving"
  /\ motor' \in {task[c].value, "transitioning", "error"}
  /\ sent' = [sent EXCEPT ![c] = "answered"] /\ answer' = [answer EXCEPT ![c] = motor']
  /\ carried' = IF motor' = task[c].value THEN carried \cup {c} ELSE carried
  /\ UNCHANGED <<task, at, read, speed, fps, quality, saves, account, rtk>>

(* Programs that are not callers save another field, or an account. *)
OthersSave ==
  /\ saves < MaxSaves /\ saves' = saves + 1
  /\ \/ quality' = quality + 1 /\ UNCHANGED account
     \/ /\ \E e \in Endpoints : account' = [endpoint |-> e, generation |-> account.generation + 1]
        /\ UNCHANGED quality
  /\ UNCHANGED <<task, at, read, sent, answer, motor, speed, fps, rtk, carried>>

(* A LiDAR that was left moving arrives somewhere. *)
Arrive ==
  /\ motor = "transitioning" /\ motor' \in {"running", "standby"}
  /\ UNCHANGED <<task, at, read, sent, answer, speed, fps, quality, saves, account, rtk, carried>>

Vanish(c) ==
  /\ sent[c] = "underway" /\ at[c] = "failed"
  /\ sent' = [sent EXCEPT ![c] = "no"]
  /\ UNCHANGED <<agentVars, task, at, read, answer>>

DevNext ==
  \/ \E c \in Callers :
       Accept(c) \/ ReadFirst(c) \/ Send(c) \/ Return(c) \/ TimeOut(c) \/ Carry(c) \/ Moved(c) \/ Vanish(c)
  \/ OthersSave \/ Arrive

DevSpec == DevInit /\ [][DevNext]_devVars

-----------------------------------------------------------------------------
(* Properties *)

DevTypeOK ==
  /\ \A c \in Callers :
       /\ at[c] \in {"idle", "read", "write", "waiting", "ok", "failed"}
       /\ sent[c] \in {"no", "underway", "moving", "answered"}
  /\ motor \in {"running", "standby", "transitioning", "error"} /\ speed \in {"normal", "low"}
  /\ fps \in 1 .. 30 /\ quality \in Nat /\ account.generation \in Nat

(* A caller that reports success has had its request carried out: a LiDAR asked *)
(* to stand by has stood by, and one asked to slow down has slowed down, although  *)
(* others move it, answers get late, it may answer that it is still on its way,     *)
(* and it may keep its speed.                                                        *)
SuccessMeansDone == \A c \in Callers : at[c] = "ok" => c \in carried

(* A step that sends positions or saves the configuration respects the others. *)
Agreed ==
  /\ rtk' \notin {rtk, "stopped"} =>
       \E c \in Callers : /\ sent[c] = "underway" /\ task[c].kind = "start" /\ task[c].consent
                          /\ read[c].account.endpoint = rtk'
  /\ quality' >= quality

(* Positions are only ever sent to an endpoint that was shown to a user who      *)
(* agreed, although another program may save an account between the display and  *)
(* the start command, or between the command and its execution; and saving the    *)
(* frame rate never puts back a field that somebody else saved after the           *)
(* configuration was read (quality counts those saves).                             *)
OnlyAsAgreed == [][Agreed]_devVars
=============================================================================
