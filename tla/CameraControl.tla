--------------------------- MODULE CameraControl ---------------------------
(***************************************************************************)
(* The native camera controls of include/prism/usb/camera_control.hpp:     *)
(* settings that all four cameras share and manual values of each, which   *)
(* several clients read, change and write back through the Agent, staged   *)
(* while it is idle or sent while a capture runs                           *)
(* (examples/api/configuration_api_examples.cpp).                          *)
(*                                                                         *)
(* The codecs and the Agent are binaries; camera_control.hpp says of them  *)
(* that a write carries the epoch and revision of the status it was made   *)
(* from and is taken only if both are still the Agent's, and that an       *)
(* uncertain answer is followed by a new read, never by the same write.    *)
(***************************************************************************)
EXTENDS Integers

CONSTANTS
  Writers,      \* connections
  Cameras,      \* their indices, 0 among them
  FirstConfig,  \* the settings the Agent starts with
  Edits,        \* changes: of some global settings, or of one camera's manual values
  NoStatus,     \* nothing is known of the Agent's settings
  MaxWrites, MaxEpoch   \* bounds of the runs

VARIABLES
  epoch, revision, requested,  \* the Agent's
  known,    \* writer -> the last status it read
  pending,  \* writer -> number of its outstanding write, 0 if none
  wire,     \* requests and replies under way
  writes,   \* history: number of writes sent
  done,     \* history: writes the Agent carried out
  verdict   \* history: writer -> <<number, what it was told>> of its last answer

ctlVars == <<epoch, revision, requested, known, pending, wire, writes, done, verdict>>

GlobalFields == {"min_rows", "max_rows", "min_gain", "max_gain", "target", "deadband",
                 "automatic_exposure", "automatic_gain"}
Fields == GlobalFields \cup {"manual_rows", "manual_gain"}

ValidCameraRowGainConfig(c) ==
  /\ c["min_rows"] >= 3 /\ c["max_rows"] <= 4096
  /\ c["min_rows"] <= c["manual_rows"] /\ c["manual_rows"] <= c["max_rows"]
  /\ c["min_gain"] >= 16 /\ c["max_gain"] <= 900
  /\ c["min_gain"] <= c["manual_gain"] /\ c["manual_gain"] <= c["max_gain"]
  /\ c["target"] >= 1 /\ c["deadband"] < c["target"] /\ c["target"] + c["deadband"] <= 4095

SharedGlobals(v) == \A i \in Cameras : \A f \in GlobalFields : v[i][f] = v[0][f]

(* cameraControlGlobals: the settings all cameras share. *)
Globals(v) == [f \in GlobalFields |-> v[0][f]]

(* withCameraControlGlobals: the globals in all cameras, manual values kept. *)
WithGlobals(v, g) == [i \in Cameras |-> [f \in Fields |-> IF f \in GlobalFields THEN g[f] ELSE v[i][f]]]

(* The configuration an application makes of the status it has read: new values *)
(* of some globals, or manual values of one camera.                              *)
Changed(v, e) ==
  IF e.camera = -1
  THEN WithGlobals(v, [f \in GlobalFields |-> IF f \in DOMAIN e.values THEN e.values[f] ELSE Globals(v)[f]])
  ELSE [v EXCEPT ![e.camera] = [f \in Fields |-> IF f \in DOMAIN e.values THEN e.values[f] ELSE @[f]]]

(* Whether the whole request is sent: withCameraControlGlobals throws if one *)
(* camera's manual values do not fit, the payload's maker if copies differ.     *)
Sendable(v) == SharedGlobals(v) /\ \A i \in Cameras : ValidCameraRowGainConfig(v[i])

(* Cameras are numbered from 0, an edit of all cameras is one of global settings, *)
(* and the Agent starts with settings that it could have been sent.                *)
ASSUME ControlAssumption ==
  /\ 0 \in Cameras /\ -1 \notin Cameras
  /\ \A e \in Edits : e.camera \in Cameras \/ (e.camera = -1 /\ DOMAIN e.values \subseteq GlobalFields)
  /\ Sendable(FirstConfig) /\ FirstConfig = [i \in Cameras |-> FirstConfig[i]]

CtlInit ==
  /\ epoch = 1 /\ revision = 0 /\ requested = FirstConfig
  /\ known = [w \in Writers |-> NoStatus] /\ pending = [w \in Writers |-> 0]
  /\ wire = {} /\ writes = 0 /\ done = {} /\ verdict = [w \in Writers |-> <<0, "nothing">>]

Status == [epoch |-> epoch, revision |-> revision, requested |-> requested]

-----------------------------------------------------------------------------
(* cameraControlIdle, or a GET of the running capture: nothing is outstanding. *)
Get(w) ==
  /\ pending[w] = 0
  /\ known' = [known EXCEPT ![w] = Status]
  /\ UNCHANGED <<epoch, revision, requested, pending, wire, writes, done, verdict>>

(* Mutant: the write takes the revision that is current when it is sent. *)
SetAtNewest(w, e) ==
  /\ pending[w] = 0 /\ known[w] # NoStatus /\ writes < MaxWrites
  /\ Sendable(Changed(known[w].requested, e))
  /\ writes' = writes + 1 /\ pending' = [pending EXCEPT ![w] = writes + 1]
  /\ wire' = wire \cup {[to |-> "agent", id |-> writes + 1, from |-> w, edit |-> e,
                          status |-> [Status EXCEPT !.requested = Changed(known[w].requested, e)]]}
  /\ UNCHANGED <<epoch, revision, requested, known, done, verdict>>

(* stageCameraControlIdle(current, config), beginCameraControlSet(current,      *)
(* config): one write at a time, of the whole configuration, with the epoch and  *)
(* revision of the status it was made from.                                       *)
Set(w, e) ==
  /\ pending[w] = 0 /\ known[w] # NoStatus /\ writes < MaxWrites
  /\ Sendable(Changed(known[w].requested, e))
  /\ writes' = writes + 1 /\ pending' = [pending EXCEPT ![w] = writes + 1]
  /\ wire' = wire \cup {[to |-> "agent", id |-> writes + 1, from |-> w, edit |-> e,
                          status |-> [known[w] EXCEPT !.requested = Changed(@, e)]]}
  /\ UNCHANGED <<epoch, revision, requested, known, done, verdict>>

(* The Agent takes the write if nobody changed anything since it was made. *)
Serve(m) ==
  LET fits == m.status.epoch = epoch /\ m.status.revision = revision IN
  /\ m.to = "agent"
  /\ revision' = (IF fits THEN revision + 1 ELSE revision)
  /\ requested' = (IF fits THEN m.status.requested ELSE requested)
  /\ done' = (IF fits THEN done \cup {m.id} ELSE done)
  /\ wire' = (wire \ {m}) \cup
       {[to |-> "writer", id |-> m.id, from |-> m.from, edit |-> m.edit, taken |-> fits,
         status |-> [epoch |-> epoch, revision |-> revision', requested |-> requested']]}
  /\ UNCHANGED <<epoch, known, pending, writes, verdict>>

(* Mutant: a late answer to an earlier write settles the outstanding one. *)
FinishByAny(m) ==
  /\ m.to = "writer" /\ pending[m.from] # 0
  /\ pending' = [pending EXCEPT ![m.from] = 0]
  /\ known' = [known EXCEPT ![m.from] = IF m.taken THEN m.status ELSE NoStatus]
  /\ verdict' = [verdict EXCEPT ![m.from] = <<pending[m.from], IF m.taken THEN "taken" ELSE "refused">>]
  /\ wire' = wire \ {m}
  /\ UNCHANGED <<epoch, revision, requested, writes, done>>

(* finishCameraControl, or the answer of a staging call; a refused write is *)
(* followed by a new read.                                                     *)
Finish(m) ==
  /\ m.to = "writer" /\ pending[m.from] = m.id
  /\ pending' = [pending EXCEPT ![m.from] = 0]
  /\ known' = [known EXCEPT ![m.from] = IF m.taken THEN m.status ELSE NoStatus]
  /\ verdict' = [verdict EXCEPT ![m.from] = <<m.id, IF m.taken THEN "taken" ELSE "refused">>]
  /\ wire' = wire \ {m}
  /\ UNCHANGED <<epoch, revision, requested, writes, done>>

(* A timeout or a bad answer: the connection is closed and opened again; what *)
(* was sent may still reach the Agent, its answer nobody.                        *)
Close(w) ==
  /\ pending[w] # 0
  /\ pending' = [pending EXCEPT ![w] = 0]
  /\ known' = [known EXCEPT ![w] = NoStatus]
  /\ UNCHANGED <<epoch, revision, requested, wire, writes, done, verdict>>

Lose(m) ==
  /\ wire' = wire \ {m}
  /\ UNCHANGED <<epoch, revision, requested, known, pending, writes, done, verdict>>

(* A restart, which forgets the settings, or the start or the end of a capture. *)
NewEpoch ==
  /\ epoch < MaxEpoch
  /\ epoch' = epoch + 1 /\ revision' = 0
  /\ requested' \in {requested, FirstConfig}
  /\ UNCHANGED <<known, pending, wire, writes, done, verdict>>

CtlNext ==
  \/ \E w \in Writers : Get(w) \/ Close(w) \/ \E e \in Edits : Set(w, e)
  \/ \E m \in wire : Serve(m) \/ Finish(m) \/ Lose(m)
  \/ NewEpoch

CtlSpec == CtlInit /\ [][CtlNext]_ctlVars

-----------------------------------------------------------------------------
(* Properties *)

(* Besides types: the Agent never holds settings that differ between the cameras *)
(* where they must agree, or leave a camera's manual values outside the bounds.     *)
CtlTypeOK ==
  /\ SharedGlobals(requested) /\ \A i \in Cameras : ValidCameraRowGainConfig(requested[i])
  /\ epoch \in Nat /\ revision \in Nat /\ writes \in Nat
  /\ done \subseteq 1 .. writes /\ pending \in [Writers -> 0 .. writes]

(* No update is lost: within an epoch the settings change only by one writer's   *)
(* change applied to the settings it replaces; nothing another writer had set     *)
(* meanwhile is undone, and no manual value moves with the bounds.                 *)
Applies(e, old, new) ==
  \A i \in Cameras : \A f \in Fields :
    new[i][f] = IF f \in DOMAIN e.values /\ e.camera \in {-1, i} THEN e.values[f] ELSE old[i][f]
NoLostUpdate ==
  [][requested' # requested /\ epoch' = epoch => \E m \in wire : Applies(m.edit, requested, requested')]_ctlVars

(* What a writer was told of its write is so: it was carried out, or it was not *)
(* and will not be, although the request or the answer may have been lost and the *)
(* Agent restarted.                                                                *)
VerdictTrue ==
  \A w \in Writers : LET v == verdict[w] IN
    /\ v[2] = "taken" => v[1] \in done
    /\ v[2] = "refused" => v[1] \notin done
=============================================================================
