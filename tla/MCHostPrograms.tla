-------------------------- MODULE MCHostPrograms --------------------------
(* Small instances of what host programs do with a device: CaptureGuard,     *)
(* RuntimeLoading, CameraControl and DeviceCommands, checked side by side.    *)
(* In a behaviour one of them runs; the others stay in one initial state.      *)
EXTENDS CaptureGuard, RuntimeLoading, CameraControl, DeviceCommands

(* The five capture programs; a library without a fault, with one, or with one *)
(* besides a table that is too short.                                           *)
Everyone  == {"usb", "network", "lidar", "rklocal", "hardware"}
AllHosts  == {"device_info", "catalogue", "linked"}
FewFaults == {{}} \cup {{f} : f \in RuntimeFields} \cup {{f, "size"} : f \in Functions}

CONSTANTS a, b

Both       == {a, b}
TwoCameras == {0, 1}
Default    == [f \in Fields |->
  CASE f = "min_rows" -> 3 [] f = "max_rows" -> 4096 [] f = "manual_rows" -> 100
    [] f = "min_gain" -> 16 [] f = "max_gain" -> 900 [] f = "manual_gain" -> 16
    [] f = "target" -> 1433 [] f = "deadband" -> 100 [] OTHER -> FALSE]
Defaults   == [i \in TwoCameras |-> Default]
Change(i, f, v) == [camera |-> i, values |-> [x \in {f} |-> v]]
FewEdits   == {Change(-1, "min_rows", 200), Change(-1, "max_rows", 2000), Change(1, "manual_rows", 300),
               Change(0, "manual_rows", 4096), Change(1, "min_rows", 50)}

FewTasks ==
  {[kind |-> "power", model |-> 2, timeout |-> 1, value |-> v] : v \in {"running", "standby"}}
  \cup {[kind |-> "power", model |-> 4, timeout |-> 1, value |-> "running"],
        [kind |-> "power", model |-> 1, timeout |-> 30001, value |-> "running"],
        [kind |-> "speed", model |-> 2, timeout |-> 10000, value |-> "low"],
        [kind |-> "speed", model |-> 2, timeout |-> 1, value |-> "normal"]}
  \cup {[kind |-> "fps", value |-> n, consent |-> TRUE] : n \in {0, 1, 31}}
  \cup {[kind |-> "exposure", fps |-> 30, value |-> v] : v \in {28333, 28334}}
  \cup {[kind |-> "save", value |-> e, port |-> 65535] : e \in {"here", "there"}}
  \cup {[kind |-> "start", consent |-> v] : v \in BOOLEAN} \cup {[kind |-> "stop"]}
  \cup {[kind |-> "upgrade", consent |-> TRUE, streaming |-> v] : v \in BOOLEAN}
  \cup {[kind |-> "clock", consent |-> FALSE, streaming |-> FALSE], [kind |-> "offset", streaming |-> TRUE]}
  \cup {[kind |-> "limits", min_us |-> 50, max_us |-> 995000, min_gain |-> 1024, max_gain |-> g] : g \in {126976, 126977}}

NoCapture == Init /\ program = "usb" /\ device = "idle" /\ UNCHANGED vars
NoLoading == LoadInit /\ UNCHANGED loadVars
NoControl == CtlInit /\ UNCHANGED ctlVars
NoCommand == DevInit /\ UNCHANGED devVars

MCInit == Init /\ LoadInit /\ CtlInit /\ DevInit
MCNext ==
  \/ NoLoading /\ NoControl /\ NoCommand /\ Next
  \/ NoCapture /\ NoControl /\ NoCommand /\ LoadNext
  \/ NoCapture /\ NoLoading /\ NoCommand /\ CtlNext
  \/ NoCapture /\ NoLoading /\ NoControl /\ DevNext
MCSpec == MCInit /\ [][MCNext]_<<vars, loadVars, ctlVars, devVars>>

(* The type invariants of the four. *)
HostTypesOK == TypeOK /\ LoadTypeOK /\ CtlTypeOK /\ DevTypeOK
=============================================================================
