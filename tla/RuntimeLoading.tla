--------------------------- MODULE RuntimeLoading ---------------------------
(***************************************************************************)
(* The life of the runtime library and of the client in a host program:    *)
(* run of examples/device/device_info_time_sync.cpp, which loads the       *)
(* library on Windows and is linked to it elsewhere, and main of           *)
(* examples/windows/windows_runtime_api_examples.cpp, the catalogue that   *)
(* validates the whole table.                                              *)
(*                                                                         *)
(* A library is the set of its faults: the entry point, table, version or  *)
(* function pointer that is missing or wrong.  Reading past a fault,       *)
(* calling a null pointer and calling a library that was freed end in      *)
(* "crashed".  Any call into the library that is not noexcept may throw;   *)
(* the exception is an object of the library, and so are its what() and    *)
(* its destructor.  A library that was freed may still be mapped or not.   *)
(***************************************************************************)
EXTENDS Integers, Sequences

CONSTANTS
  Hosts,     \* of "device_info", "catalogue" and "linked"
  Faults     \* the sets of faults a library may have

(* The functions the programs call, and one that stands for all the others. *)
Functions ==
  {"client_create", "client_destroy", "enumerate", "open_device", "hello", "device_info",
   "device_versions", "stream_transfer_active", "synchronize_system_time",
   "usb_link_speed_name", "sensor_board_error_code_name", "others"}
Extensions == {"camera_control", "dataset", "rtk_module_control", "network"}
RuntimeFields == {"entry", "table", "abi", "size", "sdk_version", "msvc"} \cup Functions \cup Extensions

ASSUME LoadAssumption ==
  Hosts \subseteq {"device_info", "catalogue", "linked"} /\ Faults \subseteq SUBSET RuntimeFields

VARIABLES
  host,     \* the program, whether it shall synchronize, and the library's faults
  stage,    \* where it is
  step,     \* how many checks, or calls, it has done
  refs,     \* loads minus frees of the library
  module,   \* RuntimeModule::module_, whether it is set
  client,   \* RuntimeClient: "none", "live", "destroyed"
  error,    \* the exception on its way to main: of the "library", the "program", or "none"
  code,     \* exit code
  clock     \* what became of the synchronization: "untouched", "verified", "unverified"

loadVars == <<host, stage, step, refs, module, client, error, code, clock>>

(* The checks of the constructor in their order; each reads some fields. *)
Header == <<{"entry"}, {"table"}, {"abi"}, {"size"}, {"sdk_version"}, {"msvc"}>>
Checks(program) ==
  CASE program = "linked"      -> <<{"sdk_version"}>>
    [] program = "device_info" -> Append(Header, Functions \ {"others"})
    [] program = "catalogue"   ->
         Header \o <<Functions, {"camera_control"}, {"dataset"}, {"rtk_module_control"}, {"network"}>>

(* The calls of run once the library is checked, in their order. *)
Calls ==
  <<"enumerate", "client_create", "open_device", "hello", "device_versions", "device_info",
    "usb_link_speed_name", "sensor_board_error_code_name",
    "stream_transfer_active", "synchronize_system_time">>

(* What has to be there for a field to be read. *)
Behind(field) ==
  CASE field \in {"entry"} \cup Extensions -> {}
    [] field = "table" -> {"entry"}
    [] field = "abi"   -> {"entry", "table"}
    [] field = "size"  -> {"entry", "table", "abi"}
    [] OTHER           -> {"entry", "table", "abi", "size"}

Linked            == host.program = "linked"
Readable(fields)  == Linked \/ (refs = 1 /\ \A f \in fields : Behind(f) \cap host.faults = {})
Callable(f)       == Linked \/ (Readable({f}) /\ {f, "sdk_version", "msvc"} \cap host.faults = {})
Fault(fields)     == fields \cap host.faults # {}

(* The call after the last one done, and the last of all.  The linked program's *)
(* Client::open creates the client, too.                                           *)
Following == IF Linked /\ step = 1 THEN 3 ELSE step + 1
LastCall  == IF host.synchronize THEN 10 ELSE 8

LoadTypeOK ==
  /\ host = <<>> \/ host \in [program : Hosts, synchronize : BOOLEAN, faults : Faults]
  /\ stage \in {"idle", "loading", "checking", "calling", "closing", "freeing", "handling",
               "ended", "crashed", "lost"}
  /\ step \in 0 .. 11 /\ refs \in {0, 1} /\ module \in BOOLEAN
  /\ client \in {"none", "live", "destroyed"} /\ error \in {"none", "library", "program"} /\ code \in {0, 1, 3}
  /\ clock \in {"untouched", "verified", "unverified"}

LoadInit ==
  /\ host = <<>> /\ stage = "idle" /\ step = 0 /\ refs = 0 /\ module = FALSE
  /\ client = "none" /\ error = "none" /\ code = 0 /\ clock = "untouched"

(* Leave run with an exit code; the destructors run on every way out. *)
Leave(c) == stage' = "closing" /\ code' = c

(* An exception of the program itself, with nothing to destroy, on its way to main. *)
Fail == stage' = "handling" /\ error' = "program" /\ code' = 1

-----------------------------------------------------------------------------
Start ==
  /\ stage = "idle"
  /\ \E p \in Hosts, s \in BOOLEAN, f \in Faults :
       host' = [program |-> p, synchronize |-> s /\ p # "catalogue", faults |-> f]
  /\ stage' = "loading"
  /\ UNCHANGED <<step, refs, module, client, error, code, clock>>

(* LoadLibraryExW beside the executable. *)
Load ==
  /\ stage = "loading"
  /\ \/ /\ refs' = (IF Linked THEN 0 ELSE 1)
        /\ stage' = "checking" /\ UNCHANGED <<error, code>>
     \/ ~Linked /\ Fail /\ UNCHANGED refs
  /\ UNCHANGED <<host, step, module, client, clock>>

(* Mutant: the destructor of the module runs for a failed constructor, too. *)
RejectAndDestroy ==
  /\ refs' = (IF Linked THEN 0 ELSE refs - 1)
  /\ stage' = "freeing" /\ error' = "program" /\ code' = 1 /\ UNCHANGED <<step, module>>

(* The constructor's catch frees the library; module_ does not matter, since  *)
(* no destructor runs for an object whose constructor threw.                   *)
Reject ==
  /\ refs' = (IF Linked THEN 0 ELSE refs - 1)
  /\ Fail /\ UNCHANGED <<step, module>>

(* One check passes.  The catalogue sets module_ before the last of them. *)
Pass ==
  LET all == Len(Checks(host.program)) IN
  /\ step' = (IF step + 1 = all THEN 0 ELSE step + 1)
  /\ module' = (~Linked /\ (module \/ step + 1 = all \/ (host.program = "catalogue" /\ step + 1 = all - 1)))
  /\ IF step + 1 < all THEN UNCHANGED <<stage, code>>
     ELSE IF host.program = "catalogue" THEN Leave(0)  \* the functions are validated once more
     ELSE stage' = "calling" /\ UNCHANGED code
  /\ UNCHANGED <<refs, error>>

Crash == stage' = "crashed" /\ UNCHANGED <<step, refs, module, client, error, code, clock>>

Check ==
  LET fields == Checks(host.program)[step + 1] IN
  /\ stage = "checking"
  /\ IF ~Readable(fields) THEN Crash
     ELSE (IF Fault(fields) THEN Reject ELSE Pass) /\ UNCHANGED <<client, clock>>
  /\ UNCHANGED host

(* A call that returns; the last one decides the exit code. *)
Returns(f) ==
  /\ step' = Following
  /\ client' = (IF f \in {"client_create", "open_device"} THEN "live" ELSE client)
  /\ clock' \in (IF f = "synchronize_system_time" THEN {"verified", "unverified"} ELSE {clock})
  /\ IF Following < LastCall THEN UNCHANGED <<stage, code>>
     ELSE Leave(IF clock' = "unverified" THEN 3 ELSE 0)
  /\ UNCHANGED error

(* An exception of the call, or, of the program, no device, no client, or a *)
(* stream that is active; stream_transfer_active itself is noexcept.          *)
Throws(f) ==
  /\ f \notin {"usb_link_speed_name", "sensor_board_error_code_name"}
  /\ \/ error' = "library" /\ f # "stream_transfer_active"
     \/ error' = "program" /\ f \in {"enumerate", "client_create", "stream_transfer_active"}
  /\ Leave(1)
  /\ UNCHANGED <<step, client>>
  /\ clock' \in (IF f = "synchronize_system_time" THEN {"untouched", "unverified"} ELSE {clock})

Call ==
  LET f == Calls[Following] IN
  /\ stage = "calling"
  /\ IF ~Callable(f) THEN Crash
     ELSE (Returns(f) \/ Throws(f)) /\ UNCHANGED <<refs, module>>
  /\ UNCHANGED host

(* Mutant: the library is freed before the client is destroyed. *)
DestroyAfterFree ==
  /\ stage = "closing"
  /\ refs' = (IF module THEN refs - 1 ELSE refs)
  /\ IF client = "live" /\ ~Linked /\ refs' # 1 THEN stage' = "crashed" /\ UNCHANGED client
     ELSE /\ stage' = (IF error = "none" THEN "ended" ELSE "handling")
          /\ client' = (IF client = "live" THEN "destroyed" ELSE client)
  /\ UNCHANGED <<host, step, module, error, code, clock>>

(* ~RuntimeClient, or ~Client of the linked program. *)
Destroy ==
  /\ stage = "closing"
  /\ IF client # "live" THEN stage' = "freeing" /\ UNCHANGED client
     ELSE IF ~Callable("client_destroy") THEN stage' = "crashed" /\ UNCHANGED client
     ELSE stage' = "freeing" /\ client' = "destroyed"
  /\ UNCHANGED <<host, step, refs, module, error, code, clock>>

(* ~RuntimeModule *)
Free ==
  /\ stage = "freeing"
  /\ refs' = (IF module THEN refs - 1 ELSE refs)
  /\ stage' = (IF error = "none" THEN "ended" ELSE "handling")
  /\ UNCHANGED <<host, step, module, client, error, code, clock>>

(* The handler of main prints what() and destroys the exception.  An exception *)
(* of a library that was freed ends the program, if the library is unmapped.     *)
Handle ==
  /\ stage = "handling"
  /\ \/ stage' = "ended" /\ error' = "none"
     \/ error = "library" /\ ~Linked /\ refs = 0 /\ stage' = "lost" /\ UNCHANGED error
  /\ UNCHANGED <<host, step, refs, module, client, code, clock>>

LoadNext == Start \/ Load \/ Check \/ Call \/ Destroy \/ Free \/ Handle

LoadSpec == LoadInit /\ [][LoadNext]_loadVars

-----------------------------------------------------------------------------
(* Properties *)

(* No program reads past the end of a table of another version, calls a null  *)
(* pointer, or calls into a library that it has freed, its client's destructor *)
(* included, whatever the library lacks and whichever call throws.  (The use    *)
(* main's handler makes of the exception is LibraryOutlivesItsObjects'.)         *)
NothingDangling == stage # "crashed"

(* "Keep the DLL loaded until all SDK-returned objects and the Client have been *)
(* destroyed": while there is a client, or an exception that the library has      *)
(* thrown, the library is loaded.                                                  *)
LibraryOutlivesItsObjects ==
  stage # "idle" /\ ~Linked /\ (client = "live" \/ error = "library") => refs = 1

(* The library is freed exactly as often as it was loaded when the program     *)
(* ends: the constructor's catch and the destructor, which both free it, never    *)
(* both run, although the catalogue sets module_ before its last check.  Success  *)
(* is reported only with a library that has everything the program checks for,     *)
(* and, if the clock was to be set, after it was verified.                          *)
EndsClean ==
  stage = "ended" =>
    /\ refs = 0 /\ client # "live"
    /\ code = 0 => /\ \A i \in DOMAIN Checks(host.program) : ~Fault(Checks(host.program)[i])
                   /\ host.synchronize => clock = "verified"
=============================================================================
