-------------------------- MODULE HostProgramsProofs -------------------------
(***************************************************************************)
(* Proofs about the programs of a host, for any callers, hosts, libraries  *)
(* and sets of programs: DeviceCommands, RuntimeLoading and CaptureGuard,  *)
(* one after the other.  They share no state.                              *)
(***************************************************************************)
EXTENDS DeviceCommands, RuntimeLoading, CaptureGuard, TLAPS

-----------------------------------------------------------------------------
(***************************************************************************)
(* Proofs about DeviceCommands, for any callers, tasks and number of saves *)
(* by others.  A caller reports what an answer says, so AnswersTrue says   *)
(* what an answer means; what a user agreed to is bound by the generation  *)
(* of an account, so AccountsKnown says that a generation, once shown,     *)
(* belongs to one account.                                                 *)
(***************************************************************************)

(* An answer that confirms what was asked for is one of a request carried out. *)
AnswersTrue ==
  \A c \in Callers :
    /\ sent[c] = "answered" /\ Confirms(c) => c \in carried
    /\ sent[c] = "moving" => task[c].kind = "power"
    /\ at[c] = "ok" => c \in carried
    /\ at[c] \in {"idle", "read", "write"} => sent[c] = "no"

(* What a request is sent for was permitted, and a start is for the account shown. *)
Shown(c) == /\ read[c].account.generation \in Nat
            /\ read[c].account.generation <= account.generation
            /\ read[c].account.generation = account.generation => read[c].account = account
AccountsKnown ==
  /\ account.generation \in Nat
  /\ \A c \in Callers :
       /\ at[c] \in {"read", "write"} \/ sent[c] = "underway" => Permitted(task[c])
       /\ (at[c] = "write" \/ sent[c] = "underway") /\ task[c].kind = "start" => Shown(c)

Shapes ==
  /\ DOMAIN task = Callers /\ DOMAIN at = Callers /\ DOMAIN read = Callers
  /\ DOMAIN sent = Callers /\ DOMAIN answer = Callers /\ quality \in Nat

DevInv == Shapes /\ AnswersTrue /\ AccountsKnown

LEMMA DevStart == DevInit => DevInv
  BY DEF DevInit, DevInv, Shapes, AnswersTrue, AccountsKnown

LEMMA DevStep == DevInv /\ [DevNext]_devVars => DevInv'
<1> SUFFICES ASSUME DevInv, [DevNext]_devVars PROVE DevInv'
  OBVIOUS
<1> USE DEF DevInv, agentVars
<1>1. ASSUME NEW c \in Callers, Accept(c) PROVE DevInv'
  <2>1. PICK t \in Tasks :
          /\ task' = [task EXCEPT ![c] = t]
          /\ at' = [at EXCEPT ![c] = IF ~Permitted(t) THEN "failed" ELSE IF ReadsFirst(t) THEN "read" ELSE "write"]
    BY <1>1 DEF Accept
  <2>2. /\ at[c] = "idle" /\ UNCHANGED <<agentVars, read, sent, answer>>
        /\ ReadsFirst(t) \/ ~ReadsFirst(t)
    BY <1>1 DEF Accept
  <2>3. Shapes'
    BY <2>1, <2>2 DEF Shapes
  <2>4. /\ \A d \in Callers \ {c} : task'[d] = task[d] /\ at'[d] = at[d]
        /\ sent[c] = "no" /\ task'[c] = t /\ at'[c] \in {"failed", "read", "write"}
        /\ at'[c] \in {"read", "write"} => Permitted(t)
        /\ at'[c] = "write" => ~ReadsFirst(t)
    BY <2>1, <2>2 DEF Shapes, AnswersTrue
  <2>5. AnswersTrue'
    BY <2>2, <2>4 DEF AnswersTrue, Confirms
  <2>6. AccountsKnown'
    BY <2>2, <2>4 DEF AccountsKnown, Shown, ReadsFirst
  <2>7. QED
    BY <2>3, <2>5, <2>6
<1>2. ASSUME NEW c \in Callers, ReadFirst(c) PROVE DevInv'
  BY <1>2 DEF ReadFirst, Shapes, AnswersTrue, AccountsKnown, Shown, Confirms
<1>3. ASSUME NEW c \in Callers, Send(c) PROVE DevInv'
  BY <1>3 DEF Send, Shapes, AnswersTrue, AccountsKnown, Shown, Confirms
<1>4. ASSUME NEW c \in Callers, Return(c) PROVE DevInv'
  BY <1>4 DEF Return, Shapes, AnswersTrue, AccountsKnown, Shown, Confirms
<1>5. ASSUME NEW c \in Callers, TimeOut(c) PROVE DevInv'
  BY <1>5 DEF TimeOut, Shapes, AnswersTrue, AccountsKnown, Shown, Confirms
<1>6. ASSUME NEW c \in Callers, Carry(c) PROVE DevInv'
  <2>1. /\ UNCHANGED <<task, at, read, saves>> /\ sent[c] = "underway"
        /\ quality' = quality /\ carried \subseteq carried'
        /\ \E x \in {"moving", "answered"} : sent' = [sent EXCEPT ![c] = x]
        /\ \/ answer' = answer
           \/ \E x : answer' = [answer EXCEPT ![c] = x]
    BY <1>6, Zenon DEF Carry, FieldMask
  <2>2. account' = account \/ \E e : account' = [endpoint |-> e, generation |-> account.generation + 1]
    BY <1>6 DEF Carry
  <2>3. Shapes'
    BY <2>1 DEF Shapes
  <2>4. /\ sent'[c] = "moving" => task[c].kind = "power"
        /\ sent'[c] = "answered" =>
             c \in carried' \/ answer'[c] = "refused"
             \/ (task[c].kind = "speed" /\ answer'[c] # task[c].value)
    BY <1>6 DEF Carry, Shapes
  <2>5. /\ \A d \in Callers \ {c} : sent'[d] = sent[d] /\ answer'[d] = answer[d]
        /\ sent'[c] \in {"moving", "answered"}
    BY <2>1 DEF Shapes
  <2>6. AnswersTrue'
    BY <2>1, <2>4, <2>5 DEF AnswersTrue, Confirms
  <2>7. AccountsKnown'
    BY <2>1, <2>2, <2>5 DEF AccountsKnown, Shown
  <2>8. QED
    BY <2>3, <2>6, <2>7
<1>7. ASSUME NEW c \in Callers, Moved(c) PROVE DevInv'
  BY <1>7 DEF Moved, Shapes, AnswersTrue, AccountsKnown, Shown, Confirms
<1>8. ASSUME NEW c \in Callers, Vanish(c) PROVE DevInv'
  BY <1>8 DEF Vanish, Shapes, AnswersTrue, AccountsKnown, Shown, Confirms
<1>9. CASE OthersSave
  BY <1>9 DEF OthersSave, Shapes, AnswersTrue, AccountsKnown, Shown, Confirms
<1>10. CASE Arrive
  BY <1>10 DEF Arrive, Shapes, AnswersTrue, AccountsKnown, Shown, Confirms
<1>11. CASE UNCHANGED devVars
  BY <1>11 DEF devVars, Shapes, AnswersTrue, AccountsKnown, Shown, Confirms
<1>12. QED
  BY <1>1, <1>2, <1>3, <1>4, <1>5, <1>6, <1>7, <1>8, <1>9, <1>10, <1>11 DEF DevNext

(* A caller that reports success has had its request carried out *)
(* (lidarPowerCommand, lidarSpeedCommand, saveDeviceConfiguration).  *)
THEOREM ReportedIsDone == DevSpec => []SuccessMeansDone
<1>1. DevInv => SuccessMeansDone
  BY DEF DevInv, AnswersTrue, SuccessMeansDone
<1>2. QED
  BY DevStart, DevStep, <1>1, PTL DEF DevSpec

(* What a caller was asked to do is one of the tasks, once it is sent. *)
Given == \A c \in Callers : at[c] # "idle" \/ sent[c] # "no" => task[c] \in Tasks

(* Types: a LiDAR is in a state it was asked for, moving or failed, and a saved  *)
(* frame rate is a supported one, whoever asks and whenever a request is carried   *)
(* out (lidar_power.hpp, configuration_api_examples.cpp).                            *)
THEOREM DevTypes == DevSpec => []DevTypeOK
<1> DEFINE Types == DevTypeOK /\ Given
<1>1. DevInit => Types
  BY DEF DevInit, DevTypeOK, Given
<1>2. DevInv /\ Types /\ [DevNext]_devVars => Types'
  <2> SUFFICES ASSUME DevInv, DevTypeOK, Given, [DevNext]_devVars PROVE Types'
    OBVIOUS
  <2> USE DEF agentVars
  <2>0. Shapes /\ AnswersTrue /\ AccountsKnown
    BY DEF DevInv
  <2>1. ASSUME NEW c \in Callers, Accept(c) PROVE Types'
    <3>1. PICK t \in Tasks :
            /\ task' = [task EXCEPT ![c] = t]
            /\ at' = [at EXCEPT ![c] = IF ~Permitted(t) THEN "failed" ELSE IF ReadsFirst(t) THEN "read" ELSE "write"]
      BY <2>1 DEF Accept
    <3>2. UNCHANGED <<agentVars, read, sent, answer>>
      BY <2>1 DEF Accept
    <3>3. /\ \A d \in Callers \ {c} : task'[d] = task[d] /\ at'[d] = at[d]
          /\ task'[c] = t /\ at'[c] \in {"failed", "read", "write"}
      BY <2>0, <3>1 DEF Shapes
    <3>4. QED
      BY <3>2, <3>3 DEF DevTypeOK, Given
  <2>2. ASSUME NEW c \in Callers, ReadFirst(c) \/ Send(c) \/ Return(c) \/ TimeOut(c) \/ Vanish(c) PROVE Types'
    <3>1. UNCHANGED <<motor, speed, fps, quality, account, task>> /\ at[c] # "idle"
      BY <2>2 DEF ReadFirst, Send, Return, TimeOut, Vanish
    <3>2. /\ at' = at \/ \E x \in {"write", "waiting", "ok", "failed"} : at' = [at EXCEPT ![c] = x]
          /\ sent' = sent \/ \E x \in {"no", "underway"} : sent' = [sent EXCEPT ![c] = x]
      BY <2>2 DEF ReadFirst, Send, Return, TimeOut, Vanish
    <3>3. /\ \A d \in Callers \ {c} : at'[d] = at[d] /\ sent'[d] = sent[d]
          /\ at'[c] \in {at[c], "write", "waiting", "ok", "failed"} /\ sent'[c] \in {sent[c], "no", "underway"}
      BY <2>0, <3>2 DEF Shapes
    <3>4. QED
      BY <3>1, <3>3 DEF DevTypeOK, Given
  <2>3. ASSUME NEW c \in Callers, Carry(c) PROVE Types'
    <3>1. UNCHANGED <<task, at>> /\ quality' = quality /\ sent[c] = "underway"
      BY <2>3 DEF Carry, FieldMask
    <3>2. motor' \in {motor, "transitioning"}
      BY <2>3 DEF Carry
    <3>3. \E x \in {"moving", "answered"} : sent' = [sent EXCEPT ![c] = x]
      BY <2>3 DEF Carry
    <3>4. account' = account \/ \E e : account' = [endpoint |-> e, generation |-> account.generation + 1]
      BY <2>3 DEF Carry
    <3>5. fps' \in 1 .. 30
      <4>1. task[c] \in Tasks /\ Permitted(task[c])
        BY <2>0, <3>1 DEF Given, AccountsKnown
      <4>2. task[c].kind = "fps" => task[c].value \in 1 .. 30
        BY <4>1, TaskAssumption DEF Permitted, CameraFpsSupported
      <4>3. fps' = fps \/ (task[c].kind = "fps" /\ fps' = task[c].value)
        BY <2>3 DEF Carry
      <4>4. QED
        BY <4>2, <4>3 DEF DevTypeOK
    <3>6. \A d \in Callers : sent'[d] \in {sent[d], "moving", "answered"} /\ (d # c => sent'[d] = sent[d])
      BY <2>0, <3>3 DEF Shapes
    <3>7. speed' \in {"normal", "low"}
      <4>1. task[c] \in Tasks
        BY <3>1 DEF Given
      <4>2. task[c].kind = "speed" => task[c].value \in {"normal", "low"}
        BY <4>1, TaskAssumption
      <4>3. speed' = speed \/ (task[c].kind = "speed" /\ speed' = task[c].value)
        BY <2>3 DEF Carry
      <4>4. QED
        BY <4>2, <4>3 DEF DevTypeOK
    <3>8. QED
      BY <3>1, <3>2, <3>4, <3>5, <3>6, <3>7 DEF DevTypeOK, Given
  <2>4. ASSUME NEW c \in Callers, Moved(c) PROVE Types'
    <3>1. UNCHANGED <<task, at, speed, fps, quality, account>> /\ sent[c] = "moving"
      BY <2>4 DEF Moved
    <3>2. motor' \in {"running", "standby", "transitioning", "error"}
      <4>1. task[c] \in Tasks /\ task[c].kind = "power"
        BY <2>0, <3>1 DEF Given, AnswersTrue
      <4>2. QED
        BY <2>4, <4>1, TaskAssumption DEF Moved
    <3>3. \A d \in Callers : sent'[d] \in {sent[d], "answered"} /\ (d # c => sent'[d] = sent[d])
      BY <2>0, <2>4 DEF Moved, Shapes
    <3>4. QED
      BY <3>1, <3>2, <3>3 DEF DevTypeOK, Given
  <2>5. CASE OthersSave
    BY <2>5 DEF OthersSave, DevTypeOK, Given
  <2>6. CASE Arrive
    BY <2>6 DEF Arrive, DevTypeOK, Given
  <2>7. CASE UNCHANGED devVars
    BY <2>7 DEF devVars, DevTypeOK, Given
  <2>8. QED
    BY <2>1, <2>2, <2>3, <2>4, <2>5, <2>6, <2>7 DEF DevNext
<1>3. QED
  BY DevStart, DevStep, <1>1, <1>2, PTL DEF DevSpec

(* Positions are sent only to an endpoint that was shown to a user who agreed *)
(* (rtk_module_control.cpp), and no save puts back another program's field       *)
(* (saveCameraFps).                                                                *)
THEOREM OnlyTheAgreed == DevSpec => OnlyAsAgreed
<1>1. ASSUME DevInv, DevNext PROVE Agreed
  <2>1. ASSUME NEW c \in Callers, Carry(c) PROVE Agreed
    <3>1. quality' = quality /\ quality \in Nat
      BY <1>1, <2>1 DEF Carry, FieldMask, DevInv, Shapes
    <3>2. ASSUME rtk' \notin {rtk, "stopped"}
          PROVE  /\ sent[c] = "underway" /\ task[c].kind = "start" /\ task[c].consent
                 /\ read[c].account.endpoint = rtk'
      <4>1. /\ task[c].kind = "start" /\ sent[c] = "underway"
            /\ ExpectedGeneration(c) = account.generation /\ rtk' = account.endpoint
        BY <2>1, <3>2 DEF Carry
      <4>2. Permitted(task[c]) /\ Shown(c)
        BY <1>1, <4>1 DEF DevInv, AccountsKnown
      <4>3. QED
        BY <4>1, <4>2 DEF Permitted, Shown, ExpectedGeneration
    <3>3. QED
      BY <3>1, <3>2 DEF Agreed
  <2>2. CASE OthersSave
    BY <1>1, <2>2 DEF Agreed, OthersSave, DevInv, Shapes
  <2>3. ASSUME UNCHANGED <<rtk, quality>> PROVE Agreed
    BY <1>1, <2>3 DEF Agreed, DevInv, Shapes
  <2>4. QED
    BY <1>1, <2>1, <2>2, <2>3
       DEF DevNext, Accept, ReadFirst, Send, Return, TimeOut, Moved, Vanish, Arrive, agentVars
<1>2. DevInv /\ [DevNext]_devVars => [Agreed]_devVars
  BY <1>1
<1>3. QED
  BY DevStart, DevStep, <1>2, PTL DEF DevSpec, OnlyAsAgreed

-----------------------------------------------------------------------------
(***************************************************************************)
(* Proofs about RuntimeLoading, for any hosts and any libraries.  What is  *)
(* read or called lies behind something else in the table, so the          *)
(* inductive invariant LoadInv keeps, besides where the program is, that   *)
(* every check done so far has passed (Passed), and ChecksInOrder says     *)
(* that this is enough for the next one.                                   *)
(***************************************************************************)

Known   == {"device_info", "catalogue", "linked"}
Loaders == {"device_info", "catalogue"}
Named == Functions \ {"others"}

(* The first n checks have passed. *)
Passed(n) == \A i \in 1 .. n : ~Fault(Checks(host.program)[i])
All       == Len(Checks(host.program))

-----------------------------------------------------------------------------
(* The lists of checks and of calls *)

LEMMA ChecksOfDevice ==
  /\ Len(Checks("device_info")) = 7
  /\ Checks("device_info")[1] = {"entry"} /\ Checks("device_info")[2] = {"table"}
  /\ Checks("device_info")[3] = {"abi"} /\ Checks("device_info")[4] = {"size"}
  /\ Checks("device_info")[5] = {"sdk_version"} /\ Checks("device_info")[6] = {"msvc"}
  /\ Checks("device_info")[7] = Named
  BY DEF Checks, Header, Named

LEMMA ChecksOfCatalogue ==
  /\ Len(Checks("catalogue")) = 11
  /\ Checks("catalogue")[1] = {"entry"} /\ Checks("catalogue")[2] = {"table"}
  /\ Checks("catalogue")[3] = {"abi"} /\ Checks("catalogue")[4] = {"size"}
  /\ Checks("catalogue")[5] = {"sdk_version"} /\ Checks("catalogue")[6] = {"msvc"}
  /\ Checks("catalogue")[7] = Functions
  /\ \A i \in 8 .. 11 : Checks("catalogue")[i] \subseteq Extensions
  BY DEF Checks, Header, Extensions

LEMMA ChecksOfLinked == Len(Checks("linked")) = 1
  BY DEF Checks

LEMMA ChecksAreLists == \A p \in Known : DOMAIN Checks(p) = 1 .. Len(Checks(p))
<1>1. Checks("linked") \in Seq(SUBSET RuntimeFields) /\ Checks("device_info") \in Seq(SUBSET RuntimeFields)
  BY DEF Checks, Header, RuntimeFields, Extensions
<1>2. Checks("catalogue") \in Seq(SUBSET RuntimeFields)
  BY DEF Checks, Header, RuntimeFields, Extensions
<1>3. QED
  BY <1>1, <1>2 DEF Known

(* What lies before a field in the library. *)
LEMMA Behinds ==
  /\ Behind("entry") = {} /\ Behind("table") = {"entry"}
  /\ Behind("abi") = {"entry", "table"} /\ Behind("size") = {"entry", "table", "abi"}
  /\ \A f \in Extensions : Behind(f) = {}
  /\ \A f \in {"sdk_version", "msvc"} \cup Functions : Behind(f) = {"entry", "table", "abi", "size"}
  BY DEF Behind, Extensions, Functions

(* A field is only read once all that lies before it has been checked. *)
LEMMA ChecksInOrder ==
  \A p \in Loaders : \A n \in 1 .. Len(Checks(p)) :
  \A f \in Checks(p)[n] : \A g \in Behind(f) :
    \E i \in 1 .. n - 1 : Checks(p)[i] = {g}
<1> SUFFICES ASSUME NEW p \in Loaders, NEW n \in 1 .. Len(Checks(p)),
                    NEW f \in Checks(p)[n], NEW g \in Behind(f)
             PROVE  \E i \in 1 .. n - 1 : Checks(p)[i] = {g}
  BY Zenon
<1> USE DEF Loaders
<1>1. n \in 1 .. 11 /\ (p = "device_info" => n <= 7)
  BY ChecksOfDevice, ChecksOfCatalogue
<1>2. CASE n = 1
  BY <1>2, ChecksOfDevice, ChecksOfCatalogue, Behinds
<1>3. CASE n = 2
  BY <1>3, ChecksOfDevice, ChecksOfCatalogue, Behinds
<1>4. CASE n = 3
  BY <1>4, ChecksOfDevice, ChecksOfCatalogue, Behinds
<1>5. CASE n = 4
  BY <1>5, ChecksOfDevice, ChecksOfCatalogue, Behinds
<1>6. CASE n \in 5 .. 7
  <2>1. f \in {"sdk_version", "msvc"} \cup Functions
    BY <1>6, ChecksOfDevice, ChecksOfCatalogue DEF Named
  <2>2. g \in {"entry", "table", "abi", "size"}
    BY <2>1, Behinds
  <2>3. /\ Checks(p)[1] = {"entry"} /\ Checks(p)[2] = {"table"}
        /\ Checks(p)[3] = {"abi"} /\ Checks(p)[4] = {"size"}
    BY ChecksOfDevice, ChecksOfCatalogue
  <2>4. 1 \in 1 .. n - 1 /\ 2 \in 1 .. n - 1 /\ 3 \in 1 .. n - 1 /\ 4 \in 1 .. n - 1
    BY <1>6
  <2>5. QED
    BY <2>2, <2>3, <2>4, Zenon
<1>7. CASE n \in 8 .. 11
  <2>1. p = "catalogue" /\ f \in Extensions
    BY <1>1, <1>7, ChecksOfCatalogue
  <2>2. QED
    BY <2>1, Behinds
<1>8. n = 1 \/ n = 2 \/ n = 3 \/ n = 4 \/ n \in 5 .. 7 \/ n \in 8 .. 11
  BY <1>1
<1>9. QED
  BY <1>2, <1>3, <1>4, <1>5, <1>6, <1>7, <1>8

LEMMA CallsNamed ==
  /\ \A i \in 1 .. 10 : Calls[i] \in Named
  /\ Calls[10] = "synchronize_system_time" /\ \A i \in 1 .. 8 : Calls[i] # "synchronize_system_time"
<1>1. \A i \in 1 .. 10 : i = 1 \/ i = 2 \/ i = 3 \/ i = 4 \/ i = 5 \/ i = 6 \/ i = 7 \/ i = 8 \/ i = 9 \/ i = 10
  OBVIOUS
<1>2. QED
  BY <1>1 DEF Calls, Named, Functions

-----------------------------------------------------------------------------
(* Where the program is *)

(* A library that is loaded is held by module_ once its constructor is done. *)
Held == ~Linked => refs = 1 /\ module = TRUE

LoadInv ==
  /\ stage \in {"idle", "loading", "checking", "calling", "closing", "freeing", "handling", "ended", "lost"}
  /\ stage \in {"idle", "loading", "checking", "calling"} => error = "none"
  /\ error = "none" \/ code = 1
  /\ stage = "idle" => step = 0 /\ refs = 0 /\ module = FALSE /\ client = "none"
  /\ stage # "idle" =>
       /\ host.program \in Known /\ (host.program = "catalogue" => host.synchronize = FALSE)
       /\ host.synchronize \in BOOLEAN
       /\ Linked => refs = 0 /\ module = FALSE
  /\ stage = "loading" => step = 0 /\ refs = 0 /\ module = FALSE /\ client = "none"
  /\ stage = "checking" =>
       /\ step \in 0 .. All - 1 /\ Passed(step) /\ client = "none"
       /\ ~Linked => refs = 1
       /\ module \in BOOLEAN /\ (module = TRUE => ~Linked)
  /\ stage = "calling" =>
       /\ host.program # "catalogue" /\ step \in 0 .. LastCall - 1 /\ Passed(All) /\ Held
  /\ stage \in {"closing", "freeing"} =>
       /\ Held /\ Passed(All)
       /\ host.program = "catalogue" => client = "none"
       /\ code = 0 => (host.synchronize => clock = "verified")
  /\ stage = "freeing" => client # "live"
  /\ stage = "handling" => error # "none"
  /\ stage \in {"handling", "ended", "lost"} =>
       /\ refs = 0 /\ client # "live"
       /\ code = 0 => Passed(All) /\ (host.synchronize => clock = "verified")

LEMMA LoadStart == LoadInit => LoadInv
  BY DEF LoadInit, LoadInv

LEMMA Alls == \A p \in Known : Len(Checks(p)) \in {1, 7, 11}
  BY ChecksOfDevice, ChecksOfCatalogue, ChecksOfLinked DEF Known

(* What the next check reads is there, once those before it have passed. *)
LEMMA FieldsBehind ==
  ASSUME NEW p \in Loaders, NEW n \in 1 .. Len(Checks(p)),
         NEW faults, \A i \in 1 .. n - 1 : Checks(p)[i] \cap faults = {}
  PROVE  \A f \in Checks(p)[n] : Behind(f) \cap faults = {}
<1> SUFFICES ASSUME NEW f \in Checks(p)[n], NEW g \in Behind(f) PROVE g \notin faults
  OBVIOUS
<1>1. PICK i \in 1 .. n - 1 : Checks(p)[i] = {g}
  BY ChecksInOrder, Zenon
<1>2. QED
  BY <1>1

LEMMA CheckReads ==
  ASSUME host.program \in Known, ~Linked => refs = 1, step \in 0 .. All - 1, Passed(step)
  PROVE  Readable(Checks(host.program)[step + 1])
<1>1. CASE Linked
  BY <1>1 DEF Readable
<1>2. CASE ~Linked
  <2>1. host.program \in Loaders /\ All \in {7, 11}
    BY <1>2, ChecksOfDevice, ChecksOfCatalogue DEF Linked, Known, Loaders, All
  <2>2. step + 1 \in 1 .. Len(Checks(host.program)) /\ (step + 1) - 1 = step
    BY <2>1 DEF All
  <2>3. \A i \in 1 .. (step + 1) - 1 : Checks(host.program)[i] \cap host.faults = {}
    BY <2>2 DEF Passed, Fault
  <2>4. \A f \in Checks(host.program)[step + 1] : Behind(f) \cap host.faults = {}
    BY <2>1, <2>2, <2>3, FieldsBehind
  <2>5. QED
    BY <1>2, <2>4 DEF Readable
<1>3. QED
  BY <1>1, <1>2

(* Every function that is called is there, once all checks have passed. *)
LEMMA CallIsThere ==
  ASSUME host.program \in {"device_info", "linked"}, ~Linked => refs = 1, Passed(All), NEW f \in Named
  PROVE  Callable(f)
<1>1. CASE Linked
  BY <1>1 DEF Callable
<1>2. CASE ~Linked
  <2>1. host.program = "device_info" /\ All = 7
    BY <1>2, ChecksOfDevice DEF Linked, All
  <2>2. /\ ~Fault({"entry"}) /\ ~Fault({"table"}) /\ ~Fault({"abi"}) /\ ~Fault({"size"})
        /\ ~Fault({"sdk_version"}) /\ ~Fault({"msvc"}) /\ ~Fault(Named)
    BY <2>1, ChecksOfDevice DEF Passed
  <2>3. Behind(f) = {"entry", "table", "abi", "size"}
    BY Behinds DEF Named
  <2>4. QED
    BY <1>2, <2>2, <2>3 DEF Callable, Readable, Fault
<1>3. QED
  BY <1>1, <1>2

-----------------------------------------------------------------------------
(* Steps *)

LEMMA StartKeeps == LoadInv /\ Start => LoadInv'
<1> SUFFICES ASSUME LoadInv, Start PROVE LoadInv'
  OBVIOUS
<1>1. PICK p \in Hosts, s \in BOOLEAN, f \in Faults :
        host' = [program |-> p, synchronize |-> s /\ p # "catalogue", faults |-> f]
  BY DEF Start
<1>2. /\ host'.program = p /\ p \in Known /\ host'.synchronize = (s /\ p # "catalogue")
  BY <1>1, LoadAssumption DEF Known
<1>3. host'.synchronize \in BOOLEAN /\ (p = "catalogue" => host'.synchronize = FALSE)
  BY <1>2, Zenon
<1>4. QED
  BY <1>2, <1>3 DEF Start, LoadInv, Linked

LEMMA LoadKeeps == LoadInv /\ Load => LoadInv'
<1> SUFFICES ASSUME LoadInv, Load PROVE LoadInv'
  OBVIOUS
<1>1. UNCHANGED <<host, step, module, client, clock>> /\ stage = "loading"
  BY DEF Load
<1>2. /\ step = 0 /\ refs = 0 /\ module = FALSE /\ client = "none" /\ host.program \in Known
      /\ host.program = "catalogue" => host.synchronize = FALSE
      /\ host.synchronize \in BOOLEAN
  BY <1>1 DEF LoadInv
<1>3. CASE stage' = "checking"
  <2>1. All' = All /\ Linked' = Linked /\ step \in 0 .. All - 1
    <3>1. All \in {1, 7, 11}
      BY <1>2, Alls DEF All
    <3>2. step \in 0 .. All - 1
      BY <1>2, <3>1
    <3>3. QED
      BY <1>1, <3>2 DEF All, Linked
  <2>2. Passed(step)'
    BY <1>1, <1>2 DEF Passed
  <2>3. refs' = (IF Linked THEN 0 ELSE 1) /\ UNCHANGED <<error, code>>
    BY <1>3 DEF Load, Fail
  <2>4. QED
    BY <1>1, <1>2, <1>3, <2>1, <2>2, <2>3 DEF LoadInv
<1>4. CASE stage' = "handling"
  BY <1>1, <1>2, <1>4 DEF Load, Fail, LoadInv, Linked
<1>5. QED
  BY <1>3, <1>4 DEF Load, Fail

LEMMA CheckKeeps == LoadInv /\ Check => LoadInv'
<1> SUFFICES ASSUME LoadInv, Check PROVE LoadInv'
  OBVIOUS
<1> DEFINE fields == Checks(host.program)[step + 1]
<1>1. /\ UNCHANGED host /\ stage = "checking" /\ All \in {1, 7, 11} /\ step \in 0 .. All - 1
      /\ All' = All /\ Linked' = Linked
  BY Alls DEF Check, LoadInv, All, Linked
<1>2. Readable(fields)
  BY <1>1, CheckReads DEF LoadInv
<1>3. (IF Fault(fields) THEN Reject ELSE Pass) /\ UNCHANGED <<client, clock>>
  BY <1>2 DEF Check
<1>4. CASE Fault(fields)
  BY <1>1, <1>3, <1>4 DEF Reject, Fail, LoadInv
<1>5. CASE ~Fault(fields)
  <2>1. Pass
    BY <1>3, <1>5
  <2>2. Passed(step + 1) /\ \A n : Passed(n)' = Passed(n)
    BY <1>1, <1>5 DEF LoadInv, Passed, Fault
  <2>3. CASE step + 1 < All
    BY <1>1, <1>3, <2>1, <2>2, <2>3 DEF Pass, LoadInv, All
  <2>4. CASE step + 1 = All
    <3>1. Passed(All)' /\ Held' /\ client' = "none"
      BY <1>1, <1>3, <2>1, <2>2, <2>4 DEF Pass, LoadInv, Held, All
    <3>2. CASE host.program = "catalogue"
      BY <1>1, <2>1, <2>4, <3>1, <3>2 DEF Pass, LoadInv, Leave, All, Linked
    <3>3. CASE host.program # "catalogue"
      BY <1>1, <2>1, <2>4, <3>1, <3>3 DEF Pass, LoadInv, LastCall, All, Linked
    <3>4. QED
      BY <3>2, <3>3
  <2>5. QED
    BY <1>1, <2>3, <2>4
<1>6. QED
  BY <1>4, <1>5

LEMMA CallKeeps == LoadInv /\ Call => LoadInv'
<1> SUFFICES ASSUME LoadInv, Call PROVE LoadInv'
  OBVIOUS
<1> DEFINE f == Calls[Following]
<1>1. /\ UNCHANGED host /\ stage = "calling" /\ All' = All /\ Linked' = Linked /\ Passed(All)' = Passed(All)
  BY DEF Call, All, Linked, Passed, Fault
<1>2. /\ Following \in 1 .. LastCall /\ LastCall \in {8, 10} /\ LastCall' = LastCall
      /\ (host.synchronize => LastCall = 10) /\ f \in Named
  BY <1>1, CallsNamed DEF LoadInv, Following, LastCall
<1>3. Callable(f)
  BY <1>1, <1>2, CallIsThere DEF LoadInv, Held, Known
<1>4. (Returns(f) \/ Throws(f)) /\ UNCHANGED <<refs, module>>
  BY <1>3 DEF Call
<1>5. Held' /\ Passed(All)'
  BY <1>1, <1>4 DEF LoadInv, Held
<1>6. CASE Throws(f)
  BY <1>1, <1>4, <1>5, <1>6 DEF Throws, Leave, LoadInv
<1>7. CASE Returns(f) /\ Following < LastCall
  BY <1>1, <1>2, <1>4, <1>5, <1>7 DEF Returns, LoadInv
<1>8. CASE Returns(f) /\ Following = LastCall
  <2>1. clock' = "unverified" \/ (host.synchronize => clock' = "verified")
    BY <1>2, <1>8, CallsNamed DEF Returns
  <2>2. QED
    BY <1>1, <1>2, <1>4, <1>5, <1>8, <2>1 DEF Returns, Leave, LoadInv
<1>9. QED
  BY <1>2, <1>4, <1>6, <1>7, <1>8

LEMMA DestroyKeeps == LoadInv /\ Destroy => LoadInv'
<1> SUFFICES ASSUME LoadInv, Destroy PROVE LoadInv'
  OBVIOUS
<1>1. /\ UNCHANGED <<host, step, refs, module, error, code, clock>> /\ stage = "closing"
      /\ All' = All /\ Linked' = Linked /\ Passed(All)' = Passed(All) /\ Held' = Held
  BY DEF Destroy, All, Linked, Passed, Fault, Held
<1>2. client = "live" => Callable("client_destroy")
  <2>1. "client_destroy" \in Named
    BY DEF Named, Functions
  <2>2. QED
    BY <1>1, <2>1, CallIsThere DEF LoadInv, Held, Known
<1>3. QED
  BY <1>1, <1>2 DEF Destroy, LoadInv

LEMMA FreeKeeps == LoadInv /\ Free => LoadInv'
<1> SUFFICES ASSUME LoadInv, Free PROVE LoadInv'
  OBVIOUS
<1>1. /\ UNCHANGED <<host, step, module, client, error, code, clock>> /\ stage = "freeing"
      /\ stage' = IF error = "none" THEN "ended" ELSE "handling"
      /\ All' = All /\ Linked' = Linked /\ Passed(All)' = Passed(All)
  BY DEF Free, All, Linked, Passed, Fault
<1>2. refs' = 0
  BY <1>1 DEF Free, LoadInv, Held
<1>3. QED
  BY <1>1, <1>2 DEF LoadInv

LEMMA HandleKeeps == LoadInv /\ Handle => LoadInv'
<1> SUFFICES ASSUME LoadInv, Handle PROVE LoadInv'
  OBVIOUS
<1>1. /\ UNCHANGED <<host, step, refs, module, client, code, clock>> /\ stage = "handling"
      /\ stage' = "ended" \/ stage' = "lost"
      /\ error' = "none" \/ error' = error
      /\ All' = All /\ Linked' = Linked /\ Passed(All)' = Passed(All)
  BY DEF Handle, All, Linked, Passed, Fault
<1>2. QED
  BY <1>1 DEF LoadInv

LEMMA LoadStep == LoadInv /\ [LoadNext]_loadVars => LoadInv'
<1>1. CASE LoadNext
  BY <1>1, StartKeeps, LoadKeeps, CheckKeeps, CallKeeps, DestroyKeeps, FreeKeeps, HandleKeeps DEF LoadNext
<1>2. CASE UNCHANGED loadVars
  BY <1>2 DEF loadVars, LoadInv, Linked, All, Passed, Fault, Held, LastCall
<1>3. QED
  BY <1>1, <1>2

-----------------------------------------------------------------------------
(* No program reads past a table, calls a null pointer, or calls a library that *)
(* it has freed (device_info_time_sync.cpp, windows_runtime_api_examples.cpp).    *)
THEOREM NeverDangling == LoadSpec => []NothingDangling
<1>1. LoadInv => NothingDangling
  BY DEF LoadInv, NothingDangling
<1>2. QED
  BY LoadStart, LoadStep, <1>1, PTL DEF LoadSpec

(* Types: every load is freed at most once and nothing is counted beyond the *)
(* checks and calls there are (device_info_time_sync.cpp, windows_runtime_api_  *)
(* examples.cpp).                                                                *)
THEOREM LoadTypes == LoadSpec => []LoadTypeOK
<1>1. LoadInit => LoadTypeOK
  <2> SUFFICES ASSUME LoadInit PROVE LoadTypeOK
    OBVIOUS
  <2>1. module \in BOOLEAN
    BY Zenon DEF LoadInit
  <2>2. step \in 0 .. 11
    BY DEF LoadInit
  <2>3. QED
    BY <2>1, <2>2, Zenon DEF LoadInit, LoadTypeOK
<1>2. LoadInv /\ LoadTypeOK /\ [LoadNext]_loadVars => LoadTypeOK'
  <2> SUFFICES ASSUME LoadInv, LoadTypeOK, [LoadNext]_loadVars PROVE LoadTypeOK'
    OBVIOUS
  <2>1. CASE Start
    <3>1. PICK p \in Hosts, s \in BOOLEAN, f \in Faults :
            host' = [program |-> p, synchronize |-> s /\ p # "catalogue", faults |-> f]
      BY <2>1 DEF Start
    <3>2. (s /\ p # "catalogue") \in BOOLEAN
      BY Zenon
    <3>3. host' \in [program : Hosts, synchronize : BOOLEAN, faults : Faults]
      BY <3>1, <3>2
    <3>4. stage' = "loading" /\ UNCHANGED <<step, refs, module, client, error, code, clock>>
      BY <2>1 DEF Start
    <3>5. QED
      BY <3>3, <3>4 DEF LoadTypeOK
  <2>2. CASE Load
    <3>1. /\ UNCHANGED <<host, step, module, client, clock>>
          /\ refs' \in {refs, 0, 1} /\ stage' \in {"checking", "handling"}
          /\ error' \in {error, "program"} /\ code' \in {code, 1}
      BY <2>2, Zenon DEF Load, Fail
    <3>2. QED
      BY <3>1 DEF LoadTypeOK
  <2>3. CASE Check
    <3>1. /\ UNCHANGED host /\ stage = "checking" /\ All \in {1, 7, 11} /\ step \in 0 .. All - 1
          /\ ~Linked => refs = 1
      BY <2>3, Alls DEF Check, LoadInv, All
    <3>2. Readable(Checks(host.program)[step + 1])
      BY <3>1, CheckReads, <2>3 DEF LoadInv
    <3>3. (Reject \/ Pass) /\ UNCHANGED <<client, clock>>
      BY <2>3, <3>2 DEF Check
    <3>4. CASE Reject
      BY <3>1, <3>3, <3>4 DEF Reject, Fail, LoadTypeOK
    <3>5. CASE Pass
      <4>1. module' \in BOOLEAN
        BY <3>5, Zenon DEF Pass
      <4>2. step' \in {0, step + 1} /\ refs' = refs /\ error' = error
        BY <3>5, Zenon DEF Pass
      <4>3. step' \in 0 .. 11
        BY <3>1, <4>2
      <4>4. stage' \in {stage, "calling", "closing"} /\ code' \in {0, code}
        BY <3>5, Zenon DEF Pass, Leave
      <4>5. QED
        BY <3>1, <3>3, <4>1, <4>2, <4>3, <4>4 DEF LoadTypeOK
    <3>6. QED
      BY <3>3, <3>4, <3>5
  <2>4. CASE Call
    <3>1. UNCHANGED host /\ stage = "calling" /\ step \in 0 .. LastCall - 1 /\ LastCall \in {8, 10}
      BY <2>4 DEF Call, LoadInv, LastCall
    <3>2. Following \in 0 .. 11
      BY <3>1 DEF Following
    <3>3. CASE stage' = "crashed" /\ UNCHANGED <<step, refs, module, client, error, code, clock>>
      BY <3>1, <3>3 DEF LoadTypeOK
    <3>4. CASE (\E f : Returns(f) \/ Throws(f)) /\ UNCHANGED <<refs, module>>
      <4>1. /\ step' \in {step, Following} /\ client' \in {client, "live"}
            /\ clock' \in {clock, "untouched", "verified", "unverified"}
            /\ stage' \in {stage, "closing"} /\ code' \in {code, 0, 1, 3}
            /\ error' \in {error, "library", "program"}
        BY <3>4 DEF Returns, Throws, Leave
      <4>2. QED
        BY <3>1, <3>2, <3>4, <4>1 DEF LoadTypeOK
    <3>5. QED
      BY <2>4, <3>3, <3>4 DEF Call, Crash
  <2>5. CASE Destroy
    BY <2>5 DEF Destroy, LoadTypeOK
  <2>6. CASE Free
    <3>1. /\ UNCHANGED <<host, step, module, client, error, code, clock>>
          /\ stage' \in {"handling", "ended"} /\ refs' = 0
      BY <2>6 DEF Free, LoadInv, Held
    <3>2. QED
      BY <3>1 DEF LoadTypeOK
  <2>7. CASE Handle
    BY <2>7 DEF Handle, LoadTypeOK
  <2>8. CASE UNCHANGED loadVars
    BY <2>8 DEF loadVars, LoadTypeOK
  <2>9. QED
    BY <2>1, <2>2, <2>3, <2>4, <2>5, <2>6, <2>7, <2>8 DEF LoadNext
<1>3. QED
  BY LoadStart, LoadStep, <1>1, <1>2, PTL DEF LoadSpec

(* A program that has ended has freed the library as often as it loaded it and *)
(* destroyed its client; its success is that of a library it has fully checked. *)
THEOREM AlwaysFreed == LoadSpec => []EndsClean
<1>1. LoadInv => EndsClean
  <2> SUFFICES ASSUME LoadInv, stage = "ended" PROVE EndsClean
    BY DEF EndsClean
  <2>1. All \in {1, 7, 11} /\ DOMAIN Checks(host.program) = 1 .. All
    BY Alls, ChecksAreLists DEF LoadInv, All
  <2>2. QED
    BY <2>1 DEF LoadInv, EndsClean, Passed
<1>2. QED
  BY LoadStart, LoadStep, <1>1, PTL DEF LoadSpec

-----------------------------------------------------------------------------
(***************************************************************************)
(* Proofs about CaptureGuard, for every set of programs.  The three        *)
(* invariants are about the end of a program, so the inductive invariant   *)
(* GInv carries back to each step what the end needs: an armed guard while *)
(* such a program may have a capture, a device confirmed idle before       *)
(* a result is reported, and one stop command left to give.                *)
(***************************************************************************)

BeforeStop == {"open", "start", "start imu", "loop", "stop"}

StopsLeft    == /\ pc \in BeforeStop => stops = 0
                /\ pc \in {"report", "unwind"} => stops \in {0, 1}
ReportedIdle == /\ pc = "report" => device = "idle"
                /\ pc = "unwind" => exit = 1
ArmedNetwork ==
  /\ device \in LooksFor => pc \notin BeforeStop \ {"open"} /\ armed = "no"
  /\ ArmsFirst =>
       /\ pc \in BeforeStop \ {"open"} => armed = "yes"
       /\ pc = "unwind" /\ device = "running" => armed = "yes" \/ stops > 0
       /\ pc = "open" => armed = "no" /\ device # "running"
ArmedOnceStarted ==
  /\ pc \in {"open", "start"} => started = "no"
  /\ pc \in BeforeStop \ {"open", "start"} =>
       (program # "lidar" => armed = "yes") /\ (program = "lidar" => active = "yes")
  /\ pc = "unwind" /\ started = "yes" /\ device = "running" => Guarded \/ stops > 0

GInv == TypeOK /\ StopsLeft /\ ReportedIdle /\ ArmedNetwork /\ ArmedOnceStarted
        /\ SuccessMeansStopped /\ StartedNotAbandoned

USE DEF ArmsFirst, LooksFor, Foreign, EnoughData, Steps, BeforeStop, Goto, Throw, Answered, TimesOut, StopAnswered, StopThrows

LEMMA GuardStart == Init => GInv
<1> SUFFICES ASSUME Init PROVE GInv
  OBVIOUS
<1>1. TypeOK
  BY ProgramsAssumption DEF Init, TypeOK
<1>2. StopsLeft /\ ReportedIdle /\ ArmedNetwork
  BY DEF Init, StopsLeft, ReportedIdle, ArmedNetwork
<1>3. ArmedOnceStarted /\ SuccessMeansStopped /\ StartedNotAbandoned
  BY DEF Init, ArmedOnceStarted, SuccessMeansStopped, StartedNotAbandoned, NotAbandoned
<1>4. QED
  BY <1>1, <1>2, <1>3 DEF GInv

(* Every step keeps GInv. *)
LEMMA GuardStep == GInv /\ [Next]_vars => GInv'
<1> SUFFICES ASSUME GInv, [Next]_vars PROVE GInv'
  OBVIOUS
<1> USE DEF GInv, TypeOK, StopsLeft, ReportedIdle, ArmedNetwork,
            ArmedOnceStarted, Guarded, SuccessMeansStopped,
            StartedNotAbandoned, NotAbandoned
<1>1. CASE Open
  BY <1>1 DEF Open
<1>2. CASE StartVideo
  BY <1>2 DEF StartVideo
<1>3. CASE StartImu
  BY <1>3 DEF StartImu
<1>4. CASE StartLidar
  BY <1>4 DEF StartLidar
<1>5. CASE Loop
  BY <1>5, ZenonT(40) DEF Loop
<1>12. CASE Receive
  <2>1. pc = "loop" /\ pc' = "loop" /\ TypeOK'
    BY <1>12 DEF Receive, Kinds
  <2>2. QED
    BY <1>12, <2>1 DEF Receive
<1>6. CASE Stop
  <2>1. stops' = 1 /\ stops' \in 0 .. 2 /\ stops' > 0 /\ pc' \in {"report", "unwind"}
    <3>1. pc = "stop" /\ stops = 0
      BY <1>6 DEF Stop
    <3>2. QED
      BY <1>6, <3>1 DEF Stop
  <2>2. TypeOK'
    BY <1>6, <2>1 DEF Stop
  <2>3. ReportedIdle' /\ StopsLeft'
    BY <1>6, <2>1 DEF Stop
  <2>4. ArmedNetwork' /\ ArmedOnceStarted'
    BY <1>6, <2>1 DEF Stop
  <2>5. SuccessMeansStopped' /\ StartedNotAbandoned'
    BY <2>1
  <2>6. QED
    BY <2>2, <2>3, <2>4, <2>5
<1>7. CASE Report
  <2>1. /\ pc = "report" /\ pc' \in {"ended", "unwind"} /\ exit' \in {0, 1, 3}
        /\ pc' = "unwind" => exit' = 1
        /\ pc' = "ended" /\ exit' = 0 => data # {}
        /\ UNCHANGED <<program, armed, active, data, device, link, started, stops>>
    BY <1>7 DEF Report, Results
  <2>2. TypeOK' /\ StopsLeft' /\ ReportedIdle'
    BY <2>1
  <2>3. ArmedNetwork' /\ ArmedOnceStarted'
    BY <2>1
  <2>4. SuccessMeansStopped' /\ StartedNotAbandoned'
    BY <2>1
  <2>5. QED
    BY <2>2, <2>3, <2>4
<1>8. CASE Unwind
  <2>1. /\ pc = "unwind" /\ pc' = "ended" /\ stops \in {0, 1} /\ exit = 1
        /\ UNCHANGED <<program, armed, data, exit, link, started>>
    BY <1>8 DEF Unwind
  <2>2. CASE Guarded
    <3>1. /\ stops' = stops + 1 /\ device' \in {device, "idle"} /\ active' \in {active, "no"}
      BY <1>8, <2>2 DEF Unwind
    <3>2. stops' \in {1, 2}
      BY <2>1, <3>1
    <3>3. TypeOK' /\ StopsLeft' /\ ReportedIdle'
      BY <2>1, <3>1, <3>2
    <3>4. ArmedNetwork' /\ ArmedOnceStarted'
      BY <2>1, <3>1
    <3>5. SuccessMeansStopped' /\ StartedNotAbandoned'
      BY <2>1, <3>2
    <3>6. QED
      BY <3>3, <3>4, <3>5
  <2>3. CASE ~Guarded
    <3>1. UNCHANGED <<stops, device, active>>
      BY <1>8, <2>3 DEF Unwind
    <3>2. TypeOK' /\ StopsLeft' /\ ReportedIdle'
      BY <2>1, <3>1
    <3>3. ArmedNetwork' /\ ArmedOnceStarted'
      BY <2>1, <3>1
    <3>4. SuccessMeansStopped' /\ StartedNotAbandoned'
      BY <2>1, <2>3, <3>1
    <3>5. QED
      BY <3>2, <3>3, <3>4
  <2>4. QED
    BY <2>2, <2>3
<1>9. CASE LinkBreaks
  <2>1. link' = "broken" /\ UNCHANGED <<program, pc, armed, active, data, exit, device, started, stops>>
    BY <1>9 DEF LinkBreaks
  <2>2. TypeOK' /\ StopsLeft' /\ ReportedIdle'
    BY <2>1, ZenonT(40)
  <2>3. ArmedNetwork' /\ ArmedOnceStarted'
    BY <2>1
  <2>4. SuccessMeansStopped' /\ StartedNotAbandoned'
    BY <2>1
  <2>5. QED
    BY <2>2, <2>3, <2>4
<1>10. CASE UNCHANGED vars
  <2>1. TypeOK' /\ StopsLeft' /\ ReportedIdle'
    <3>1. TypeOK'
      BY <1>10 DEF vars
    <3>2. StopsLeft'
      BY <1>10 DEF vars
    <3>3. ReportedIdle'
      BY <1>10 DEF vars
    <3>4. QED
      BY <3>1, <3>2, <3>3
  <2>2. ArmedNetwork' /\ ArmedOnceStarted'
    BY <1>10 DEF vars
  <2>3. SuccessMeansStopped' /\ StartedNotAbandoned'
    BY <1>10 DEF vars
  <2>4. QED
    BY <2>1, <2>2, <2>3
<1>11. QED
  BY <1>1, <1>2, <1>3, <1>4, <1>5, <1>6, <1>7, <1>8, <1>9, <1>10, <1>12 DEF Next

(* The inductive invariant of the capture programs. *)
THEOREM Guarding == Spec => []GInv
  BY GuardStart, GuardStep, PTL DEF Spec

(* The type invariant; no program gives more than two stop commands. *)
THEOREM GuardTypes == Spec => []TypeOK
<1>1. GInv => TypeOK
  BY DEF GInv
<1>2. QED
  BY <1>1, Guarding, PTL

(* In every program success is reported only after the device has confirmed *)
(* that its capture is stopped.                                              *)
THEOREM SuccessIsStopped == Spec => []SuccessMeansStopped
<1>1. GInv => SuccessMeansStopped
  BY DEF GInv
<1>2. QED
  BY <1>1, Guarding, PTL

(* No program ends with a capture it saw started, nor one that arms first with *)
(* any, that it has not tried to stop.                                          *)
THEOREM NeverAbandoned == Spec => []StartedNotAbandoned
<1>1. GInv => StartedNotAbandoned
  BY DEF GInv
<1>2. QED
  BY <1>1, Guarding, PTL

(* The network program and the hardware test leave a capture of somebody else *)
(* that they look for: one whose images, or, for the test, samples are shown.     *)
THEOREM ForeignKept == Spec => ForeignCaptureKept
<1>1. GInv /\ [Next]_vars => [(device \in LooksFor) => device' = device]_vars
  <2> SUFFICES ASSUME GInv, Next, device \in LooksFor
               PROVE  device' = device
    BY DEF vars
  <2> USE DEF GInv, TypeOK, StopsLeft, ArmedNetwork
  <2>1. pc \notin BeforeStop \ {"open"} /\ armed = "no" /\ program # "lidar"
    OBVIOUS
  <2>2. QED
    BY <2>1 DEF Next, Open, StartVideo, StartImu, StartLidar, Receive, Loop, Stop, Report, Unwind,
       Guarded, LinkBreaks, ReportedIdle
<1>2. QED
  BY <1>1, Guarding, PTL DEF Spec, ForeignCaptureKept
=============================================================================
