------------------------ MODULE CameraControlProofs ------------------------
(***************************************************************************)
(* Proofs about CameraControl, for any number of writers and cameras, any  *)
(* edits and any number of writes and restarts.  What is on the wire is    *)
(* what the verdicts and the settings depend on: the inductive invariant   *)
(* CtlInv says that a write is there once, as request or as reply, that a  *)
(* reply tells the truth, and that a status with the Agent's epoch and     *)
(* revision holds the Agent's settings.                                    *)
(***************************************************************************)
EXTENDS CameraControl, TLAPS

(* Counters and identifiers. *)
Counted ==
  /\ epoch \in Nat /\ revision \in Nat /\ writes \in Nat
  /\ done \subseteq 1 .. writes /\ pending \in [Writers -> 0 .. writes]
  /\ DOMAIN known = Writers /\ DOMAIN verdict = Writers

(* A write is on the wire at most once; a reply says what became of it. *)
WireTrue ==
  /\ \A m \in wire : /\ m.id \in 1 .. writes /\ m.from \in Writers /\ m.to \in {"agent", "writer"}
                     /\ m.to = "agent" => m.id \notin done
                     /\ m.to = "writer" => (m.taken <=> m.id \in done)
  /\ \A m, n \in wire : m.id = n.id => m = n

(* A verdict is true, and nothing under way can make it false. *)
VerdictsFinal ==
  \A w \in Writers :
    /\ verdict[w][2] = "taken" => verdict[w][1] \in done
    /\ verdict[w][2] = "refused" =>
         /\ verdict[w][1] \in 1 .. writes \ done
         /\ \A m \in wire : m.id # verdict[w][1]

(* What the arguments of a record are does not matter to the four facts above; *)
(* Changed has to be unfolded only for the settings.                             *)
CtlInv == Counted /\ WireTrue /\ VerdictsFinal

LEMMA CtlStart == CtlInit => CtlInv
  BY DEF CtlInit, CtlInv, Counted, WireTrue, VerdictsFinal

LEMMA CtlStep == CtlInv /\ [CtlNext]_ctlVars => CtlInv'
<1> SUFFICES ASSUME CtlInv, [CtlNext]_ctlVars PROVE CtlInv'
  OBVIOUS
<1> USE DEF CtlInv
<1>1. ASSUME NEW w \in Writers, Get(w) PROVE CtlInv'
  BY <1>1 DEF Get, Counted, WireTrue, VerdictsFinal
<1>2. ASSUME NEW w \in Writers, Close(w) PROVE CtlInv'
  BY <1>2 DEF Close, Counted, WireTrue, VerdictsFinal
<1>3. ASSUME NEW w \in Writers, NEW e \in Edits, Set(w, e) PROVE CtlInv'
  <2>1. PICK new : /\ wire' = wire \cup {new} /\ new.to = "agent" /\ new.id = writes + 1 /\ new.from = w
    <3> DEFINE new == [to |-> "agent", id |-> writes + 1, from |-> w, edit |-> e,
                       status |-> [known[w] EXCEPT !.requested = Changed(@, e)]]
    <3>1. wire' = wire \cup {new} /\ new.to = "agent" /\ new.id = writes + 1 /\ new.from = w
      BY <1>3 DEF Set
    <3> HIDE DEF new
    <3>2. QED
      BY <3>1
  <2>2. /\ writes' = writes + 1 /\ pending' = [pending EXCEPT ![w] = writes + 1]
        /\ UNCHANGED <<epoch, revision, known, done, verdict>>
    BY <1>3 DEF Set
  <2>3. Counted'
    BY <2>2 DEF Counted
  <2>4. WireTrue'
    BY <2>1, <2>2 DEF Counted, WireTrue
  <2>5. VerdictsFinal'
    BY <2>1, <2>2 DEF Counted, WireTrue, VerdictsFinal
  <2>6. QED
    BY <2>3, <2>4, <2>5
<1>4. ASSUME NEW m \in wire, Serve(m) PROVE CtlInv'
  <2> DEFINE fits == m.status.epoch = epoch /\ m.status.revision = revision
  <2>1. PICK new : /\ wire' = (wire \ {m}) \cup {new} /\ new.to = "writer" /\ new.id = m.id
                   /\ new.from = m.from /\ (new.taken <=> fits)
    <3> DEFINE new == [to |-> "writer", id |-> m.id, from |-> m.from, edit |-> m.edit, taken |-> fits,
                       status |-> [epoch |-> epoch, revision |-> revision', requested |-> requested']]
    <3>1. wire' = (wire \ {m}) \cup {new}
      BY <1>4 DEF Serve
    <3>2. new.to = "writer" /\ new.id = m.id /\ new.from = m.from /\ (new.taken <=> fits)
      OBVIOUS
    <3> HIDE DEF new
    <3>3. QED
      BY <3>1, <3>2
  <2>2. /\ m.to = "agent" /\ done' = (IF fits THEN done \cup {m.id} ELSE done)
        /\ revision' = (IF fits THEN revision + 1 ELSE revision)
        /\ UNCHANGED <<epoch, known, pending, writes, verdict>>
    BY <1>4 DEF Serve
  <2> HIDE DEF fits
  <2>3. Counted'
    <3>1. done' \subseteq 1 .. writes
      BY <2>2 DEF Counted, WireTrue
    <3>2. revision' \in Nat
      BY <2>2 DEF Counted
    <3>3. QED
      BY <2>2, <3>1, <3>2 DEF Counted
  <2>4. WireTrue'
    BY <2>1, <2>2 DEF Counted, WireTrue
  <2>5. VerdictsFinal'
    BY <2>1, <2>2 DEF Counted, WireTrue, VerdictsFinal
  <2>6. QED
    BY <2>3, <2>4, <2>5
<1>5. ASSUME NEW m \in wire, Finish(m) PROVE CtlInv'
  <2>1. /\ m.to = "writer" /\ pending' = [pending EXCEPT ![m.from] = 0]
        /\ DOMAIN known' = DOMAIN known
        /\ verdict' = [verdict EXCEPT ![m.from] = <<m.id, IF m.taken THEN "taken" ELSE "refused">>]
        /\ wire' = wire \ {m} /\ UNCHANGED <<epoch, revision, writes, done>>
    BY <1>5 DEF Finish
  <2>2. Counted' /\ WireTrue'
    BY <2>1 DEF Counted, WireTrue
  <2>3. VerdictsFinal'
    BY <2>1 DEF Counted, WireTrue, VerdictsFinal
  <2>4. QED
    BY <2>2, <2>3
<1>6. ASSUME NEW m \in wire, Lose(m) PROVE CtlInv'
  BY <1>6 DEF Lose, Counted, WireTrue, VerdictsFinal
<1>7. CASE NewEpoch
  BY <1>7 DEF NewEpoch, Counted, WireTrue, VerdictsFinal
<1>8. CASE UNCHANGED ctlVars
  BY <1>8 DEF ctlVars, Counted, WireTrue, VerdictsFinal
<1>9. QED
  BY <1>1, <1>2, <1>3, <1>4, <1>5, <1>6, <1>7, <1>8 DEF CtlNext

(* What a writer was told of its write is so: it was carried out, or it was not  *)
(* and never will be (finishCameraControl, stageCameraControlIdle).               *)
THEOREM ToldTheTruth == CtlSpec => []VerdictTrue
<1>1. CtlInv => VerdictTrue
  BY DEF CtlInv, VerdictsFinal, VerdictTrue
<1>2. QED
  BY CtlStart, CtlStep, <1>1, PTL DEF CtlSpec

-----------------------------------------------------------------------------
(* The settings *)

IsConfig(v) == v = [i \in Cameras |-> v[i]]
Current(s)  == s.epoch = epoch /\ s.revision = revision
Past(s)     == /\ s.epoch \in Nat /\ s.revision \in Nat
               /\ s.epoch < epoch \/ (s.epoch = epoch /\ s.revision <= revision)

(* What is the Agent's, what its writers know, and what is under way: no status *)
(* is from the future, and a status that is current tells the Agent's settings,   *)
(* or, in a request, the change of them that is asked for.                          *)
AgentOK == epoch \in Nat /\ revision \in Nat /\ IsConfig(requested) /\ Sendable(requested)
KnownOK(s)   == /\ Past(s) /\ IsConfig(s.requested)
                /\ Current(s) => s.requested = requested
RequestOK(m) == /\ Past(m.status) /\ IsConfig(m.status.requested) /\ Sendable(m.status.requested)
                /\ Current(m.status) => Applies(m.edit, requested, m.status.requested)
WritersOK == DOMAIN known = Writers /\ \A w \in Writers : known[w] # NoStatus => KnownOK(known[w])
WireOK == \A m \in wire : /\ m.to = "agent" => RequestOK(m)
                          /\ m.to = "writer" => KnownOK(m.status)
                          /\ m.from \in Writers
SettingsInv == AgentOK /\ WritersOK /\ WireOK

(* An edit of the settings a status tells keeps all that it does not name. *)
LEMMA ChangedApplies ==
  ASSUME NEW v, NEW e \in Edits, IsConfig(v)
  PROVE  /\ IsConfig(Changed(v, e))
         /\ SharedGlobals(v) => Applies(e, v, Changed(v, e))
<1>1. CASE e.camera = -1
  <2>1. DOMAIN e.values \subseteq GlobalFields
    BY <1>1, ControlAssumption
  <2>2. SharedGlobals(v) => \A i \in Cameras : \A f \in GlobalFields : v[i][f] = v[0][f]
    BY DEF SharedGlobals
  <2> DEFINE g == [f \in GlobalFields |-> IF f \in DOMAIN e.values THEN e.values[f] ELSE Globals(v)[f]]
  <2>3. Changed(v, e) = WithGlobals(v, g)
    BY <1>1 DEF Changed
  <2>4. \A f \in GlobalFields : g[f] = IF f \in DOMAIN e.values THEN e.values[f] ELSE v[0][f]
    BY DEF Globals
  <2> HIDE DEF g
  <2>5. IsConfig(WithGlobals(v, g))
    BY DEF IsConfig, WithGlobals
  <2>6. \A i \in Cameras : \A f \in Fields : WithGlobals(v, g)[i][f] = IF f \in GlobalFields THEN g[f] ELSE v[i][f]
    BY DEF WithGlobals
  <2>7. SharedGlobals(v) => Applies(e, v, WithGlobals(v, g))
    BY <1>1, <2>1, <2>2, <2>4, <2>6 DEF Applies
  <2>8. QED
    BY <2>3, <2>5, <2>7
<1>2. CASE e.camera \in Cameras
  <2>1. e.camera # -1
    BY <1>2, ControlAssumption
  <2> DEFINE n == [f \in Fields |-> IF f \in DOMAIN e.values THEN e.values[f] ELSE v[e.camera][f]]
  <2>2. Changed(v, e) = [v EXCEPT ![e.camera] = n]
    BY <2>1 DEF Changed
  <2>3. \A f \in Fields : n[f] = IF f \in DOMAIN e.values THEN e.values[f] ELSE v[e.camera][f]
    OBVIOUS
  <2> HIDE DEF n
  <2>4. DOMAIN v = Cameras
    BY DEF IsConfig
  <2>5. IsConfig([v EXCEPT ![e.camera] = n])
    BY <2>4 DEF IsConfig
  <2>6. \A i \in Cameras : [v EXCEPT ![e.camera] = n][i] = IF i = e.camera THEN n ELSE v[i]
    BY <2>4
  <2>7. Applies(e, v, [v EXCEPT ![e.camera] = n])
    BY <1>2, <2>1, <2>3, <2>6 DEF Applies
  <2>8. QED
    BY <2>2, <2>5, <2>7
<1>3. QED
  BY <1>1, <1>2, ControlAssumption

LEMMA SettingsStart == CtlInit => SettingsInv
  BY ControlAssumption DEF CtlInit, SettingsInv, WritersOK, WireOK, AgentOK, IsConfig

(* A request is for a change of the settings; every other step keeps what a *)
(* status says, or leaves all that is known in the past.                      *)
LEMMA SettingsStep == SettingsInv /\ [CtlNext]_ctlVars => SettingsInv'
<1> SUFFICES ASSUME SettingsInv, [CtlNext]_ctlVars PROVE SettingsInv'
  OBVIOUS
<1> USE DEF SettingsInv, WritersOK, WireOK
<1>1. ASSUME NEW w \in Writers, Get(w) PROVE SettingsInv'
  <2>1. /\ known' = [known EXCEPT ![w] = Status]
        /\ UNCHANGED <<epoch, revision, requested, wire>>
    BY <1>1 DEF Get
  <2>2. KnownOK(Status)
    BY DEF KnownOK, Status, Past, AgentOK
  <2>3. AgentOK' /\ (\A s : KnownOK(s)' <=> KnownOK(s)) /\ (\A m : RequestOK(m)' <=> RequestOK(m))
    BY <2>1 DEF AgentOK, KnownOK, RequestOK, Past, Current
  <2>4. QED
    BY <2>1, <2>2, <2>3
<1>2. ASSUME NEW w \in Writers, Close(w) PROVE SettingsInv'
  <2>1. /\ known' = [known EXCEPT ![w] = NoStatus]
        /\ UNCHANGED <<epoch, revision, requested, wire>>
    BY <1>2 DEF Close
  <2>3. AgentOK' /\ (\A s : KnownOK(s)' <=> KnownOK(s)) /\ (\A m : RequestOK(m)' <=> RequestOK(m))
    BY <2>1 DEF AgentOK, KnownOK, RequestOK, Past, Current
  <2>4. QED
    BY <2>1, <2>3
<1>3. ASSUME NEW w \in Writers, NEW e \in Edits, Set(w, e) PROVE SettingsInv'
  <2> DEFINE changed == Changed(known[w].requested, e)
             status  == [known[w] EXCEPT !.requested = changed]
             new     == [to |-> "agent", id |-> writes + 1, from |-> w, edit |-> e, status |-> status]
  <2>1. /\ known[w] # NoStatus /\ Sendable(changed) /\ wire' = wire \cup {new}
        /\ UNCHANGED <<epoch, revision, requested, known>>
    BY <1>3 DEF Set
  <2>2. KnownOK(known[w])
    BY <2>1
  <2>3. /\ Past(status) /\ status.requested = changed
        /\ Current(status) => known[w].requested = requested
    BY <2>2 DEF KnownOK, Past, Current
  <2>4. IsConfig(changed) /\ (Current(status) => Applies(e, requested, changed))
    <3> HIDE DEF status
    <3>1. IsConfig(changed)
      BY <2>2, ChangedApplies DEF KnownOK
    <3>2. ASSUME Current(status) PROVE Applies(e, requested, changed)
      <4>1. known[w].requested = requested /\ IsConfig(requested) /\ SharedGlobals(requested)
        BY <2>3, <3>2 DEF AgentOK, Sendable
      <4>2. QED
        BY <4>1, ChangedApplies
    <3>3. QED
      BY <3>1, <3>2
  <2>5. RequestOK(new) /\ new.to = "agent" /\ new.from = w
    BY <2>1, <2>3, <2>4 DEF RequestOK
  <2> HIDE DEF new
  <2>6. AgentOK' /\ (\A s : KnownOK(s)' <=> KnownOK(s)) /\ (\A m : RequestOK(m)' <=> RequestOK(m))
    BY <2>1 DEF AgentOK, KnownOK, RequestOK, Past, Current
  <2>7. QED
    BY <2>1, <2>5, <2>6
<1>4. ASSUME NEW m \in wire, Serve(m) PROVE SettingsInv'
  <2>1. PICK new :
          /\ wire' = (wire \ {m}) \cup {new} /\ new.to = "writer" /\ new.from = m.from
          /\ new.status.epoch = epoch /\ new.status.revision = revision' /\ new.status.requested = requested'
    <3> DEFINE status == [epoch |-> epoch, revision |-> revision', requested |-> requested']
               new    == [to |-> "writer", id |-> m.id, from |-> m.from, edit |-> m.edit,
                          taken |-> Current(m.status), status |-> status]
    <3>1. wire' = (wire \ {m}) \cup {new}
      BY <1>4 DEF Serve, Current
    <3>2. /\ new.to = "writer" /\ new.from = m.from
          /\ new.status.epoch = epoch /\ new.status.revision = revision' /\ new.status.requested = requested'
      OBVIOUS
    <3> HIDE DEF new
    <3>3. QED
      BY <3>1, <3>2
  <2>2. /\ m.to = "agent" /\ UNCHANGED <<epoch, known>>
        /\ revision' = (IF Current(m.status) THEN revision + 1 ELSE revision)
        /\ requested' = (IF Current(m.status) THEN m.status.requested ELSE requested)
    BY <1>4 DEF Serve, Current
  <2>3. RequestOK(m)
    BY <2>2
  <2>4. AgentOK'
    BY <2>2, <2>3 DEF AgentOK, RequestOK
  <2>5. KnownOK(new.status)'
    BY <2>1, <2>2, <2>4 DEF KnownOK, AgentOK, Past
  <2>6. (\A s : KnownOK(s) => KnownOK(s)') /\ (\A n : RequestOK(n) => RequestOK(n)')
    BY <2>2 DEF AgentOK, KnownOK, RequestOK, Past, Current
  <2>7. WritersOK'
    BY <2>2, <2>6 DEF WritersOK
  <2>8. WireOK'
    BY <2>1, <2>5, <2>6 DEF WireOK
  <2> HIDE DEF WritersOK, WireOK
  <2>9. QED
    BY <2>4, <2>7, <2>8
<1>5. ASSUME NEW m \in wire, Finish(m) PROVE SettingsInv'
  <2>1. /\ m.to = "writer"
        /\ known' = [known EXCEPT ![m.from] = IF m.taken THEN m.status ELSE NoStatus]
        /\ wire' = wire \ {m} /\ UNCHANGED <<epoch, revision, requested>>
    BY <1>5 DEF Finish
  <2>2. AgentOK' /\ (\A s : KnownOK(s)' <=> KnownOK(s)) /\ (\A n : RequestOK(n)' <=> RequestOK(n))
    BY <2>1 DEF AgentOK, KnownOK, RequestOK, Past, Current
  <2>3. \A w \in Writers : known'[w] # NoStatus => KnownOK(known'[w])
    BY <2>1
  <2>4. QED
    BY <2>1, <2>2, <2>3
<1>6. ASSUME NEW m \in wire, Lose(m) PROVE SettingsInv'
  <2>1. wire' = wire \ {m} /\ UNCHANGED <<epoch, revision, requested, known>>
    BY <1>6 DEF Lose
  <2>2. AgentOK' /\ (\A s : KnownOK(s)' <=> KnownOK(s)) /\ (\A n : RequestOK(n)' <=> RequestOK(n))
    BY <2>1 DEF AgentOK, KnownOK, RequestOK, Past, Current
  <2>3. QED
    BY <2>1, <2>2
<1>7. CASE NewEpoch
  <2>1. /\ epoch' = epoch + 1 /\ revision' = 0 /\ requested' \in {requested, FirstConfig}
        /\ UNCHANGED <<known, wire>>
    BY <1>7 DEF NewEpoch
  <2>2. AgentOK'
    BY <2>1, ControlAssumption DEF AgentOK, IsConfig
  <2>3. (\A s : KnownOK(s) => KnownOK(s)') /\ (\A n : RequestOK(n) => RequestOK(n)')
    BY <2>1 DEF AgentOK, KnownOK, RequestOK, Past, Current
  <2>4. QED
    BY <2>1, <2>2, <2>3
<1>8. CASE UNCHANGED ctlVars
  <2>1. UNCHANGED <<epoch, revision, requested, known, wire>>
    BY <1>8 DEF ctlVars
  <2>2. AgentOK' /\ (\A s : KnownOK(s)' <=> KnownOK(s)) /\ (\A n : RequestOK(n)' <=> RequestOK(n))
    BY <2>1 DEF AgentOK, KnownOK, RequestOK, Past, Current
  <2>3. QED
    BY <2>1, <2>2
<1>9. QED
  BY <1>1, <1>2, <1>3, <1>4, <1>5, <1>6, <1>7, <1>8 DEF CtlNext

(* Within an epoch the settings change only by one edit of those they replace: a *)
(* write that another one, or a restart, has outdated changes nothing, and no       *)
(* change of the bounds moves a manual value (withCameraControlGlobals).             *)
THEOREM UpdatesKept == CtlSpec => NoLostUpdate
<1>1. ASSUME SettingsInv, [CtlNext]_ctlVars, requested' # requested, epoch' = epoch
      PROVE  \E m \in wire : Applies(m.edit, requested, requested')
  <2>1. PICK m \in wire : Serve(m)
    <3>1. ~NewEpoch
      BY <1>1 DEF NewEpoch, SettingsInv, AgentOK
    <3>2. QED
      BY <1>1, <3>1 DEF CtlNext, Get, Close, Set, Finish, Lose, ctlVars
  <2>2. RequestOK(m) /\ Current(m.status) /\ requested' = m.status.requested
    BY <1>1, <2>1 DEF Serve, SettingsInv, WireOK, Current
  <2>3. QED
    BY <2>2 DEF RequestOK
<1>2. SettingsInv /\ [CtlNext]_ctlVars
        => [requested' # requested /\ epoch' = epoch => \E m \in wire : Applies(m.edit, requested, requested')]_ctlVars
  BY <1>1
<1>3. QED
  BY SettingsStart, SettingsStep, <1>2, PTL DEF CtlSpec, NoLostUpdate

(* The type invariant; the settings the Agent holds are of one piece, and within *)
(* their bounds for every camera.                                                    *)
THEOREM ControlTypes == CtlSpec => []CtlTypeOK
<1>1. CtlInv /\ SettingsInv => CtlTypeOK
  BY DEF CtlInv, Counted, SettingsInv, AgentOK, Sendable, CtlTypeOK
<1>2. QED
  BY CtlStart, CtlStep, SettingsStart, SettingsStep, <1>1, PTL DEF CtlSpec
=============================================================================
