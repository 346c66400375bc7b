--------------------------- MODULE GnssSatellites ---------------------------
(***************************************************************************)
(* The satellite half of prism::gnss_plot::Model                           *)
(* (include/prism/usb/gnss_plot.hpp): GSV sentences name the satellites in *)
(* view, a few per sentence, in cycles of numbered parts, one cycle per    *)
(* talker and signal (its key); GSA sentences name the satellites used.    *)
(*                                                                         *)
(* Sentences get lost, repeated, damaged and delayed on their way from the *)
(* receiver: any sequence of the sentences under check may arrive.         *)
(***************************************************************************)
EXTENDS Integers, SequencesExt

CONSTANTS
  GsvSentences,  \* [key, total, part, count, groups, sats]: the groups of fields of one
                 \* part, and the satellites they name, none when the number is blank
  GsaSentences,  \* [system, sats]
  CycleAge,      \* the parts of a cycle arrive within 2000 ms
  ShownAge,      \* a cycle is shown for 3000 ms
  CycleCap,      \* cycles kept: 128
  MaxSentences, MaxClock  \* bounds of the runs

(* A satellite in view: its name is its system, or its talker if that is unknown. *)
Views == [name : STRING, system : STRING, prn : Nat]

(* The numbers that the code refuses first are left out, and the ages are ages. *)
ASSUME SentencesAssumption ==
  \A s \in GsvSentences :
    /\ s.total \in Nat \ {0} /\ s.part \in 1 .. s.total /\ s.count \in Nat
    /\ s.groups \in Nat /\ s.sats \in Seq(Views) /\ Len(s.sats) <= s.groups
ASSUME CapsAssumption ==
  CycleAge \in Nat /\ ShownAge \in Nat /\ CycleCap \in Nat /\ MaxSentences \in Nat /\ MaxClock \in Nat

VARIABLES
  clock,     \* device time of the current sentence
  cycles,    \* pending_: key -> cycle in progress
  complete,  \* complete_: key -> the last whole cycle
  used,      \* used_: system -> when, and which satellites
  heard,     \* history: key -> the parts that arrived since the last gap, Cut between
  fixes,     \* history: the GSA sentences since the last gap
  given,     \* history: number of sentences
  overflow   \* history: complete cycles were given up

satVars == <<clock, cycles, complete, used, heard, fixes, given, overflow>>

(* The system of a satellite number, by the talker and the GSA system id. *)
SystemNames == <<"GPS", "GLONASS", "Galileo", "BeiDou", "QZSS", "NavIC">>
System(talk, prn, id) ==
  IF id \in 1 .. 6 THEN SystemNames[id]
  ELSE IF id # 0 THEN "Unknown"
  ELSE IF talk = "GL" THEN "GLONASS"
  ELSE IF talk = "GA" THEN "Galileo"
  ELSE IF talk \in {"GB", "BD"} THEN "BeiDou"
  ELSE IF talk \in {"GQ", "QZ"} THEN "QZSS"
  ELSE IF talk = "GI" THEN "NavIC"
  ELSE IF talk \notin {"GN", "GP"} THEN "Unknown"
  ELSE IF prn \in 1 .. 32 THEN "GPS"
  ELSE IF prn \in 33 .. 64 THEN "SBAS"
  ELSE IF prn \in 65 .. 96 THEN "GLONASS"
  ELSE IF prn \in 193 .. 200 THEN "QZSS"
  ELSE IF prn \in 201 .. 263 THEN "BeiDou"
  ELSE IF prn \in 301 .. 336 THEN "Galileo"
  ELSE IF prn \in 401 .. 414 THEN "NavIC"
  ELSE "Unknown"

(* A satellite's number within its system. *)
Canonical(system, p) ==
  IF system = "GLONASS" /\ p \in 65 .. 96 THEN p - 64
  ELSE IF system = "BeiDou" /\ p \in 201 .. 263 THEN p - 200
  ELSE IF system = "Galileo" /\ p \in 301 .. 336 THEN p - 300
  ELSE IF system = "QZSS" /\ p \in 193 .. 200 THEN p - 192
  ELSE IF system = "NavIC" /\ p \in 401 .. 414 THEN p - 400
  ELSE p

(* A satellite in view; name and prn make Satellite::id. *)
Satellite(talk, prn) ==
  LET s == System(talk, prn, 0)
  IN  [name |-> IF s = "Unknown" THEN talk ELSE s, system |-> s, prn |-> Canonical(s, prn)]

Recent(now, at, limit) == now >= at /\ now - at <= limit

Without(f, key) == [k \in DOMAIN f \ {key} |-> f[k]]
With(f, key, v) == [k \in DOMAIN f \cup {key} |-> IF k = key THEN v ELSE f[k]]
Nothing         == [k \in {} |-> 0]

SatInit ==
  /\ clock = 0 /\ cycles = Nothing /\ complete = Nothing /\ used = Nothing
  /\ heard = [k \in {s.key : s \in GsvSentences} |-> <<>>] /\ fixes = <<>>
  /\ given = 0 /\ overflow = FALSE

-----------------------------------------------------------------------------
(* A part whose numbers add up: the right number of parts, and of groups in this *)
(* one, whatever satellites the groups name.                                        *)
Consistent(s) ==
  LET parts == IF s.count = 0 THEN 1 ELSE (s.count + 3) \div 4
      left  == s.count - 4 * (s.part - 1)
  IN  s.total = parts /\ s.groups = (IF left < 0 THEN 0 ELSE IF left > 4 THEN 4 ELSE left)

(* Mutant: however late the next part is. *)
ContinuesAnyTime(c, s) == c.next = s.part /\ c.total = s.total /\ c.count = s.count

(* Mutant: a part continues a cycle of another size. *)
ContinuesAnySize(c, s) == c.next = s.part /\ c.total = s.total /\ Recent(clock, c.ms, CycleAge)

(* The next part of the same cycle, in time. *)
Continues(c, s) ==
  c.next = s.part /\ c.total = s.total /\ c.count = s.count /\ Recent(clock, c.ms, CycleAge)

(* Part one starts a cycle, whatever was pending. *)
Before(s) ==
  IF s.part = 1 THEN With(cycles, s.key, [total |-> s.total, next |-> 1, count |-> s.count, ms |-> clock, sats |-> <<>>])
  ELSE cycles

(* The maps are emptied when they grow beyond the cap. *)
Bounded(f) == IF Cardinality(DOMAIN f) > CycleCap THEN Nothing ELSE f

Cut == [cut |-> TRUE]  \* in a history: a cycle cannot go on across it

Refuse(s) ==
  /\ cycles' = Without(cycles, s.key)
  /\ heard' = [heard EXCEPT ![s.key] = IF Consistent(s) THEN Append(@, [part |-> s, ms |-> clock]) ELSE Append(@, Cut)]
  /\ UNCHANGED <<complete, overflow>>

Extend(s) ==
  LET b     == Before(s)
      c     == [b[s.key] EXCEPT !.next = @ + 1, !.sats = @ \o s.sats]
      whole == c.next > c.total
      now   == IF whole THEN Without(b, s.key) ELSE With(b, s.key, c)
      done  == IF whole THEN With(complete, s.key, c) ELSE complete
  IN  /\ cycles' = Bounded(now) /\ complete' = Bounded(done)
      /\ overflow' = (overflow \/ complete' # done)
      /\ heard' = [k \in DOMAIN heard |->
           LET h == IF k = s.key THEN Append(heard[k], [part |-> s, ms |-> clock]) ELSE heard[k]
           IN  IF cycles' # now THEN Append(h, Cut) ELSE h]

(* sentence(), a GSV. *)
Gsv(s) ==
  /\ given < MaxSentences
  /\ IF ~Consistent(s) THEN Refuse(s)
     ELSE IF s.key \in DOMAIN Before(s) /\ Continues(Before(s)[s.key], s) THEN Extend(s)
     ELSE Refuse(s)
  /\ given' = given + 1
  /\ UNCHANGED <<clock, used, fixes>>

(* sentence(), a GSA: the satellites its system uses, none without a fix. *)
Gsa(s) ==
  /\ given < MaxSentences
  /\ used' = With(used, s.system, [ms |-> clock, sats |-> s.sats])
  /\ fixes' = Append(fixes, [system |-> s.system, ms |-> clock, sats |-> s.sats])
  /\ given' = given + 1
  /\ UNCHANGED <<clock, cycles, complete, heard, overflow>>

(* Mutant: the satellites used are not forgotten. *)
GapKeepingUsed ==
  /\ given < MaxSentences
  /\ cycles' = Nothing /\ complete' = Nothing
  /\ heard' = [k \in DOMAIN heard |-> <<>>] /\ fixes' = <<>>
  /\ given' = given + 1
  /\ UNCHANGED <<clock, used, overflow>>

(* apply() of an answer with a gap, or of another session. *)
Gap ==
  /\ given < MaxSentences
  /\ cycles' = Nothing /\ complete' = Nothing /\ used' = Nothing
  /\ heard' = [k \in DOMAIN heard |-> <<>>] /\ fixes' = <<>>
  /\ given' = given + 1
  /\ UNCHANGED <<clock, overflow>>

Pause ==
  /\ clock < MaxClock /\ clock' = clock + 1
  /\ UNCHANGED <<cycles, complete, used, heard, fixes, given, overflow>>

SatNext == (\E s \in GsvSentences : Gsv(s)) \/ (\E s \in GsaSentences : Gsa(s)) \/ Gap \/ Pause

SatSpec == SatInit /\ [][SatNext]_satVars

(* Whether the last GSA of a satellite's system, if recent, names it. *)
IsUsed(x, now) ==
  x.system \in DOMAIN used /\ Recent(now, used[x.system].ms, ShownAge) /\ x.prn \in used[x.system].sats

(* satellites(): those of all recent cycles, once each, and whether they are used. *)
Satellites(now) ==
  {[sat |-> x, used |-> IsUsed(x, now)] :
     x \in UNION {Range(complete[k].sats) : k \in {k \in DOMAIN complete : Recent(now, complete[k].ms, ShownAge)}}}

-----------------------------------------------------------------------------
(* Properties *)

SatTypeOK ==
  /\ clock \in 0 .. MaxClock /\ given \in 0 .. MaxSentences
  /\ Cardinality(DOMAIN cycles) <= CycleCap /\ Cardinality(DOMAIN complete) <= CycleCap
  /\ \A k \in DOMAIN cycles : cycles[k].next \in 2 .. cycles[k].total
  /\ \A k \in DOMAIN complete : Len(complete[k].sats) <= complete[k].count

(* The parts i, i + 1, ... heard of a key are a cycle: one after the other, from *)
(* the first to the last, of one size, in time.                                   *)
CycleAt(h, i) ==
  /\ h[i] # Cut /\ i + h[i].part.total - 1 <= Len(h)
  /\ \A j \in 1 .. h[i].part.total :
       LET x == h[i + j - 1] IN
         /\ x # Cut /\ x.part.part = j
         /\ x.part.total = h[i].part.total /\ x.part.count = h[i].part.count
         /\ x.ms - h[i].ms <= CycleAge

(* The cycle that is kept for a key is the last whole one that was heard since  *)
(* the last gap, and nothing else: never a mixture of two cycles with parts       *)
(* refused or out of order between them, never an older one.                       *)
CyclesAreWholeRuns ==
  \A k \in DOMAIN heard :
    LET h == heard[k]
        W == {i \in DOMAIN h : CycleAt(h, i)}
    IN  /\ k \in DOMAIN complete =>
             \E i \in W : /\ \A j \in W : j <= i
                          /\ complete[k].ms = h[i].ms
                          /\ complete[k].sats = FlattenSeq([j \in 1 .. h[i].part.total |-> h[i + j - 1].part.sats])
        /\ W # {} /\ ~overflow => k \in DOMAIN complete

(* Every satellite shown was heard since the last gap and within ShownAge; and it is *)
(* shown as used exactly if the last GSA of its own system since the last gap is of     *)
(* that time and names it: neither a gap nor another system's GSA is overlooked.         *)
ShownIsRecent ==
  \A x \in Satellites(clock) :
    /\ \E k \in DOMAIN heard : \E i \in DOMAIN heard[k] :
         /\ heard[k][i] # Cut /\ clock - heard[k][i].ms <= ShownAge
         /\ x.sat \in Range(heard[k][i].part.sats)
    /\ x.used <=> \E i \in DOMAIN fixes :
         /\ fixes[i].system = x.sat.system
         /\ \A j \in DOMAIN fixes : fixes[j].system = x.sat.system => j <= i
         /\ clock - fixes[i].ms <= ShownAge /\ x.sat.prn \in fixes[i].sats
=============================================================================
