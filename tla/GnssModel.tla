----------------------------- MODULE GnssModel -----------------------------
(***************************************************************************)
(* The position half of prism::gnss_plot::Model                            *)
(* (include/prism/usb/gnss_plot.hpp): a cursor over the Agent's record log *)
(* of one session, the latest position of each source, and the tracks a    *)
(* display draws from them.  A model is one record; apply() is a function  *)
(* from a model and a reply to a model.                                    *)
(*                                                                         *)
(* What a sentence says is reduced to its effect: it is a valid position,  *)
(* a well-formed report that there is none, or it is no position at all    *)
(* (a bad checksum, or a satellite sentence).                              *)
(***************************************************************************)
EXTENDS Integers, Sequences, Functions

CONSTANTS
  Sources,    \* GGA and ADRNAV ("RTK"): two independent positions
  Epochs,     \* receiver time stamps of positions
  FreshAge,   \* a position is current this long (2000 ms)
  RecordAge,  \* a record is read this long (5000 ms)
  TrackCap,   \* points kept per track (20000)
  None        \* no epoch yet; no source

ASSUME AgesAssumption  == FreshAge \in Nat /\ RecordAge \in Nat /\ FreshAge <= RecordAge
ASSUME TrackAssumption == TrackCap \in Nat \ {0}
ASSUME NoneAssumption  == None \notin Epochs \cup Sources

Record(seqs, times) ==
  [seq : seqs, ms : times, source : Sources, epoch : Epochs, says : {"position", "no position"}]
  \cup [seq : seqs, ms : times, source : {None}, epoch : {None}, says : {"other"}]

(* An answer of the Agent: device time, session, cursor of the last record, and *)
(* whether records before the first one were lost.                              *)
Reply(session, now, cursor, gap, records) ==
  [session |-> session, now |-> now, cursor |-> cursor, gap |-> gap, records |-> records]

NoPosition == [valid |-> FALSE, seq |-> 0, ms |-> 0, epoch |-> None]

NewModel == [session |-> 0, cursor |-> 0, now |-> 0, segment |-> 0,
             pos   |-> [s \in Sources |-> NoPosition],
             last  |-> [s \in Sources |-> None],
             track |-> [s \in Sources |-> <<>>]]

Fresh(now, at, limit) == now >= at /\ now - at <= limit

(* A point after a pause longer than FreshAge starts a segment of its own. *)
Point(m, p, track) ==
  LET pause == track # <<>> /\ ~Fresh(p.ms, track[Len(track)].ms, FreshAge)
  IN  [seq |-> p.seq, ms |-> p.ms, segment |-> IF pause THEN m.segment + 1 ELSE m.segment]

(* Mutant: the oldest point is never dropped. *)
Uncapped(track) == track

Capped(track) == IF Len(track) > TrackCap THEN Tail(track) ELSE track

(* append(): an invalid position breaks the tracks; a repeated epoch adds no point. *)
ExtendTrack(m, source) ==
  LET p     == m.pos[source]
      track == m.track[source]
      point == Point(m, p, track)
  IN  IF ~p.valid THEN [m EXCEPT !.last[source] = None, !.segment = @ + 1]
      ELSE IF p.epoch = m.last[source] THEN m
      ELSE [m EXCEPT !.last[source] = p.epoch, !.segment = point.segment,
                     !.track[source] = Capped(Append(track, point))]

Sentence(m, r) ==
  IF r.says = "other" THEN m
  ELSE ExtendTrack([m EXCEPT !.pos[r.source] =
                      [valid |-> r.says = "position", seq |-> r.seq, ms |-> r.ms,
                       epoch |-> r.epoch]], r.source)

(* Mutant: the tracks go on across a gap. *)
JoinedAcrossGap(m) == [m EXCEPT !.pos = [s \in Sources |-> [@[s] EXCEPT !.valid = FALSE]]]

Invalidated(pos)  == [s \in Sources |-> [pos[s] EXCEPT !.valid = FALSE]]
AcrossGap(m)      == [m EXCEPT !.segment = @ + 1, !.pos = Invalidated(@)]
InSession(m, b)   == IF m.session # 0 /\ b.session # m.session THEN NewModel ELSE m
Opened(m, b)      == [(IF b.gap THEN AcrossGap(InSession(m, b)) ELSE InSession(m, b))
                        EXCEPT !.session = b.session, !.now = b.now]
Current(pos, now) ==
  [s \in Sources |-> [pos[s] EXCEPT !.valid = @ /\ Fresh(now, pos[s].ms, FreshAge)]]

(* A record is read if it is new, or comes after a gap, and is recent. *)
Reads(m, b, r) == /\ r.seq > m.cursor \/ b.gap
                  /\ Fresh(b.now, r.ms, RecordAge)

(* The model before the first record of a reply, and after each. *)
Reading(m, b) ==
  LET read[i \in 0 .. Len(b.records)] ==
        IF i = 0 THEN m
        ELSE IF Reads(m, b, b.records[i]) THEN Sentence(read[i - 1], b.records[i])
        ELSE read[i - 1]
  IN  read

(* apply(): open the session, break at a gap, read the records, and withdraw the *)
(* positions that have grown old.                                                *)
Apply(m, b) ==
  [Reading(Opened(m, b), b)[Len(b.records)] EXCEPT !.cursor = b.cursor, !.pos = Current(@, b.now)]

(* clearTracks() *)
ClearedTracks(m) == [m EXCEPT !.track = [s \in Sources |-> <<>>],
                              !.last = [s \in Sources |-> None], !.segment = @ + 1]
=============================================================================
