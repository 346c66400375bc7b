--------------------------- MODULE GnssPositions ---------------------------
(***************************************************************************)
(* PositionReader of examples/gnss_rtk/rtk_position.cpp, polling the       *)
(* Agent's log of receiver records.  Each poll asks for the records after  *)
(* its cursor and prints every position of the reply; a position that is   *)
(* invalid or old is printed without coordinates.  The reader feeds        *)
(* gnss_plot::Model one record at a time.                                  *)
(*                                                                         *)
(* The Agent is a binary, modelled from the checks of gnss_observation.hpp *)
(* and the comments of the reader: it keeps the newest records of a        *)
(* session, may answer with fewer than there are, may repeat records the   *)
(* reader has seen, and says when some are lost.  It may restart with a    *)
(* new session, and its log may start over within one (the requested       *)
(* cursor is then ahead of the device).                                    *)
(***************************************************************************)
EXTENDS GnssModel

CONSTANTS
  Retained,     \* records the Agent keeps
  MaxTime,      \* bound: device time
  MaxRecords,   \* bound: records of one log
  MaxSessions,  \* bound: sessions of the Agent
  MaxRewinds    \* bound: times the log may start over within a session

ASSUME BoundsAssumption ==
  /\ Retained \in Nat \ {0} /\ MaxTime \in Nat /\ MaxRecords \in Nat
  /\ MaxSessions \in Nat \ {0} /\ MaxRewinds \in Nat

VARIABLES
  agent,      \* the Agent: session, device time, and the records of its log
  model,      \* PositionReader::model
  available,  \* gnss_available_, rtk_available_
  reply,      \* the reply of the Agent to this poll
  out,        \* what this poll printed: of the session, of each record, at the end
  standing,   \* history: the sources whose printed position was not withdrawn
  printed,    \* history: the records of this log printed, with or without coordinates
  lost,       \* history: the records of this log a gap announced as missing
  since       \* history: the first segment that can hold only points of this log

history == <<standing, printed, lost, since>>
vars    == <<agent, model, available, reply, out, history>>

Times   == 0 .. MaxTime
Numbers == 1 .. MaxRecords
Line    == [source : Sources \cup {None}, seq : 0 .. MaxRecords,
            told : {"position", "invalid", "unavailable", "session"}]

Position   == [valid : BOOLEAN, seq : 0 .. MaxRecords, ms : Times, epoch : Epochs \cup {None}]
TrackPoint == [seq : Numbers, ms : Times, segment : Nat]

TypeOK ==
  /\ agent.session \in 1 .. MaxSessions /\ agent.rewinds \in 0 .. MaxRewinds /\ agent.now \in Times
  /\ agent.log \in Seq(Record(Numbers, Times)) /\ Len(agent.log) <= MaxRecords
  /\ model.session \in 0 .. MaxSessions /\ model.cursor \in 0 .. MaxRecords
  /\ model.now \in Times /\ model.segment \in Nat
  /\ model.pos \in [Sources -> Position]
  /\ model.last \in [Sources -> Epochs \cup {None}]
  /\ \A s \in Sources : model.track[s] \in Seq(TrackPoint) /\ Len(model.track[s]) <= TrackCap
  /\ available \in [Sources -> BOOLEAN]
  /\ reply.records \in Seq(Record(Numbers, Times))
  /\ out.session \subseteq Line /\ out.withdrawn \subseteq Line
  /\ out.records \in Seq(SUBSET Line)
  /\ standing \subseteq Sources
  /\ printed \subseteq {l \in Line : l.seq \in Numbers}
  /\ lost \subseteq Numbers
  /\ since \in Nat

NoReply == Reply(0, 0, 0, FALSE, <<>>)
Silence == [session |-> {}, records |-> <<>>, withdrawn |-> {}]

Init ==
  /\ agent = [session |-> 1, rewinds |-> 0, now |-> 0, log |-> <<>>]
  /\ model = NewModel
  /\ available = [s \in Sources |-> FALSE]
  /\ reply = NoReply
  /\ out = Silence
  /\ standing = {} /\ printed = {} /\ lost = {} /\ since = 0

-----------------------------------------------------------------------------
(* The Agent: records arrive, time passes, the process restarts. *)

(* Between two polls nothing is printed. *)
Unread == reply' = NoReply /\ out' = Silence /\ UNCHANGED <<model, available, standing>>
Quiet  == Unread /\ UNCHANGED <<printed, lost, since>>
NewLog == Unread /\ printed' = {} /\ lost' = {}

Newest == Len(agent.log)
Oldest == IF Newest > Retained THEN Newest - Retained + 1 ELSE 1

Receive ==
  \E r \in Record({Newest + 1}, {agent.now}) :
    /\ Newest < MaxRecords
    /\ agent' = [agent EXCEPT !.log = Append(@, r)]
    /\ Quiet

Tick ==
  /\ agent.now < MaxTime
  /\ agent' = [agent EXCEPT !.now = @ + 1]
  /\ Quiet

Restart ==
  /\ agent.session < MaxSessions
  /\ agent' = [session |-> agent.session + 1, rewinds |-> 0, now |-> 0, log |-> <<>>]
  /\ NewLog /\ since' = 0

Rewind ==
  /\ agent.rewinds < MaxRewinds
  /\ agent' = [agent EXCEPT !.rewinds = @ + 1, !.log = <<>>]
  /\ NewLog /\ since' = IF model.session = agent.session THEN model.segment + 1 ELSE 0

Sent(first, upto, gap) ==
  Reply(agent.session, agent.now, upto, gap, SubSeq(agent.log, first, upto))

Continued(first, upto) == Sent(first, upto, FALSE)

(* The records after the cursor, maybe preceded by some it already sent. *)
Continuations(cursor) ==
  {Continued(first, upto) : first \in Oldest .. (cursor + 1), upto \in cursor .. Newest}

Snapshot(upto, gap) == Sent(Oldest, upto, gap)

(* The oldest records, with or without the news of a gap. *)
Snapshots(gaps) == {Snapshot(upto, gap) : upto \in (Oldest - 1) .. Newest, gap \in gaps}

(* The Agent's answer to (cursor, session): when that cursor means nothing to it *)
(* it announces a gap, and to a client without its session it may.               *)
Answers(cursor, session) ==
  IF session # agent.session THEN Snapshots(BOOLEAN)
  ELSE IF cursor \in (Oldest - 1) .. Newest THEN Continuations(cursor)
  ELSE Snapshots({TRUE})

-----------------------------------------------------------------------------
(* consume(batch, out) *)

Usable(m, s) == m.pos[s].valid /\ Fresh(m.now, m.pos[s].ms, FreshAge)

(* Mutant: the coordinates of an unusable position are printed. *)
PositionLineAlways(m, s) ==
  [source |-> s, seq |-> m.pos[s].seq, told |-> "position"]

(* position(): coordinates only while they are usable. *)
PositionLine(m, s) ==
  [source |-> s, seq |-> m.pos[s].seq, told |-> IF Usable(m, s) THEN "position" ELSE "invalid"]

Part(b, cursor, gap, records) == Reply(b.session, b.now, cursor, gap, records)

ChangesSession(m, b) == m.session # 0 /\ b.session # m.session

(* Mutant: a new session is not announced. *)
NoSessionLines(m, b) == {}

SessionLines(m, b) ==
  IF ChangesSession(m, b) THEN {[source |-> None, seq |-> 0, told |-> "session"]} ELSE {}

(* Mutant: the old cursor filters the snapshot that follows a gap. *)
BegunKeepingCursor(m, b) == Apply(InSession(m, b), Part(b, InSession(m, b).cursor, b.gap, <<>>))

(* Session, gap and device time apply even without records; a gap restarts the *)
(* cursor, as it may also mean that the cursor was ahead of the device.         *)
Begun(m, b) ==
  LET m0 == InSession(m, b)
  IN  Apply(m0, Part(b, IF b.gap THEN 0 ELSE m0.cursor, b.gap, <<>>))

(* Mutant: records the reader has already seen are read again. *)
SkipsNone(m, r) == FALSE

Skips(m, r) == r.seq <= m.cursor

ReadOne(m, b, r) == IF Skips(m, r) THEN m ELSE Apply(m, Part(b, r.seq, FALSE, <<r>>))

(* Mutant: only the last record of the reply is read. *)
ReadLast(m, b) ==
  [i \in 0 .. Len(b.records) |->
     IF i < Len(b.records) \/ i = 0 THEN m ELSE ReadOne(m, b, b.records[Len(b.records)])]

(* The model before the first record of the reply, and after each. *)
ReadAll(m, b) ==
  LET read[i \in 0 .. Len(b.records)] ==
        IF i = 0 THEN m ELSE ReadOne(read[i - 1], b, b.records[i])
  IN  read

(* Mutant: only usable positions are printed. *)
PrintedIfUsable(m, r) == {PositionLine(m, s) : s \in {t \in Sources : m.pos[t].seq = r.seq /\ Usable(m, t)}}

(* The positions that carry this record's sequence number are printed. *)
PrintedFor(m, r) == {PositionLine(m, s) : s \in {t \in Sources : m.pos[t].seq = r.seq}}

RecordLines(read, b) ==
  [i \in 1 .. Len(b.records) |->
     IF Skips(read[i - 1], b.records[i]) THEN {} ELSE PrintedFor(read[i], b.records[i])]

(* availability(): a position that was usable after the last poll and is not now. *)
WithdrawnLines(before, after) ==
  {[source |-> s, seq |-> 0, told |-> "unavailable"] :
     s \in {t \in Sources : before[t] /\ ~Usable(after, t)}}

(* Which sources have a position a reader of the output still takes for current: *)
(* the last line about it shows one.                                             *)
StandingAfter(before, o) ==
  LET Tells(lines, s) == \E line \in lines : line.source = s
      Silent(i, s)    == \A j \in (i + 1) .. Len(o.records) : ~Tells(o.records[j], s)
      Shown(s) == \E i \in 1 .. Len(o.records) : \E line \in o.records[i] :
                    line.source = s /\ line.told = "position" /\ Silent(i, s)
      Kept(s)  == s \in before /\ o.session = {} /\ Silent(0, s)
  IN  {s \in Sources : (Shown(s) \/ Kept(s)) /\ ~Tells(o.withdrawn, s)}

Lines(o)   == o.session \cup o.withdrawn \cup UNION Range(o.records)
Printed(o) == {line \in Lines(o) : line.told \in {"position", "invalid"}}

(* Lost to the reader: overwritten before it asked for them. *)
Skipped(b) == IF b.gap /\ b.session = model.session
              THEN (model.cursor + 1) .. (Oldest - 1) ELSE {}

Consume(b) ==
  LET before == IF ChangesSession(model, b) THEN [s \in Sources |-> FALSE] ELSE available
      read   == ReadAll(Begun(model, b), b)
      done   == Apply(read[Len(b.records)], Part(b, b.cursor, FALSE, <<>>))
  IN  /\ model' = done
      /\ available' = [s \in Sources |-> Usable(done, s)]
      /\ out' = [session |-> SessionLines(model, b), records |-> RecordLines(read, b),
                 withdrawn |-> WithdrawnLines(before, done)]
      /\ standing' = StandingAfter(standing, out')
      /\ printed' = printed \cup Printed(out')
      /\ lost' = lost \cup Skipped(b)
      /\ UNCHANGED since

Poll ==
  \E b \in Answers(model.cursor, model.session) :
    /\ reply' = b
    /\ Consume(b)
    /\ UNCHANGED agent

(* Model::clearTracks(), for a display with something to clear (the bound: *)
(* clearing empty tracks would only count segments).                         *)
ClearTracks ==
  /\ \E s \in Sources : model.track[s] # <<>>
  /\ model' = ClearedTracks(model)
  /\ reply' = NoReply /\ out' = Silence
  /\ UNCHANGED <<agent, available, history>>

Next == ClearTracks \/ Receive \/ Tick \/ Restart \/ Rewind \/ Poll

Spec == Init /\ [][Next]_vars

-----------------------------------------------------------------------------
(* Properties *)

Replied(line) == {r \in Range(reply.records) : r.seq = line.seq /\ r.source = line.source}

(* Coordinates are printed only of a record of the reply at hand that says it  *)
(* has a position and is no older than FreshAge by the Agent's own clock,      *)
(* whatever the model remembers of earlier polls, sessions and logs.           *)
ShownIsCurrent ==
  \A line \in Lines(out) : line.told = "position" =>
    \E r \in Replied(line) :
      r.says = "position" /\ Fresh(reply.now, r.ms, FreshAge)

(* What the output leaves standing is what is usable: a position printed and   *)
(* not withdrawn since is still valid and fresh by the last reply, and no      *)
(* usable position has been withdrawn; a session change withdraws both.        *)
StandingIsUsable == standing = {s \in Sources : Usable(model, s)}

(* The coordinates of a record are printed at most once, although the Agent    *)
(* may repeat records and a gap starts the cursor over.                        *)
ShownOnce ==
  [][\A line \in Lines(out') : Poll /\ line.told = "position" =>
       line \notin printed]_vars

(* The cursor passes no report of the receiver in silence: each one is printed,*)
(* or was lost to an announced gap, or was already too old to be read.         *)
EveryRecordReported ==
  [][model'.cursor > model.cursor /\ model'.session = model.session =>
       \A r \in Range(agent.log) :
         model.cursor < r.seq /\ r.seq <= model'.cursor /\ r.says # "other" =>
           \/ \E line \in Lines(out') : line.seq = r.seq /\ line.source = r.source
           \/ r.seq \in lost'
           \/ ~Fresh(agent.now, r.ms, RecordAge)]_vars

(* Feeding the model record by record, with the cursor and the gap flag set by *)
(* hand, leaves it as one apply() of the whole reply would.                    *)
ReaderAgreesWithModel == [][Poll => model' = Apply(model, reply')]_vars

(* Two points of a track joined by a segment are close in time, and between    *)
(* them no record was lost to a gap and none was printed as having no position.*)
(* A segment may join a point of a log that started over to one of the next,   *)
(* and their numbers then mean nothing to each other.                          *)
JoinedPointsContinuous ==
  \A s \in Sources : \A i \in 1 .. (Len(model.track[s]) - 1) :
    LET p == model.track[s][i]
        q == model.track[s][i + 1]
        Between(n) == p.seq < n /\ n < q.seq
    IN  model.session = agent.session /\ p.segment = q.segment /\ p.segment >= since =>
          /\ p.seq < q.seq /\ q.ms - p.ms <= FreshAge
          /\ ~\E n \in lost : Between(n)
          /\ ~\E x \in printed : /\ Between(x.seq) /\ x.source = s
                               /\ agent.log[x.seq].says = "no position"

(* The reader never emits an unchanged cached position as a new measurement:   *)
(* whatever it prints of a source is of a record of that source in the reply.  *)
NothingCachedPrinted ==
  \A line \in Lines(out) : line.told \in {"position", "invalid"} => Replied(line) # {}
=============================================================================
