----------------------------- MODULE GnssRawLog -----------------------------
(***************************************************************************)
(* Reading a log of the Agent piece by piece: parseGnssRaw of              *)
(* include/prism/usb/gnss_raw.hpp, for the receiver's original bytes, and  *)
(* parseGnssObservations of gnss_observation.hpp, for its sentences, with  *)
(* a reader that sends back the cursor and session of its last answer, as  *)
(* their requests provide for.                                             *)
(*                                                                         *)
(* The Agent is a binary: its log numbers the records of a session, keeps  *)
(* the newest, answers with as many as fit and says when some were lost.   *)
(* An answer may be damaged on its way.                                    *)
(***************************************************************************)
EXTENDS Integers, SequencesExt

CONSTANTS
  Logs,        \* of "raw" and "text"
  Kept,        \* records the Agent keeps
  PerAnswer,   \* records that fit into an answer
  MaxRaw, MaxRuns, MaxRead  \* bounds: records of a session, sessions, entries read

ASSUME LogAssumption == /\ Logs \subseteq {"raw", "text"}
                        /\ Kept \in Nat \ {0} /\ PerAnswer \in Nat \ {0}

VARIABLES
  log,       \* which log is read
  run,       \* the Agent's session
  newest,    \* its newest record; the records since oldest are kept
  cursor,    \* the reader's cursor and session
  session,
  entries    \* what it has read: records, Lost where the Agent said that some are lost,
             \* and (history) Headless where an answer came without its head

rawVars == <<log, run, newest, cursor, session, entries>>

Lost     == [session |-> 0, sequence |-> 0]
Headless == [session |-> 0, sequence |-> 1]
Oldest == IF newest > Kept THEN newest - Kept + 1 ELSE 1

RawInit ==
  /\ log \in Logs /\ run = 1 /\ newest = 0
  /\ cursor = 0 /\ session = 0 /\ entries = <<>>

-----------------------------------------------------------------------------
(* Mutant: an answer that brings nothing yet is refused. *)
HeadFitsStrictly(b) ==
  /\ b.session # 0 /\ b.oldest # 0 /\ b.oldest <= b.cursor /\ b.cursor <= b.newest
  /\ b.more = (b.cursor < b.newest)

HeadFits(b) ==
  /\ b.session # 0 /\ b.oldest # 0 /\ b.oldest - 1 <= b.cursor /\ b.cursor <= b.newest
  /\ b.more = (b.cursor < b.newest)

(* Mutant: records may be missing at the end. *)
RecordsFitAnyEnd(b) ==
  \A i \in DOMAIN b.records :
    b.records[i] \in b.oldest .. b.cursor /\ (i > 1 => b.records[i] = b.records[i - 1] + 1)

(* The records are numbered without a hole and end at the cursor. *)
RecordsFit(b) ==
  /\ \A i \in DOMAIN b.records :
       b.records[i] \in b.oldest .. b.cursor /\ (i > 1 => b.records[i] = b.records[i - 1] + 1)
  /\ b.records # <<>> => Last(b.records) = b.cursor

(* parseGnssRaw *)
AcceptsRaw(b) == HeadFits(b) /\ RecordsFit(b)

(* parseGnssObservations: the records are in order, up to the cursor. *)
AcceptsText(b) ==
  \A i \in DOMAIN b.records :
    /\ b.records[i] > 0 /\ b.records[i] <= b.cursor
    /\ i > 1 => b.records[i] > b.records[i - 1]

(* The Agent's answer to the reader's cursor and session. *)
Answer ==
  LET from  == IF session = run /\ cursor <= newest THEN cursor ELSE 0
      first == IF from + 1 >= Oldest THEN from + 1 ELSE Oldest
      end   == IF newest < first + PerAnswer THEN newest ELSE first + PerAnswer - 1
  IN  [session |-> run, cursor |-> IF end < from THEN from ELSE end,
       oldest |-> Oldest, newest |-> newest, more |-> end < newest,
       gap |-> first > from + 1 \/ session \notin {0, run},
       records |-> [i \in 1 .. end - first + 1 |-> first + i - 1]]

(* An answer as it arrives: with a record missing, repeated or out of place, cut *)
(* off at its beginning or extended, without its flag, or with a number of its head  *)
(* wrong that the reader of the original bytes can compare with something.             *)
Damaged(b) ==
  {[b EXCEPT !.records = RemoveAt(@, i)] : i \in 2 .. Len(b.records)}
  \cup {[b EXCEPT !.records = SubSeq(@, n + 1, Len(@))] : n \in DOMAIN b.records}
  \cup {[b EXCEPT !.records = InsertAt(@, i, b.records[i])] : i \in DOMAIN b.records}
  \cup {[b EXCEPT !.records = Append(@, b.cursor + 1)]}
  \cup {[b EXCEPT !.records = Reverse(@)] : i \in {j \in {1} : Len(b.records) > 1}}
  \cup {[b EXCEPT !.gap = FALSE]}
  \cup (IF log = "text" THEN {}
        ELSE {[b EXCEPT !.oldest = 0], [b EXCEPT !.session = 0],
              [b EXCEPT !.cursor = b.newest + 1], [b EXCEPT !.more = ~@]})

(* The head of the Agent's answer is gone: its flag or its first records. *)
Beheaded(b) ==
  \/ Answer.gap /\ ~b.gap
  \/ Answer.records # <<>> /\ (b.records = <<>> \/ Head(b.records) # Head(Answer.records))

-----------------------------------------------------------------------------
(* A query: an answer that is refused changes nothing, and is asked for again. *)
Accepts(b) == IF log = "raw" THEN AcceptsRaw(b) ELSE AcceptsText(b)

Query ==
  /\ Len(entries) < MaxRead
  /\ \E b \in {Answer} \cup Damaged(Answer) :
       /\ Accepts(b)
       /\ cursor' = b.cursor /\ session' = b.session
       /\ entries' = entries \o (IF b.gap THEN <<Lost>> ELSE IF Beheaded(b) THEN <<Headless>> ELSE <<>>)
                             \o [i \in DOMAIN b.records |-> [session |-> run, sequence |-> b.records[i]]]
  /\ UNCHANGED <<log, run, newest>>

Record ==
  /\ newest < MaxRaw /\ newest' = newest + 1
  /\ UNCHANGED <<log, run, cursor, session, entries>>

Restart ==
  /\ run < MaxRuns /\ run' = run + 1 /\ newest' = 0
  /\ UNCHANGED <<log, cursor, session, entries>>

RawNext == Query \/ Record \/ Restart

RawSpec == RawInit /\ [][RawNext]_rawVars

-----------------------------------------------------------------------------
(* Properties *)

(* The answers of the Agent are always accepted, whatever it has overwritten *)
(* and whether or not it has started over since.                                *)
HonestAccepted == Accepts(Answer)

(* Although answers may be damaged and the Agent overwrites its log and restarts, *)
(* nothing is read twice or out of order within a session, and original bytes are    *)
(* lost at the head of an answer only: two raw records that follow one another in     *)
(* what was read follow one another in the log, unless the Agent announced a gap or   *)
(* the answer came without its first records or its flag.  (That the parser cannot     *)
(* tell: it compares the first record with the oldest kept, not with the request.)      *)
LostOnlyAtHeads ==
  /\ \A i, j \in DOMAIN entries :
       i < j /\ entries[i].session = entries[j].session /\ entries[i].session # 0 =>
         entries[i].sequence < entries[j].sequence
  /\ log = "raw" =>
       \A i \in 2 .. Len(entries) :
         entries[i].session # 0 /\ entries[i - 1].session # 0 =>
           /\ entries[i].session = entries[i - 1].session
           /\ entries[i].sequence = entries[i - 1].sequence + 1
=============================================================================
