------------------------ MODULE GnssPositionsProofs ------------------------
(***************************************************************************)
(* Proofs about GnssPositions, for any sources, ages, track length and log *)
(* size.                                                                   *)
(***************************************************************************)
EXTENDS GnssPositions, WellFoundedInduction, SequenceTheorems, TLAPS

Rec    == Record(Numbers, Times)
Models == [session : 0 .. MaxSessions, cursor : 0 .. MaxRecords, now : Times, segment : Nat,
           pos : [Sources -> Position], last : [Sources -> Epochs \cup {None}],
           track : [Sources -> Seq(TrackPoint)]]
Replies == [session : 1 .. MaxSessions, now : Times, cursor : 0 .. MaxRecords, gap : BOOLEAN,
            records : Seq(Rec)]

Says == {"position", "no position", "other"}

LEMMA LeastNumber ==
  ASSUME NEW T \in SUBSET Nat, T # {}
  PROVE  \E n \in T : \A m \in T : n <= m
<1>1. PICK n \in T : \A m \in T : <<m, n>> \notin OpToRel(<, Nat)
  BY NatLessThanWellFounded, WFMin
<1>2. \A m \in T : ~(m < n)
  BY <1>1 DEF OpToRel
<1>3. QED
  BY <1>2

LEMMA RecordFacts ==
  ASSUME NEW r \in Rec
  PROVE  /\ r.seq \in Numbers /\ r.ms \in Times /\ r.says \in Says
         /\ r.says # "other" => r.source \in Sources /\ r.epoch \in Epochs
         /\ r.says = "other" => r.source \notin Sources
  BY NoneAssumption DEF Rec, Record, Says

-----------------------------------------------------------------------------
(* The loops over the records of a reply *)

Stepped(m, b, f, i) ==
  IF i = 0 THEN m
  ELSE IF Reads(m, b, b.records[i]) THEN Sentence(f[i - 1], b.records[i]) ELSE f[i - 1]
Fed(m, b, f, i) == IF i = 0 THEN m ELSE ReadOne(f[i - 1], b, b.records[i])

LEMMA SteppedExists ==
  ASSUME NEW m, NEW b, NEW n \in Nat
  PROVE  \E f : f = [i \in 0 .. n |-> Stepped(m, b, f, i)]
<1> DEFINE T == {l \in Nat : ~\E f : f = [i \in 0 .. l |-> Stepped(m, b, f, i)]}
<1>1. SUFFICES ASSUME T # {} PROVE FALSE
  OBVIOUS
<1>2. PICK l \in T : \A k \in T : l <= k
  BY <1>1, LeastNumber
<1>3. CASE l = 0
  <2> DEFINE f == [i \in 0 .. 0 |-> m]
  <2>1. f = [i \in 0 .. 0 |-> f[i]] /\ \A i \in 0 .. 0 : f[i] = m /\ i = 0
    OBVIOUS
  <2> HIDE DEF f
  <2>2. \A i \in 0 .. 0 : f[i] = Stepped(m, b, f, i)
    BY <2>1 DEF Stepped
  <2>3. f = [i \in 0 .. 0 |-> Stepped(m, b, f, i)]
    BY <2>1, <2>2
  <2>4. QED
    BY <1>3, <2>3
<1>4. CASE l # 0
  <2>1. l \in Nat /\ l - 1 \in Nat /\ ~(l <= l - 1)
    BY <1>4
  <2>2. PICK g : g = [i \in 0 .. (l - 1) |-> Stepped(m, b, g, i)]
    BY <1>2, <2>1
  <2> DEFINE f == [i \in 0 .. l |-> IF i = l THEN Stepped(m, b, g, l) ELSE g[i]]
  <2>3. \A i \in 0 .. (l - 1) : g[i] = Stepped(m, b, g, i)
    BY <2>2
  <2>4. DOMAIN f = 0 .. l /\ f = [i \in 0 .. l |-> f[i]]
    OBVIOUS
  <2>5. \A i \in 0 .. l : f[i] = IF i = l THEN Stepped(m, b, g, l) ELSE g[i]
    OBVIOUS
  <2> HIDE DEF f
  <2>6. ASSUME NEW i \in 0 .. l PROVE f[i] = Stepped(m, b, f, i)
    <3>1. i # 0 => i - 1 \in 0 .. l /\ i - 1 # l
      BY <2>1
    <3>2. i # 0 => f[i - 1] = g[i - 1]
      BY <2>5, <3>1
    <3>3. Stepped(m, b, f, i) = Stepped(m, b, g, i)
      BY <3>2 DEF Stepped
    <3>4. f[i] = Stepped(m, b, g, i)
      <4>1. CASE i = l
        BY <2>5, <4>1
      <4>2. CASE i # l
        <5>1. i \in 0 .. (l - 1)
          BY <2>1, <4>2
        <5>2. QED
          BY <2>3, <2>5, <4>2, <5>1
      <4>3. QED
        BY <4>1, <4>2
    <3>5. QED
      BY <3>3, <3>4
  <2>7. f = [i \in 0 .. l |-> Stepped(m, b, f, i)]
    BY <2>4, <2>6
  <2>8. QED
    BY <2>7
<1>5. QED
  BY <1>3, <1>4

LEMMA ReadingIs ==
  ASSUME NEW m, NEW b, Len(b.records) \in Nat
  PROVE  \A i \in 0 .. Len(b.records) : Reading(m, b)[i] = Stepped(m, b, Reading(m, b), i)
<1> DEFINE n == Len(b.records)
           f == CHOOSE f : f = [i \in 0 .. n |-> Stepped(m, b, f, i)]
<1>1. f = [i \in 0 .. n |-> Stepped(m, b, f, i)]
  BY SteppedExists
<1>2. Reading(m, b) = f
  BY DEF Reading, Stepped
<1> HIDE DEF f, n
<1>3. \A i \in 0 .. n : f[i] = Stepped(m, b, f, i)
  BY <1>1
<1>4. QED
  BY <1>2, <1>3 DEF n

LEMMA FedExists ==
  ASSUME NEW m, NEW b, NEW n \in Nat
  PROVE  \E f : f = [i \in 0 .. n |-> Fed(m, b, f, i)]
<1> DEFINE T == {l \in Nat : ~\E f : f = [i \in 0 .. l |-> Fed(m, b, f, i)]}
<1>1. SUFFICES ASSUME T # {} PROVE FALSE
  OBVIOUS
<1>2. PICK l \in T : \A k \in T : l <= k
  BY <1>1, LeastNumber
<1>3. CASE l = 0
  <2> DEFINE f == [i \in 0 .. 0 |-> m]
  <2>1. f = [i \in 0 .. 0 |-> f[i]] /\ \A i \in 0 .. 0 : f[i] = m /\ i = 0
    OBVIOUS
  <2> HIDE DEF f
  <2>2. \A i \in 0 .. 0 : f[i] = Fed(m, b, f, i)
    BY <2>1 DEF Fed
  <2>3. f = [i \in 0 .. 0 |-> Fed(m, b, f, i)]
    BY <2>1, <2>2
  <2>4. QED
    BY <1>3, <2>3
<1>4. CASE l # 0
  <2>1. l \in Nat /\ l - 1 \in Nat /\ ~(l <= l - 1)
    BY <1>4
  <2>2. PICK g : g = [i \in 0 .. (l - 1) |-> Fed(m, b, g, i)]
    BY <1>2, <2>1
  <2> DEFINE f == [i \in 0 .. l |-> IF i = l THEN Fed(m, b, g, l) ELSE g[i]]
  <2>3. \A i \in 0 .. (l - 1) : g[i] = Fed(m, b, g, i)
    BY <2>2
  <2>4. DOMAIN f = 0 .. l /\ f = [i \in 0 .. l |-> f[i]]
    OBVIOUS
  <2>5. \A i \in 0 .. l : f[i] = IF i = l THEN Fed(m, b, g, l) ELSE g[i]
    OBVIOUS
  <2> HIDE DEF f
  <2>6. ASSUME NEW i \in 0 .. l PROVE f[i] = Fed(m, b, f, i)
    <3>1. i # 0 => i - 1 \in 0 .. l /\ i - 1 # l
      BY <2>1
    <3>2. i # 0 => f[i - 1] = g[i - 1]
      BY <2>5, <3>1
    <3>3. Fed(m, b, f, i) = Fed(m, b, g, i)
      BY <3>2 DEF Fed
    <3>4. f[i] = Fed(m, b, g, i)
      <4>1. CASE i = l
        BY <2>5, <4>1
      <4>2. CASE i # l
        <5>1. i \in 0 .. (l - 1)
          BY <2>1, <4>2
        <5>2. QED
          BY <2>3, <2>5, <4>2, <5>1
      <4>3. QED
        BY <4>1, <4>2
    <3>5. QED
      BY <3>3, <3>4
  <2>7. f = [i \in 0 .. l |-> Fed(m, b, f, i)]
    BY <2>4, <2>6
  <2>8. QED
    BY <2>7
<1>5. QED
  BY <1>3, <1>4

LEMMA ReadAllIs ==
  ASSUME NEW m, NEW b, Len(b.records) \in Nat
  PROVE  \A i \in 0 .. Len(b.records) : ReadAll(m, b)[i] = Fed(m, b, ReadAll(m, b), i)
<1> DEFINE n == Len(b.records)
           f == CHOOSE f : f = [i \in 0 .. n |-> Fed(m, b, f, i)]
<1>1. f = [i \in 0 .. n |-> Fed(m, b, f, i)]
  BY FedExists
<1>2. ReadAll(m, b) = f
  BY DEF ReadAll, Fed
<1> HIDE DEF f, n
<1>3. \A i \in 0 .. n : f[i] = Fed(m, b, f, i)
  BY <1>1
<1>4. QED
  BY <1>2, <1>3 DEF n


-----------------------------------------------------------------------------
(* One sentence *)

Bounded(m) == \A s \in Sources : Len(m.track[s]) <= TrackCap

LEMMA ModelFacts ==
  ASSUME NEW m \in Models
  PROVE  /\ m.session \in 0 .. MaxSessions /\ m.cursor \in 0 .. MaxRecords /\ m.now \in Times
         /\ m.segment \in Nat /\ m.pos \in [Sources -> Position]
         /\ m.last \in [Sources -> Epochs \cup {None}] /\ m.track \in [Sources -> Seq(TrackPoint)]
         /\ m = [session |-> m.session, cursor |-> m.cursor, now |-> m.now, segment |-> m.segment,
                 pos |-> m.pos, last |-> m.last, track |-> m.track]
  BY DEF Models

(* A track one point longer, without its oldest point if it is too long. *)
LEMMA CappedFacts ==
  ASSUME NEW t \in Seq(TrackPoint), NEW p \in TrackPoint, Len(t) <= TrackCap
  PROVE  LET c == Capped(Append(t, p))
         IN  /\ c \in Seq(TrackPoint) /\ Len(c) <= TrackCap /\ Len(c) \in Nat \ {0} /\ c[Len(c)] = p
             /\ \E d \in {0, 1} : /\ Len(c) = Len(t) + 1 - d
                                  /\ \A i \in 1 .. (Len(c) - 1) : i + d \in 1 .. Len(t) /\ c[i] = t[i + d]
<1> DEFINE a == Append(t, p)
           c == Capped(a)
<1>0. TrackCap \in Nat \ {0} /\ Len(t) \in Nat
  BY TrackAssumption
<1>1. /\ a \in Seq(TrackPoint) /\ Len(a) = Len(t) + 1 /\ a[Len(t) + 1] = p /\ a # <<>>
      /\ \A i \in 1 .. Len(t) : a[i] = t[i]
  OBVIOUS
<1> HIDE DEF a
<1>2. \E d \in {0, 1} : /\ c \in Seq(TrackPoint) /\ Len(c) = Len(t) + 1 - d
                        /\ Len(c) <= TrackCap /\ Len(c) # 0 /\ \A i \in 1 .. Len(c) : c[i] = a[i + d]
  <2>1. CASE Len(a) > TrackCap
    <3>1. c = Tail(a)
      BY <2>1 DEF Capped
    <3>2. /\ Tail(a) \in Seq(TrackPoint) /\ Len(Tail(a)) = Len(a) - 1
          /\ \A i \in 1 .. (Len(a) - 1) : Tail(a)[i] = a[i + 1]
      BY <1>1
    <3> HIDE DEF c
    <3>3. Len(c) = Len(t) + 1 - 1
      BY <1>0, <1>1, <3>1, <3>2
    <3>4. Len(c) <= TrackCap /\ Len(c) # 0
      BY <1>0, <1>1, <2>1, <3>3
    <3>5. c \in Seq(TrackPoint) /\ \A i \in 1 .. Len(c) : c[i] = a[i + 1]
      BY <3>1, <3>2
    <3>6. QED
      BY <3>3, <3>4, <3>5
  <2>2. CASE ~(Len(a) > TrackCap)
    <3>1. c = a
      BY <2>2 DEF Capped
    <3> HIDE DEF c
    <3>2. \A i \in 1 .. Len(c) : c[i] = a[i + 0]
      BY <3>1
    <3>3. QED
      BY <1>0, <1>1, <2>2, <3>1, <3>2
  <2>3. QED
    BY <2>1, <2>2
<1>3. c = Capped(Append(t, p))
  BY DEF a
<1> HIDE DEF c
<1>4. PICK d \in {0, 1} : /\ c \in Seq(TrackPoint) /\ Len(c) = Len(t) + 1 - d
                        /\ Len(c) <= TrackCap /\ Len(c) # 0 /\ \A i \in 1 .. Len(c) : c[i] = a[i + d]
  BY <1>2
<1>5. Len(c) \in Nat \ {0}
  BY <1>4
<1>6. c[Len(c)] = p
  <2>1. Len(c) + d = Len(t) + 1 /\ Len(c) \in 1 .. Len(c)
    BY <1>0, <1>4, <1>5
  <2>2. QED
    BY <1>1, <1>4, <2>1
<1>7. \A i \in 1 .. (Len(c) - 1) : i + d \in 1 .. Len(t) /\ c[i] = t[i + d]
  <2> SUFFICES ASSUME NEW i \in 1 .. (Len(c) - 1) PROVE i + d \in 1 .. Len(t) /\ c[i] = t[i + d]
    OBVIOUS
  <2>1. i + d \in 1 .. Len(t) /\ i \in 1 .. Len(c)
    BY <1>0, <1>4, <1>5
  <2>2. QED
    BY <1>1, <1>4, <2>1
<1>8. QED
  BY <1>3, <1>4, <1>5, <1>6, <1>7, Zenon

(* What append() does to a model: nothing, a break, or a point more. *)
Same(x, m)       == x.segment = m.segment /\ x.track = m.track /\ x.last = m.last
Broken(x, m, s)  == x.segment = m.segment + 1 /\ x.track = m.track /\ x.last = [m.last EXCEPT ![s] = None]
Longer(x, m, s, q) ==
  /\ x.segment = q.segment /\ x.track = [m.track EXCEPT ![s] = Capped(Append(m.track[s], q))]

LEMMA ExtendFacts ==
  ASSUME NEW m \in Models, NEW s \in Sources, m.pos[s].seq \in Numbers, Bounded(m)
  PROVE  LET x == ExtendTrack(m, s)
             p == m.pos[s]
             q == Point(m, p, m.track[s])
         IN  /\ x \in Models /\ Bounded(x) /\ x.pos = m.pos /\ x.segment >= m.segment
             /\ x.session = m.session /\ x.cursor = m.cursor /\ x.now = m.now
             /\ q \in TrackPoint /\ q.seq = p.seq /\ q.ms = p.ms
             /\ ~p.valid => Broken(x, m, s)
             /\ p.valid /\ p.epoch = m.last[s] => x = m
             /\ p.valid /\ p.epoch # m.last[s] =>
                  Longer(x, m, s, q) /\ x.last = [m.last EXCEPT ![s] = p.epoch]
<1> DEFINE p == m.pos[s]
           t == m.track[s]
           q == Point(m, p, t)
           x == ExtendTrack(m, s)
<1>0. /\ p \in Position /\ p.valid \in BOOLEAN /\ p.epoch \in Epochs \cup {None} /\ p.ms \in Times
      /\ t \in Seq(TrackPoint) /\ m.segment \in Nat /\ Len(t) <= TrackCap
  BY ModelFacts DEF Position, Bounded
<1>1. /\ q \in TrackPoint /\ q.seq = p.seq /\ q.ms = p.ms /\ q.segment \in Nat /\ q.segment >= m.segment
  BY <1>0 DEF Point, TrackPoint
<1> HIDE DEF q
<1>2. CASE ~p.valid
  <2>1. x = [m EXCEPT !.last[s] = None, !.segment = @ + 1]
    BY <1>2 DEF ExtendTrack
  <2>2. /\ x.session = m.session /\ x.cursor = m.cursor /\ x.now = m.now /\ x.pos = m.pos
        /\ x.track = m.track /\ x.segment = m.segment + 1 /\ x.last = [m.last EXCEPT ![s] = None]
    BY <2>1 DEF Models
  <2>4. x \in Models
    <3> PICK g \in Nat : g = m.segment + 1
      BY <1>0
    <3>1. x = [m EXCEPT !.last[s] = None, !.segment = g]
      BY <2>1
    <3> HIDE DEF x
    <3>2. QED
      BY <3>1 DEF Models
  <2> HIDE DEF x
  <2>5. QED
    BY <1>0, <1>1, <1>2, <2>2, <2>4 DEF Bounded, Broken, x, q
<1>3. CASE p.valid /\ p.epoch = m.last[s]
  <2>1. x = m
    BY <1>3 DEF ExtendTrack
  <2>2. QED
    BY <1>0, <1>1, <1>3, <2>1 DEF q
<1>4. CASE p.valid /\ p.epoch # m.last[s]
  <2> DEFINE c == Capped(Append(t, q))
  <2>1. x = [m EXCEPT !.last[s] = p.epoch, !.segment = q.segment, !.track[s] = c]
    BY <1>4 DEF ExtendTrack, q
  <2>2. c \in Seq(TrackPoint) /\ Len(c) <= TrackCap
    BY <1>0, <1>1, CappedFacts
  <2> HIDE DEF c
  <2>3. /\ x.session = m.session /\ x.cursor = m.cursor /\ x.now = m.now /\ x.pos = m.pos
        /\ x.track = [m.track EXCEPT ![s] = c] /\ x.segment = q.segment
        /\ x.last = [m.last EXCEPT ![s] = p.epoch]
    BY <2>1 DEF Models
  <2>5. x \in Models
    <3> PICK e, g : e = p.epoch /\ g = q.segment
      OBVIOUS
    <3>1. x = [m EXCEPT !.last[s] = e, !.segment = g, !.track[s] = c]
      BY <2>1
    <3>2. e \in Epochs \cup {None} /\ g \in Nat
      BY <1>0, <1>1
    <3> HIDE DEF x, p
    <3>3. QED
      BY <2>2, <3>1, <3>2 DEF Models
  <2> HIDE DEF x
  <2>6. \A k \in Sources : x.track[k] = IF k = s THEN c ELSE m.track[k]
    BY <2>3, ModelFacts
  <2>7. Bounded(x)
    BY <2>2, <2>6 DEF Bounded
  <2>8. QED
    BY <1>0, <1>1, <1>4, <2>3, <2>5, <2>7 DEF Longer, x, q, c
<1>5. QED
  BY <1>0, <1>2, <1>3, <1>4

(* The position a record reports, and the model that knows it. *)
Told(r)     == [valid |-> r.says = "position", seq |-> r.seq, ms |-> r.ms, epoch |-> r.epoch]
Knows(m, r) == [m EXCEPT !.pos[r.source] = Told(r)]

LEMMA KnowsFacts ==
  ASSUME NEW m \in Models, NEW r \in Rec, r.says # "other"
  PROVE  /\ r.source \in Sources /\ Told(r) \in Position /\ Told(r).seq = r.seq /\ Told(r).ms = r.ms
         /\ Told(r).valid = (r.says = "position") /\ Told(r).epoch = r.epoch
         /\ Knows(m, r) \in Models /\ Knows(m, r).pos = [m.pos EXCEPT ![r.source] = Told(r)]
         /\ Knows(m, r).session = m.session /\ Knows(m, r).cursor = m.cursor /\ Knows(m, r).now = m.now
         /\ Same(Knows(m, r), m) /\ Sentence(m, r) = ExtendTrack(Knows(m, r), r.source)
<1> DEFINE p == Told(r)
           k == Knows(m, r)
<1>1. /\ r.source \in Sources /\ r.seq \in Numbers /\ r.ms \in Times /\ r.epoch \in Epochs
  BY RecordFacts
<1>2. p \in Position /\ p.seq = r.seq /\ p.ms = r.ms /\ p.valid = (r.says = "position") /\ p.epoch = r.epoch
  BY <1>1 DEF Told, Position, Numbers
<1>3. Sentence(m, r) = ExtendTrack(k, r.source)
  BY DEF Sentence, Knows, Told
<1>4. k = [m EXCEPT !.pos[r.source] = p]
  BY DEF Knows
<1> HIDE DEF p, k
<1>5. /\ k.pos = [m.pos EXCEPT ![r.source] = p] /\ Same(k, m)
      /\ k.session = m.session /\ k.cursor = m.cursor /\ k.now = m.now
  BY <1>4 DEF Models, Same
<1>7. k \in Models
  <2> PICK s \in Sources : s = r.source
    BY <1>1
  <2>1. k = [m EXCEPT !.pos[s] = p]
    BY <1>4
  <2>2. QED
    BY <1>2, <2>1 DEF Models
<1>8. QED
  BY <1>1, <1>2, <1>3, <1>5, <1>7 DEF p, k

-----------------------------------------------------------------------------
(* One call of apply() by the reader *)

Settled(m, c)  == [m EXCEPT !.cursor = c, !.pos = Current(@, m.now)]
Read(m, r)     == Settled(IF Fresh(m.now, r.ms, RecordAge) THEN Sentence(m, r) ELSE m, r.seq)
Reported(m, r) == Fresh(m.now, r.ms, RecordAge) /\ r.says # "other"

(* A position the model holds for valid is fresh, and not ahead of the cursor. *)
Sound(m) == \A s \in Sources : m.pos[s].valid => /\ Fresh(m.now, m.pos[s].ms, FreshAge)
                                                 /\ m.pos[s].seq <= m.cursor

LEMMA CurrentFacts ==
  ASSUME NEW pos \in [Sources -> Position], NEW now \in Times
  PROVE  /\ Current(pos, now) \in [Sources -> Position]
         /\ \A s \in Sources :
              /\ Current(pos, now)[s].valid = (pos[s].valid /\ Fresh(now, pos[s].ms, FreshAge))
              /\ Current(pos, now)[s].seq = pos[s].seq /\ Current(pos, now)[s].ms = pos[s].ms
              /\ pos[s].valid = FALSE \/ Fresh(now, pos[s].ms, FreshAge) => Current(pos, now)[s] = pos[s]
<1> DEFINE c == Current(pos, now)
<1>1. DOMAIN c = Sources /\ c = [s \in Sources |-> c[s]]
  BY DEF Current
<1>2. ASSUME NEW s \in Sources
      PROVE  /\ c[s] \in Position
             /\ c[s].valid = (pos[s].valid /\ Fresh(now, pos[s].ms, FreshAge))
             /\ c[s].seq = pos[s].seq /\ c[s].ms = pos[s].ms
             /\ pos[s].valid = FALSE \/ Fresh(now, pos[s].ms, FreshAge) => c[s] = pos[s]
  <2> PICK p \in Position : p = pos[s]
    OBVIOUS
  <2> PICK v \in BOOLEAN : v = (p.valid /\ Fresh(now, p.ms, FreshAge))
    OBVIOUS
  <2>1. c[s] = [p EXCEPT !.valid = v]
    BY DEF Current
  <2> PICK q : q = [p EXCEPT !.valid = v]
    OBVIOUS
  <2>2. q \in Position /\ q.valid = v /\ q.seq = p.seq /\ q.ms = p.ms
    BY DEF Position
  <2>3. v = p.valid => q = p
    BY DEF Position
  <2>4. p.valid \in BOOLEAN
    BY DEF Position
  <2> HIDE DEF c
  <2>5. QED
    BY <2>1, <2>2, <2>3, <2>4
<1> HIDE DEF c
<1>3. c \in [Sources -> Position]
  BY <1>1, <1>2
<1>4. QED
  BY <1>2, <1>3 DEF c

LEMMA CurrentSame ==
  ASSUME NEW pos \in [Sources -> Position], NEW now \in Times,
         \A s \in Sources : pos[s].valid => Fresh(now, pos[s].ms, FreshAge)
  PROVE  Current(pos, now) = pos
<1>1. \A s \in Sources : pos[s] \in Position /\ pos[s].valid \in BOOLEAN
  BY DEF Position
<1> PICK c : c = Current(pos, now)
  OBVIOUS
<1>2. c \in [Sources -> Position] /\ \A s \in Sources : c[s] = pos[s]
  BY <1>1, CurrentFacts
<1>3. c = pos
  BY <1>2
<1>4. QED
  BY <1>3

LEMMA SettledFacts ==
  ASSUME NEW m \in Models, Bounded(m), NEW c \in 0 .. MaxRecords,
         \A s \in Sources : m.pos[s].valid => m.pos[s].seq <= c
  PROVE  LET x == Settled(m, c)
         IN  /\ x \in Models /\ Bounded(x) /\ Sound(x) /\ Same(x, m)
             /\ x.session = m.session /\ x.now = m.now /\ x.cursor = c /\ x.pos = Current(m.pos, m.now)
<1> DEFINE x == Settled(m, c)
<1> PICK p : p = Current(m.pos, m.now)
  OBVIOUS
<1>0. p \in [Sources -> Position]
  BY ModelFacts, CurrentFacts
<1>1. x = [m EXCEPT !.cursor = c, !.pos = p]
  BY DEF Settled
<1>2. x \in Models
  BY <1>0, <1>1 DEF Models
<1>3. Same(x, m) /\ x.session = m.session /\ x.now = m.now /\ x.cursor = c /\ x.pos = p
  BY <1>1 DEF Same, Models
<1> HIDE DEF x
<1>4. Bounded(x)
  BY <1>3 DEF Bounded, Same
<1>5. Sound(x)
  <2>1. m.pos \in [Sources -> Position] /\ m.now \in Times
    BY ModelFacts
  <2>2. \A s \in Sources : /\ p[s].valid = (m.pos[s].valid /\ Fresh(m.now, m.pos[s].ms, FreshAge))
                           /\ p[s].seq = m.pos[s].seq /\ p[s].ms = m.pos[s].ms
    BY <2>1, CurrentFacts
  <2>3. QED
    BY <1>3, <2>2 DEF Sound
<1>6. QED
  BY <1>2, <1>3, <1>4, <1>5 DEF x

LEMMA SettledAt ==
  ASSUME NEW e \in Models, NEW x, x.pos = Current(e.pos, e.now), NEW s \in Sources
  PROVE  /\ x.pos[s].valid = (e.pos[s].valid /\ Fresh(e.now, e.pos[s].ms, FreshAge))
         /\ x.pos[s].seq = e.pos[s].seq /\ x.pos[s].ms = e.pos[s].ms
<1> PICK pos, now : pos = e.pos /\ now = e.now
  OBVIOUS
<1>1. pos \in [Sources -> Position] /\ now \in Times
  BY ModelFacts
<1>2. /\ Current(pos, now)[s].valid = (pos[s].valid /\ Fresh(now, pos[s].ms, FreshAge))
      /\ Current(pos, now)[s].seq = pos[s].seq /\ Current(pos, now)[s].ms = pos[s].ms
  BY <1>1, CurrentFacts
<1>3. QED
  BY <1>2

LEMMA ReadFacts ==
  ASSUME NEW m \in Models, Bounded(m), Sound(m), NEW r \in Rec, ~Skips(m, r)
  PROVE  LET x == Read(m, r)
         IN  /\ x \in Models /\ Bounded(x) /\ Sound(x) /\ x.segment >= m.segment
             /\ x.session = m.session /\ x.now = m.now /\ x.cursor = r.seq
             /\ \A s \in Sources :
                  IF Reported(m, r) /\ r.source = s
                  THEN /\ x.pos[s].valid = (r.says = "position" /\ Fresh(m.now, r.ms, FreshAge))
                       /\ x.pos[s].seq = r.seq /\ x.pos[s].ms = r.ms
                  ELSE x.pos[s] = m.pos[s]
             /\ ~Reported(m, r) => Same(x, m)
             /\ Reported(m, r) /\ r.says = "no position" => Broken(x, m, r.source)
             /\ Reported(m, r) /\ r.says = "position" /\ r.epoch = m.last[r.source] => Same(x, m)
             /\ Reported(m, r) /\ r.says = "position" /\ r.epoch # m.last[r.source] =>
                  LET q == Point(m, Told(r), m.track[r.source])
                  IN  q \in TrackPoint /\ q.seq = r.seq /\ q.ms = r.ms /\ Longer(x, m, r.source, q)
<1> DEFINE x == Read(m, r)
<1>0. /\ r.seq \in Numbers /\ r.seq \in 0 .. MaxRecords /\ r.ms \in Times /\ m.cursor \in 0 .. MaxRecords
      /\ m.pos \in [Sources -> Position] /\ m.now \in Times /\ m.segment \in Nat
      /\ \A s \in Sources : m.pos[s] \in Position /\ m.pos[s].valid \in BOOLEAN /\ m.pos[s].seq \in 0 .. MaxRecords
      /\ r.says \in Says
  <2>1. /\ r.seq \in Numbers /\ r.seq \in 0 .. MaxRecords /\ r.ms \in Times
        /\ r.says \in Says
    <3>1. /\ r.seq \in Numbers /\ r.ms \in Times
          /\ r.says \in Says
      BY RecordFacts, Zenon
    <3> PICK n : n = r.seq
      OBVIOUS
    <3>2. n \in 0 .. MaxRecords
      BY <3>1, BoundsAssumption DEF Numbers
    <3>3. QED
      BY <3>1, <3>2
  <2>2. m.pos \in [Sources -> Position] /\ m.now \in Times /\ m.segment \in Nat /\ m.cursor \in 0 .. MaxRecords
    BY ModelFacts
  <2>3. \A s \in Sources : m.pos[s] \in Position
    BY <2>2
  <2>4. QED
    BY <2>1, <2>2, <2>3 DEF Position
<1>1. CASE ~Reported(m, r)
  <2>1. x = Settled(m, r.seq)
    BY <1>1 DEF Read, Reported, Sentence
  <2> HIDE DEF x
  <2>2. \A s \in Sources : m.pos[s].valid => m.pos[s].seq <= r.seq
    <3> SUFFICES ASSUME NEW s \in Sources, m.pos[s].valid PROVE m.pos[s].seq <= r.seq
      OBVIOUS
    <3>1. m.pos[s].seq <= m.cursor
      BY DEF Sound
    <3> PICK n : n = m.pos[s].seq
      OBVIOUS
    <3>2. n \in 0 .. MaxRecords
      BY <1>0
    <3>3. n <= r.seq
      BY <1>0, <3>1, <3>2, BoundsAssumption DEF Skips
    <3>4. QED
      BY <3>3
  <2>3. /\ x \in Models /\ Bounded(x) /\ Sound(x) /\ Same(x, m)
        /\ x.session = m.session /\ x.now = m.now /\ x.cursor = r.seq /\ x.pos = Current(m.pos, m.now)
    BY <1>0, <2>1, <2>2, SettledFacts
  <2>4. x.pos = m.pos
    BY <1>0, <2>3, CurrentSame DEF Sound
  <2>5. x.segment >= m.segment
    <3>1. x.segment = m.segment /\ m.segment \in Nat
      BY <1>0, <2>3 DEF Same
    <3>2. QED
      BY <3>1
  <2>6. QED
    BY <1>1, <2>3, <2>4, <2>5 DEF x
<1>2. CASE Reported(m, r)
  <2> PICK s : s = r.source
    OBVIOUS
  <2> PICK k : k = Knows(m, r)
    OBVIOUS
  <2> PICK e : e = ExtendTrack(k, s)
    OBVIOUS
  <2> PICK p : p = Told(r)
    OBVIOUS
  <2>1. /\ s \in Sources /\ p \in Position /\ p.seq = r.seq /\ p.ms = r.ms
        /\ p.valid = (r.says = "position") /\ p.epoch = r.epoch
        /\ k \in Models /\ k.pos = [m.pos EXCEPT ![s] = p]
        /\ k.session = m.session /\ k.cursor = m.cursor /\ k.now = m.now /\ Same(k, m)
    BY <1>2, KnowsFacts DEF Reported
  <2>2. Sentence(m, r) = e
    BY <1>2, KnowsFacts DEF Reported
  <2>3. x = Settled(e, r.seq)
    BY <1>2, <2>2 DEF Read, Reported
  <2> HIDE DEF x
  <2>4. \A t \in Sources : k.pos[t] = IF t = s THEN p ELSE m.pos[t]
    BY <1>0, <2>1
  <2>5. Bounded(k) /\ k.pos[s].seq \in Numbers
    BY <1>0, <2>1, <2>4 DEF Bounded, Same
  <2> PICK q : q = Point(k, p, k.track[s])
    OBVIOUS
  <2>6. /\ e \in Models /\ Bounded(e) /\ e.pos = k.pos /\ e.segment >= k.segment
        /\ e.session = k.session /\ e.cursor = k.cursor /\ e.now = k.now
        /\ q \in TrackPoint /\ q.seq = p.seq /\ q.ms = p.ms
        /\ ~p.valid => Broken(e, k, s)
        /\ p.valid /\ p.epoch = k.last[s] => e = k
        /\ p.valid /\ p.epoch # k.last[s] => Longer(e, k, s, q)
    <3>1. k.pos[s] = p
      BY <2>1, <2>4
    <3>2. /\ e \in Models /\ Bounded(e) /\ e.pos = k.pos /\ e.segment >= k.segment
          /\ e.session = k.session /\ e.cursor = k.cursor /\ e.now = k.now
      BY <2>1, <2>5, ExtendFacts, ZenonT(60)
    <3>3. LET u == k.pos[s]
          IN  /\ Point(k, u, k.track[s]) \in TrackPoint
              /\ Point(k, u, k.track[s]).seq = u.seq /\ Point(k, u, k.track[s]).ms = u.ms
              /\ ~u.valid => Broken(e, k, s)
              /\ u.valid /\ u.epoch = k.last[s] => e = k
              /\ u.valid /\ u.epoch # k.last[s] => Longer(e, k, s, Point(k, u, k.track[s]))
      BY <2>1, <2>5, ExtendFacts, ZenonT(60)
    <3>4. /\ q \in TrackPoint /\ q.seq = p.seq /\ q.ms = p.ms
          /\ ~p.valid => Broken(e, k, s)
          /\ p.valid /\ p.epoch = k.last[s] => e = k
          /\ p.valid /\ p.epoch # k.last[s] => Longer(e, k, s, q)
      BY <3>1, <3>3
    <3>5. QED
      BY <3>2, <3>4
  <2>7. \A t \in Sources : e.pos[t].valid => e.pos[t].seq <= r.seq
    <3> SUFFICES ASSUME NEW t \in Sources, e.pos[t].valid PROVE e.pos[t].seq <= r.seq
      OBVIOUS
    <3>1. CASE t = s
      <4>1. e.pos[t].seq = r.seq
        BY <2>1, <2>4, <2>6, <3>1
      <4> PICK n : n = r.seq
        OBVIOUS
      <4>2. n <= n
        BY <1>0, BoundsAssumption
      <4>3. QED
        BY <4>1, <4>2
    <3>2. CASE t # s
      <4>1. e.pos[t] = m.pos[t]
        BY <2>4, <2>6, <3>2
      <4>2. m.pos[t].seq <= m.cursor
        BY <4>1 DEF Sound
      <4> PICK n : n = m.pos[t].seq
        OBVIOUS
      <4>3. n \in 0 .. MaxRecords
        BY <1>0
      <4>4. n <= r.seq
        BY <1>0, <4>2, <4>3, BoundsAssumption DEF Skips
      <4>5. QED
        BY <4>1, <4>4
    <3>3. QED
      BY <3>1, <3>2
  <2>8. /\ x \in Models /\ Bounded(x) /\ Sound(x) /\ Same(x, e)
        /\ x.session = e.session /\ x.now = e.now /\ x.cursor = r.seq /\ x.pos = Current(e.pos, e.now)
    BY <1>0, <2>3, <2>6, <2>7, SettledFacts
  <2>9. q = Point(m, Told(r), m.track[s])
    BY <2>1 DEF Point, Same
  <2>10. /\ ~p.valid => Broken(x, m, s)
         /\ p.valid /\ p.epoch = m.last[s] => Same(x, m)
         /\ p.valid /\ p.epoch # m.last[s] => Longer(x, m, s, q)
    BY <2>1, <2>6, <2>8 DEF Same, Broken, Longer
  <2>11. x.segment >= m.segment
    BY <1>0, <2>1, <2>6, <2>8 DEF Same
  <2>11a. /\ x.pos[s].valid = (p.valid /\ Fresh(m.now, p.ms, FreshAge))
          /\ x.pos[s].seq = p.seq /\ x.pos[s].ms = p.ms
    <3>1. e.pos \in [Sources -> Position] /\ e.now \in Times /\ e.pos[s] = p /\ e.now = m.now
      BY <1>0, <2>1, <2>4, <2>6, ModelFacts
    <3>2. /\ x.pos[s].valid = (e.pos[s].valid /\ Fresh(e.now, e.pos[s].ms, FreshAge))
          /\ x.pos[s].seq = e.pos[s].seq /\ x.pos[s].ms = e.pos[s].ms
      <4>1. e \in Models /\ s \in Sources /\ x.pos = Current(e.pos, e.now)
        BY <2>1, <2>6, <2>8
      <4>2. QED
        BY <4>1, SettledAt
    <3>3. QED
      BY <3>1, <3>2
  <2>12. x.pos[s].valid = (r.says = "position" /\ Fresh(m.now, r.ms, FreshAge))
    BY <1>0, <2>1, <2>11a
  <2>13. x.pos[s].seq = r.seq /\ x.pos[s].ms = r.ms
    BY <1>0, <2>1, <2>11a
  <2>14. ASSUME NEW t \in Sources, t # s PROVE x.pos[t] = m.pos[t]
    <3>1. e.pos \in [Sources -> Position] /\ e.now \in Times /\ e.pos[t] = m.pos[t] /\ e.now = m.now
      BY <1>0, <2>1, <2>4, <2>6, <2>14, ModelFacts
    <3>2. m.pos[t].valid = FALSE \/ Fresh(m.now, m.pos[t].ms, FreshAge)
      BY <1>0 DEF Sound
    <3>3. e.pos[t].valid = FALSE \/ Fresh(e.now, e.pos[t].ms, FreshAge)
      BY <3>1, <3>2
    <3>4. Current(e.pos, e.now)[t] = e.pos[t]
      BY <3>1, <3>3, CurrentFacts, Zenon
    <3>5. QED
      BY <2>8, <3>1, <3>4
  <2>15. r.says = "no position" => ~p.valid
    BY <2>1
  <2>16. QED
    BY <1>2, <2>1, <2>6, <2>8, <2>9, <2>10, <2>11, <2>12, <2>13, <2>14, <2>15 DEF x
<1>3. QED
  BY <1>1, <1>2

-----------------------------------------------------------------------------
(* Opening a reply *)

LEMMA NewModelFacts ==
  /\ NewModel \in Models /\ Bounded(NewModel) /\ Sound(NewModel)
  /\ NewModel.session = 0 /\ NewModel.cursor = 0 /\ NewModel.segment = 0
  /\ \A s \in Sources : ~NewModel.pos[s].valid /\ NewModel.track[s] = <<>>
<1>1. NoPosition \in Position /\ ~NoPosition.valid
  BY BoundsAssumption DEF NoPosition, Position, Times
<1> PICK p, l, t : /\ p = [s \in Sources |-> NoPosition] /\ l = [s \in Sources |-> None]
                   /\ t = [s \in Sources |-> <<>>]
  OBVIOUS
<1>2. p \in [Sources -> Position] /\ \A s \in Sources : ~p[s].valid
  BY <1>1
<1>3. l \in [Sources -> Epochs \cup {None}]
  OBVIOUS
<1>4. t \in [Sources -> Seq(TrackPoint)] /\ \A s \in Sources : t[s] = <<>>
  OBVIOUS
<1>5. NewModel = [session |-> 0, cursor |-> 0, now |-> 0, segment |-> 0, pos |-> p, last |-> l, track |-> t]
  BY DEF NewModel
<1>6. 0 \in 0 .. MaxSessions /\ 0 \in 0 .. MaxRecords /\ 0 \in Times /\ 0 \in Nat
  BY BoundsAssumption DEF Times
<1>7. NewModel \in Models
  BY <1>2, <1>3, <1>4, <1>5, <1>6 DEF Models
<1>8. NewModel.pos = p /\ NewModel.track = t /\ NewModel.session = 0 /\ NewModel.cursor = 0 /\ NewModel.segment = 0
  BY <1>5
<1>9. Bounded(NewModel)
  <2>1. Len(<<>>) <= TrackCap
    BY TrackAssumption
  <2>2. QED
    BY <1>4, <1>8, <2>1 DEF Bounded
<1>10. QED
  BY <1>2, <1>4, <1>7, <1>8, <1>9 DEF Sound

LEMMA InvalidatedFacts ==
  ASSUME NEW pos \in [Sources -> Position]
  PROVE  /\ Invalidated(pos) \in [Sources -> Position]
         /\ \A s \in Sources : ~Invalidated(pos)[s].valid /\ Invalidated(pos)[s].seq = pos[s].seq
<1> DEFINE c == Invalidated(pos)
<1>1. DOMAIN c = Sources /\ c = [s \in Sources |-> c[s]]
  BY DEF Invalidated
<1>2. ASSUME NEW s \in Sources PROVE c[s] \in Position /\ ~c[s].valid /\ c[s].seq = pos[s].seq
  <2> PICK p \in Position : p = pos[s]
    OBVIOUS
  <2>1. c[s] = [p EXCEPT !.valid = FALSE]
    BY DEF Invalidated
  <2> HIDE DEF c
  <2>2. QED
    BY <2>1 DEF Position
<1> HIDE DEF c
<1>3. QED
  BY <1>1, <1>2 DEF c

LEMMA InSessionFacts ==
  ASSUME NEW m \in Models, Bounded(m), Sound(m), NEW b \in Replies
  PROVE  /\ InSession(m, b) \in Models /\ Bounded(InSession(m, b)) /\ Sound(InSession(m, b))
         /\ ChangesSession(m, b) => InSession(m, b) = NewModel
         /\ ~ChangesSession(m, b) => InSession(m, b) = m
  BY NewModelFacts DEF InSession, ChangesSession

LEMMA OpenedFacts ==
  ASSUME NEW m \in Models, Bounded(m), NEW b \in Replies, NEW i \in Models, i = InSession(m, b), Bounded(i)
  PROVE  /\ Opened(m, b) \in Models /\ Bounded(Opened(m, b))
         /\ Opened(m, b).session = b.session /\ Opened(m, b).now = b.now /\ Opened(m, b).cursor = i.cursor
         /\ Opened(m, b).track = i.track
         /\ Opened(m, b).segment = IF b.gap THEN i.segment + 1 ELSE i.segment
         /\ Opened(m, b).pos = IF b.gap THEN Invalidated(i.pos) ELSE i.pos
         /\ ~b.gap => Opened(m, b).last = i.last
<1> DEFINE o == Opened(m, b)
<1>0. b.session \in 0 .. MaxSessions /\ b.now \in Times
  BY BoundsAssumption DEF Replies
<1>1. i.pos \in [Sources -> Position] /\ i.segment \in Nat
  BY ModelFacts
<1> PICK se, nw, p, g : /\ se = b.session /\ nw = b.now
                        /\ p = IF b.gap THEN Invalidated(i.pos) ELSE i.pos
                        /\ g = IF b.gap THEN i.segment + 1 ELSE i.segment
  OBVIOUS
<1>2. p \in [Sources -> Position] /\ g \in Nat
  BY <1>1, InvalidatedFacts
<1>3. o = [i EXCEPT !.session = se, !.now = nw, !.pos = p, !.segment = g]
  <2>1. CASE b.gap
    BY <2>1 DEF Opened, AcrossGap, Models
  <2>2. CASE ~b.gap
    BY <2>2 DEF Opened, Models
  <2>3. QED
    BY <2>1, <2>2
<1> HIDE DEF o
<1>4. o \in Models
  BY <1>0, <1>2, <1>3, ZenonT(40) DEF Models
<1>5. /\ o.session = b.session /\ o.now = b.now /\ o.cursor = i.cursor /\ o.track = i.track
      /\ o.segment = g /\ o.pos = p /\ o.last = i.last
  BY <1>3 DEF Models
<1>6. Bounded(o)
  BY <1>5 DEF Bounded
<1>7. QED
  BY <1>4, <1>5, <1>6 DEF o

LEMMA OpenedSame ==
  ASSUME NEW x \in Models, NEW b, b.session = x.session, b.now = x.now, ~b.gap
  PROVE  Opened(x, b) = x
<1> PICK se, nw : se = b.session /\ nw = b.now
  OBVIOUS
<1>1. Opened(x, b) = [x EXCEPT !.session = se, !.now = nw]
  BY DEF Opened, InSession
<1>2. [x EXCEPT !.session = se, !.now = nw] = x
  BY DEF Models
<1>3. QED
  BY <1>1, <1>2

Moved(m, c, now) == [m EXCEPT !.cursor = c, !.pos = Current(@, now)]

LEMMA ApplyNone ==
  ASSUME NEW m, NEW b, b.records = <<>>
  PROVE  Apply(m, b) = Moved(Opened(m, b), b.cursor, b.now)
<1> DEFINE o == Opened(m, b)
<1>1. Len(b.records) = 0 /\ Len(b.records) \in Nat /\ 0 \in 0 .. Len(b.records)
  OBVIOUS
<1>2. Reading(o, b)[0] = Stepped(o, b, Reading(o, b), 0)
  BY <1>1, ReadingIs
<1>3. Reading(o, b)[Len(b.records)] = o
  BY <1>1, <1>2 DEF Stepped
<1>4. QED
  BY <1>3 DEF Apply, Moved

LEMMA ApplyOne ==
  ASSUME NEW m, NEW b, NEW r, b.records = <<r>>
  PROVE  Apply(m, b) = Moved(IF Reads(Opened(m, b), b, r) THEN Sentence(Opened(m, b), r)
                             ELSE Opened(m, b), b.cursor, b.now)
<1> PICK o : o = Opened(m, b)
  OBVIOUS
<1> PICK f : f = Reading(o, b)
  OBVIOUS
<1>1. /\ Len(b.records) = 1 /\ Len(b.records) \in Nat /\ b.records[1] = r
      /\ 0 \in 0 .. Len(b.records) /\ 1 \in 0 .. Len(b.records)
  OBVIOUS
<1>2. f[0] = Stepped(o, b, f, 0) /\ f[1] = Stepped(o, b, f, 1)
  BY <1>1, ReadingIs
<1>3. f[0] = o
  BY <1>2 DEF Stepped
<1>4. f[1] = IF Reads(o, b, r) THEN Sentence(o, r) ELSE o
  BY <1>1, <1>2, <1>3 DEF Stepped
<1>5. QED
  BY <1>1, <1>4 DEF Apply, Moved

-----------------------------------------------------------------------------
(* The models of the reader while it consumes a reply *)

(* Where the reader starts in a reply, and its model there. *)
Origin(m, b) == IF b.gap THEN 0 ELSE InSession(m, b).cursor
First(m, b)  == Settled(Opened(m, b), Origin(m, b))

LEMMA BegunIs ==
  ASSUME NEW m \in Models, Bounded(m), Sound(m), NEW b \in Replies
  PROVE  Begun(m, b) = First(m, b)
<1> PICK i, c, p : i = InSession(m, b) /\ c = Origin(m, b) /\ p = Part(b, c, b.gap, <<>>)
  OBVIOUS
<1>1. p.session = b.session /\ p.now = b.now /\ p.cursor = c /\ p.gap = b.gap /\ p.records = <<>>
  BY DEF Part, Reply
<1>2. Begun(m, b) = Apply(i, p)
  BY DEF Begun, Origin
<1>3. InSession(i, p) = i
  BY <1>1, NewModelFacts DEF InSession
<1>4. Opened(i, p) = Opened(m, b)
  BY <1>1, <1>3 DEF Opened
<1>5. Apply(i, p) = Moved(Opened(i, p), p.cursor, p.now)
  BY <1>1, ApplyNone
<1>6. i \in Models /\ Bounded(i)
  BY InSessionFacts
<1>7. Opened(m, b).now = b.now
  BY <1>6, OpenedFacts
<1>8. QED
  BY <1>1, <1>2, <1>4, <1>5, <1>7 DEF First, Settled, Moved

LEMMA ReadOneIs ==
  ASSUME NEW y \in Models, NEW b \in Replies, y.session = b.session, y.now = b.now,
         NEW r \in Rec, ~Skips(y, r)
  PROVE  ReadOne(y, b, r) = Read(y, r)
<1> PICK p : p = Part(b, r.seq, FALSE, <<r>>)
  OBVIOUS
<1>1. p.session = y.session /\ p.now = y.now /\ p.cursor = r.seq /\ ~p.gap /\ p.records = <<r>>
  BY DEF Part, Reply
<1>2. ReadOne(y, b, r) = Apply(y, p)
  BY DEF ReadOne
<1>3. Opened(y, p) = y
  BY <1>1, OpenedSame
<1>4. r.seq > y.cursor
  <2> PICK n, c : n = r.seq /\ c = y.cursor
    OBVIOUS
  <2>1. n \in Numbers /\ c \in 0 .. MaxRecords /\ ~(n <= c)
    BY RecordFacts, ModelFacts DEF Skips
  <2>2. n > c
    BY <2>1, BoundsAssumption DEF Numbers
  <2>3. QED
    BY <2>2
<1>5. Reads(y, p, r) <=> Fresh(y.now, r.ms, RecordAge)
  <2> PICK w : w <=> r.seq > y.cursor
    OBVIOUS
  <2>1. Reads(y, p, r) <=> (w \/ p.gap) /\ Fresh(p.now, r.ms, RecordAge)
    BY DEF Reads
  <2>2. QED
    BY <1>1, <1>4, <2>1
<1>6. Apply(y, p) = Moved(IF Reads(y, p, r) THEN Sentence(y, r) ELSE y, p.cursor, p.now)
  <2>1. Apply(y, p) = Moved(IF Reads(Opened(y, p), p, r) THEN Sentence(Opened(y, p), r) ELSE Opened(y, p),
                            p.cursor, p.now)
    BY <1>1, ApplyOne
  <2>2. QED
    BY <1>3, <2>1
<1>7. (IF Fresh(y.now, r.ms, RecordAge) THEN Sentence(y, r) ELSE y).now = y.now
  <2>1. CASE r.says = "other"
    BY <2>1 DEF Sentence
  <2>2. CASE r.says # "other"
    <3> PICK p1, s : p1 = Told(r) /\ s = r.source
      OBVIOUS
    <3> PICK k : k = Knows(y, r)
      OBVIOUS
    <3>1. k \in Models /\ k.now = y.now /\ s \in Sources /\ Sentence(y, r) = ExtendTrack(k, s)
      BY <2>2, KnowsFacts
    <3>2. ExtendTrack(k, s).now = k.now
      BY <3>1 DEF ExtendTrack, Models
    <3>3. QED
      BY <3>1, <3>2
  <2>3. QED
    BY <2>1, <2>2
<1>8. QED
  BY <1>1, <1>2, <1>5, <1>6, <1>7 DEF Read, Settled, Moved

(* A model in the middle of a reply. *)
Good(y, b) == y \in Models /\ Bounded(y) /\ Sound(y) /\ y.session = b.session /\ y.now = b.now

(* A record is before the origin c, or after everything read. *)
Before(y, c, r) == y.cursor = c \/ (y.cursor > c /\ r.seq > y.cursor)

LEMMA ReadStep ==
  ASSUME NEW b \in Replies, NEW y, Good(y, b), NEW r \in Rec, NEW c \in 0 .. MaxRecords, Before(y, c, r)
  PROVE  LET z == ReadOne(y, b, r)
         IN  /\ Good(z, b)
             /\ r.seq <= c => Skips(y, r) /\ z = y
             /\ ~(r.seq <= c) => ~Skips(y, r) /\ z = Read(y, r) /\ z.cursor = r.seq
<1> DEFINE z == ReadOne(y, b, r)
<1>0. y \in Models /\ Bounded(y) /\ Sound(y) /\ y.session = b.session /\ y.now = b.now
  BY DEF Good
<1>1. Skips(y, r) <=> r.seq <= c
  <2> PICK n, k : n = r.seq /\ k = y.cursor
    OBVIOUS
  <2>1. n \in Numbers /\ k \in 0 .. MaxRecords
    BY <1>0, RecordFacts, ModelFacts
  <2>2. k = c \/ (k > c /\ n > k)
    BY DEF Before
  <2>3. n <= k <=> n <= c
    BY <2>1, <2>2, BoundsAssumption DEF Numbers
  <2>4. QED
    BY <2>3 DEF Skips
<1>2. CASE Skips(y, r)
  <2>1. z = y
    BY <1>2 DEF ReadOne
  <2>2. QED
    BY <1>1, <1>2, <2>1
<1>3. CASE ~Skips(y, r)
  <2>1. z = Read(y, r)
    BY <1>0, <1>3, ReadOneIs
  <2> HIDE DEF z
  <2>2. /\ z \in Models /\ Bounded(z) /\ Sound(z)
        /\ z.session = y.session /\ z.now = y.now /\ z.cursor = r.seq
    BY <1>0, <1>3, <2>1, ReadFacts
  <2>3. QED
    BY <1>0, <1>1, <1>3, <2>1, <2>2 DEF Good, z
<1>4. QED
  BY <1>2, <1>3

LEMMA FirstFacts ==
  ASSUME NEW m \in Models, Bounded(m), Sound(m), NEW b \in Replies
  PROVE  /\ Origin(m, b) \in 0 .. MaxRecords /\ First(m, b).cursor = Origin(m, b)
         /\ Good(First(m, b), b) /\ Same(First(m, b), Opened(m, b))
         /\ First(m, b).pos = Current(Opened(m, b).pos, b.now)
<1> PICK i, o, c : i = InSession(m, b) /\ o = Opened(m, b) /\ c = Origin(m, b)
  OBVIOUS
<1>1. i \in Models /\ Bounded(i) /\ Sound(i)
  BY InSessionFacts
<1>2. /\ o \in Models /\ Bounded(o) /\ o.session = b.session /\ o.now = b.now
      /\ o.pos = IF b.gap THEN Invalidated(i.pos) ELSE i.pos
  BY <1>1, OpenedFacts
<1>3. i.cursor \in 0 .. MaxRecords /\ i.pos \in [Sources -> Position]
  BY <1>1, ModelFacts
<1>4. c \in 0 .. MaxRecords
  BY <1>3, BoundsAssumption DEF Origin
<1>5. \A s \in Sources : o.pos[s].valid => o.pos[s].seq <= c
  <2>1. CASE b.gap
    <3>1. \A s \in Sources : ~o.pos[s].valid
      BY <1>2, <1>3, <2>1, InvalidatedFacts
    <3>2. QED
      BY <3>1
  <2>2. CASE ~b.gap
    <3>1. o.pos = i.pos /\ c = i.cursor
      BY <1>2, <2>2 DEF Origin
    <3>2. QED
      BY <1>1, <3>1 DEF Sound
  <2>3. QED
    BY <2>1, <2>2
<1>6. First(m, b) = Settled(o, c)
  BY DEF First
<1>7. /\ Settled(o, c) \in Models /\ Bounded(Settled(o, c)) /\ Sound(Settled(o, c)) /\ Same(Settled(o, c), o)
      /\ Settled(o, c).session = o.session /\ Settled(o, c).now = o.now /\ Settled(o, c).cursor = c
      /\ Settled(o, c).pos = Current(o.pos, o.now)
  BY <1>2, <1>4, <1>5, SettledFacts
<1>8. QED
  BY <1>2, <1>4, <1>6, <1>7 DEF Good

Numbered(rs, f) == f \in Nat /\ \A i \in 1 .. Len(rs) : rs[i].seq = f + i - 1
At(y, c, k)     == y.cursor = c \/ (y.cursor > c /\ y.cursor = k)

LEMMA Trace ==
  ASSUME NEW m \in Models, Bounded(m), Sound(m), NEW b \in Replies, NEW f, Numbered(b.records, f),
         NEW x, x = ReadAll(Begun(m, b), b), NEW c, c = Origin(m, b), NEW n, n = Len(b.records)
  PROVE  /\ x[0] = First(m, b) /\ c \in 0 .. MaxRecords /\ n \in Nat
         /\ \A i \in 0 .. n : Good(x[i], b) /\ At(x[i], c, f + i - 1)
         /\ \A i \in 1 .. n : /\ x[i] = ReadOne(x[i - 1], b, b.records[i])
                              /\ Before(x[i - 1], c, b.records[i]) /\ b.records[i] \in Rec
<1>0. b.records \in Seq(Rec) /\ n \in Nat /\ \A i \in 1 .. n : b.records[i] \in Rec
  BY DEF Replies
<1>1. c \in 0 .. MaxRecords /\ Good(First(m, b), b) /\ First(m, b).cursor = c
  BY FirstFacts
<1>2. \A i \in 0 .. n : x[i] = Fed(First(m, b), b, x, i)
  BY <1>0, ReadAllIs, BegunIs
<1>3. x[0] = First(m, b)
  BY <1>0, <1>2 DEF Fed
<1>4. ASSUME NEW i \in 1 .. n PROVE x[i] = ReadOne(x[i - 1], b, b.records[i])
  <2>1. i \in 0 .. n /\ i # 0
    BY <1>0
  <2>2. QED
    BY <1>2, <2>1 DEF Fed
<1>5. ASSUME NEW i \in 1 .. n, At(x[i - 1], c, f + i - 2), x[i - 1] \in Models
      PROVE  Before(x[i - 1], c, b.records[i])
  <2> PICK k : k = x[i - 1].cursor
    OBVIOUS
  <2>1. k \in 0 .. MaxRecords
    BY <1>5, ModelFacts
  <2>2. b.records[i].seq = f + i - 1 /\ f \in Nat
    BY DEF Numbered
  <2>3. k = c \/ (k > c /\ k = f + i - 2)
    BY <1>5 DEF At
  <2>4. k = c \/ (k > c /\ f + i - 1 > k)
    BY <1>0, <2>2, <2>3
  <2>5. QED
    BY <2>2, <2>4 DEF Before
<1> DEFINE Fine(i) == Good(x[i], b) /\ At(x[i], c, f + i - 1)
           T == {i \in 0 .. n : ~Fine(i)}
<1>6. \A i \in 0 .. n : Fine(i)
  <2>1. SUFFICES ASSUME T # {} PROVE FALSE
    OBVIOUS
  <2>2. T \in SUBSET Nat
    OBVIOUS
  <2>3. PICK l \in T : \A k \in T : l <= k
    BY <2>1, <2>2, LeastNumber
  <2>4. l # 0
    <3>1. Fine(0)
      BY <1>1, <1>3 DEF At
    <3>2. QED
      BY <3>1
  <2> DEFINE j == l - 1
  <2>5. j \in 0 .. n /\ l \in 1 .. n /\ ~(l <= j) /\ f + j - 1 = f + l - 2
    BY <1>0, <2>4 DEF Numbered
  <2>6. Fine(j)
    BY <2>3, <2>5
  <2> PICK r, y, z : r = b.records[l] /\ y = x[j] /\ z = x[l]
    OBVIOUS
  <2>7. Good(y, b) /\ Before(y, c, r) /\ r \in Rec /\ z = ReadOne(y, b, r)
    <3>1. Good(y, b) /\ At(x[l - 1], c, f + l - 2) /\ x[l - 1] \in Models
      BY <2>5, <2>6 DEF Good
    <3>2. QED
      BY <1>0, <1>4, <1>5, <2>5, <3>1
  <2>8. Good(z, b) /\ (r.seq <= c => z = y) /\ (~(r.seq <= c) => z.cursor = r.seq)
    BY <1>1, <2>7, ReadStep
  <2>9. At(z, c, f + l - 1)
    <3>1. r.seq = f + l - 1 /\ f + l - 1 \in Int
      BY <2>5 DEF Numbered
    <3>2. CASE r.seq <= c
      <4>1. z = y
        BY <2>8, <3>2
      <4> PICK k : k = y.cursor
        OBVIOUS
      <4>2. k = c \/ (k > c /\ k = f + j - 1)
        BY <2>6 DEF At
      <4>3. k = c
        <5>1. f \in Nat /\ l \in Nat /\ j \in Int /\ c \in Int
          BY <1>0, <1>1, <2>5 DEF Numbered
        <5>2. f + l - 1 <= c /\ f + j - 1 = f + l - 2
          BY <2>5, <3>1, <3>2
        <5> HIDE DEF j
        <5>3. QED
          BY <4>2, <5>1, <5>2
      <4>4. QED
        BY <4>1, <4>3 DEF At
    <3>3. CASE ~(r.seq <= c)
      <4>1. z.cursor = f + l - 1 /\ ~(f + l - 1 <= c)
        BY <2>8, <3>1, <3>3
      <4>2. f + l - 1 > c
        BY <1>1, <3>1, <4>1
      <4>3. QED
        BY <4>1, <4>2 DEF At
    <3>4. QED
      BY <3>2, <3>3
  <2>10. QED
    BY <2>8, <2>9
<1>7. ASSUME NEW i \in 1 .. n PROVE Before(x[i - 1], c, b.records[i])
  <2>1. i - 1 \in 0 .. n /\ f + (i - 1) - 1 = f + i - 2
    BY <1>0 DEF Numbered
  <2>2. Good(x[i - 1], b) /\ At(x[i - 1], c, f + i - 2)
    BY <1>6, <2>1
  <2>3. QED
    BY <1>5, <2>2 DEF Good
<1>8. QED
  BY <1>0, <1>1, <1>3, <1>4, <1>6, <1>7

-----------------------------------------------------------------------------
(* What is printed of a reply *)

Course(b, x, c) ==
  /\ b \in Replies /\ c \in 0 .. MaxRecords
  /\ \A i \in 0 .. Len(b.records) : Good(x[i], b)
  /\ \A i \in 1 .. Len(b.records) : /\ x[i] = ReadOne(x[i - 1], b, b.records[i])
                                    /\ Before(x[i - 1], c, b.records[i]) /\ b.records[i] \in Rec

LEMMA CourseStep ==
  ASSUME NEW b, NEW x, NEW c, Course(b, x, c), NEW i \in 1 .. Len(b.records)
  PROVE  /\ Good(x[i - 1], b) /\ Good(x[i], b) /\ b.records[i] \in Rec
         /\ b.records[i].seq <= c => Skips(x[i - 1], b.records[i]) /\ x[i] = x[i - 1]
         /\ ~(b.records[i].seq <= c) =>
              /\ ~Skips(x[i - 1], b.records[i]) /\ x[i] = Read(x[i - 1], b.records[i])
              /\ x[i].cursor = b.records[i].seq
<1> PICK y, z, r : y = x[i - 1] /\ z = x[i] /\ r = b.records[i]
  OBVIOUS
<1>0. Len(b.records) \in Nat /\ b \in Replies /\ c \in 0 .. MaxRecords
  BY DEF Course, Replies
<1>1. i \in 0 .. Len(b.records) /\ i - 1 \in 0 .. Len(b.records)
  BY <1>0
<1>2. Good(y, b) /\ Good(z, b) /\ r \in Rec /\ Before(y, c, r) /\ z = ReadOne(y, b, r)
  BY <1>1 DEF Course
<1>3. /\ r.seq <= c => Skips(y, r) /\ z = y
      /\ ~(r.seq <= c) => ~Skips(y, r) /\ z = Read(y, r) /\ z.cursor = r.seq
  BY <1>0, <1>2, ReadStep
<1>4. QED
  BY <1>2, <1>3

LEMMA UsableIs ==
  ASSUME NEW m, Sound(m), NEW s \in Sources
  PROVE  Usable(m, s) <=> m.pos[s].valid
BY DEF Usable, Sound

LEMMA LineFacts ==
  ASSUME NEW b, NEW y, Good(y, b), NEW r \in Rec, ~Skips(y, r), NEW z, z = Read(y, r),
         NEW line \in PrintedFor(z, r)
  PROVE  /\ line.source \in Sources /\ line = PositionLine(z, line.source) /\ line.seq = r.seq
         /\ line.told = "position" \/ line.told = "invalid"
         /\ line.told = "position" <=> Usable(z, line.source)
         /\ (Reported(y, r) /\ r.source = line.source) \/ y.pos[line.source].seq = r.seq
         /\ Usable(z, line.source) => /\ Reported(y, r) /\ r.source = line.source
                                      /\ r.says = "position" /\ Fresh(b.now, r.ms, FreshAge)
<1>0. y \in Models /\ Bounded(y) /\ Sound(y) /\ y.now = b.now
  BY DEF Good
<1> PICK s \in Sources : z.pos[s].seq = r.seq /\ line = PositionLine(z, s)
  BY DEF PrintedFor
<1>1. line.source = s /\ line.seq = r.seq /\ line.told = IF Usable(z, s) THEN "position" ELSE "invalid"
  BY DEF PositionLine
<1>2. IF Reported(y, r) /\ r.source = s
      THEN /\ z.pos[s].valid = (r.says = "position" /\ Fresh(y.now, r.ms, FreshAge))
           /\ z.pos[s].seq = r.seq /\ z.pos[s].ms = r.ms
      ELSE z.pos[s] = y.pos[s]
  BY <1>0, ReadFacts
<1>3. z \in Models /\ Sound(z)
  BY <1>0, ReadFacts
<1>4. Usable(z, s) <=> z.pos[s].valid
  BY <1>3, UsableIs
<1>5. CASE Reported(y, r) /\ r.source = s
  BY <1>0, <1>1, <1>2, <1>4, <1>5
<1>6. CASE ~(Reported(y, r) /\ r.source = s)
  <2>1. z.pos[s] = y.pos[s]
    BY <1>2, <1>6
  <2>2. ~z.pos[s].valid
    <3> SUFFICES ASSUME z.pos[s].valid PROVE FALSE
      OBVIOUS
    <3>1. y.pos[s].seq <= y.cursor
      BY <1>0, <2>1 DEF Sound
    <3>2. QED
      BY <2>1, <3>1 DEF Skips
  <2>3. QED
    BY <1>1, <1>4, <2>1, <2>2
<1>7. QED
  BY <1>5, <1>6

LEMMA ReportFacts ==
  ASSUME NEW b, NEW y, Good(y, b), NEW r \in Rec, ~Skips(y, r), NEW z, z = Read(y, r), Reported(y, r)
  PROVE  /\ PositionLine(z, r.source) \in PrintedFor(z, r)
         /\ PositionLine(z, r.source).source = r.source /\ PositionLine(z, r.source).seq = r.seq
<1>0. y \in Models /\ Bounded(y) /\ Sound(y) /\ r.source \in Sources
  BY RecordFacts DEF Good, Reported
<1> PICK s \in Sources : s = r.source
  BY <1>0
<1>1. z.pos[s].seq = r.seq
  BY <1>0, ReadFacts
<1>2. QED
  BY <1>1 DEF PrintedFor, PositionLine

LEMMA ReadElse ==
  ASSUME NEW b, NEW y, Good(y, b), NEW r \in Rec, ~Skips(y, r), NEW z, z = Read(y, r),
         NEW s \in Sources, ~(Reported(y, r) /\ r.source = s)
  PROVE  z.pos[s] = y.pos[s]
<1>1. y \in Models /\ Bounded(y) /\ Sound(y)
  BY DEF Good
<1>2. QED
  BY <1>1, ReadFacts

Speaks(lines, s) == \E line \in lines : line.source = s

LEMMA SilentKeeps ==
  ASSUME NEW b, NEW x, NEW c, Course(b, x, c), NEW s \in Sources, NEW j \in 0 .. Len(b.records),
         \A k \in (j + 1) .. Len(b.records) : ~Speaks(RecordLines(x, b)[k], s)
  PROVE  x[Len(b.records)].pos[s] = x[j].pos[s]
<1> PICK n : n = Len(b.records)
  OBVIOUS
<1>0. n \in Nat /\ j \in 0 .. n
  BY DEF Course, Replies
<1>1. ASSUME NEW k \in (j + 1) .. n PROVE x[k].pos[s] = x[k - 1].pos[s]
  <2> PICK y, z, r : y = x[k - 1] /\ z = x[k] /\ r = b.records[k]
    OBVIOUS
  <2>1. k \in 1 .. n
    BY <1>0
  <2>2. /\ Good(y, b) /\ r \in Rec
        /\ r.seq <= c => z = y
        /\ ~(r.seq <= c) => ~Skips(y, r) /\ z = Read(y, r)
    BY <2>1, CourseStep
  <2>3. CASE r.seq <= c
    BY <2>2, <2>3
  <2>4. CASE ~(r.seq <= c)
    <3>1. ~Skips(y, r) /\ z = Read(y, r)
      BY <2>2, <2>4
    <3>2. RecordLines(x, b)[k] = PrintedFor(z, r)
      BY <2>1, <3>1 DEF RecordLines
    <3>3. ~(Reported(y, r) /\ r.source = s)
      <4>1. ASSUME Reported(y, r), r.source = s PROVE FALSE
        <5>1. PositionLine(z, r.source) \in PrintedFor(z, r) /\ PositionLine(z, r.source).source = r.source
          BY <2>2, <3>1, <4>1, ReportFacts
        <5>2. Speaks(RecordLines(x, b)[k], s)
          BY <3>2, <4>1, <5>1 DEF Speaks
        <5>3. QED
          BY <5>2
      <4>2. QED
        BY <4>1
    <3>4. QED
      BY <2>2, <3>1, <3>3, ReadElse
  <2>5. QED
    BY <2>3, <2>4
<1> DEFINE T == {k \in j .. n : x[k].pos[s] # x[j].pos[s]}
<1>2. T = {}
  <2>1. SUFFICES ASSUME T # {} PROVE FALSE
    OBVIOUS
  <2>2. T \in SUBSET Nat
    BY <1>0
  <2>3. PICK l \in T : \A k \in T : l <= k
    BY <2>1, <2>2, LeastNumber
  <2>4. l # j /\ l \in j .. n
    OBVIOUS
  <2>5. l - 1 \in j .. n /\ ~(l <= l - 1) /\ l \in (j + 1) .. n
    BY <1>0, <2>4
  <2>6. x[l - 1].pos[s] = x[j].pos[s]
    BY <2>3, <2>5
  <2>7. QED
    BY <1>1, <2>5, <2>6
<1>3. QED
  BY <1>0, <1>2

-----------------------------------------------------------------------------
(* What the output leaves standing *)

LEMMA GreatestNumber ==
  ASSUME NEW n \in Nat, NEW T \in SUBSET (0 .. n), T # {}
  PROVE  \E l \in T : \A k \in T : k <= l
<1> DEFINE U == {u \in 0 .. n : n - u \in T}
<1>1. U \in SUBSET Nat /\ U # {}
  <2>1. PICK k \in T : TRUE
    OBVIOUS
  <2>2. n - k \in 0 .. n /\ n - (n - k) = k
    BY <2>1
  <2>3. n - k \in U
    BY <2>1, <2>2
  <2>4. U \in SUBSET Nat
    OBVIOUS
  <2>5. QED
    BY <2>3, <2>4
<1>2. PICK u \in U : \A w \in U : u <= w
  BY <1>1, LeastNumber
<1>3. n - u \in T
  OBVIOUS
<1>4. ASSUME NEW k \in T PROVE k <= n - u
  <2>1. n - k \in 0 .. n /\ n - (n - k) = k
    OBVIOUS
  <2>2. n - k \in U
    BY <2>1
  <2>3. u <= n - k /\ u \in 0 .. n
    BY <1>2, <2>2
  <2>4. QED
    BY <2>3
<1>5. QED
  BY <1>3, <1>4

Covers(b, y) == ~(b.cursor < y.cursor)

LEMMA DoneFacts ==
  ASSUME NEW b \in Replies, NEW y, Good(y, b), NEW z, z = Apply(y, Part(b, b.cursor, FALSE, <<>>)),
         Covers(b, y)
  PROVE  /\ Good(z, b) /\ z.cursor = b.cursor /\ z.pos = y.pos /\ Same(z, y)
         /\ z = Settled(y, b.cursor)
<1> PICK p, c : p = Part(b, b.cursor, FALSE, <<>>) /\ c = b.cursor
  OBVIOUS
<1>0. y \in Models /\ Bounded(y) /\ Sound(y) /\ y.session = b.session /\ y.now = b.now /\ c \in 0 .. MaxRecords
  BY DEF Good, Replies
<1>1. p.session = y.session /\ p.now = y.now /\ p.cursor = c /\ ~p.gap /\ p.records = <<>>
  BY <1>0 DEF Part, Reply
<1>2. Opened(y, p) = y
  BY <1>0, <1>1, OpenedSame
<1>3. z = Settled(y, c)
  <2>1. Apply(y, p) = Moved(Opened(y, p), p.cursor, p.now)
    BY <1>1, ApplyNone
  <2>2. QED
    BY <1>1, <1>2, <2>1 DEF Settled, Moved
<1>4. \A s \in Sources : y.pos[s].valid => y.pos[s].seq <= c
  <2> SUFFICES ASSUME NEW s \in Sources, y.pos[s].valid PROVE y.pos[s].seq <= c
    OBVIOUS
  <2> PICK n, k : n = y.pos[s].seq /\ k = y.cursor
    OBVIOUS
  <2>1. n <= k
    BY <1>0 DEF Sound
  <2>2. n \in 0 .. MaxRecords /\ k \in 0 .. MaxRecords
    BY <1>0, ModelFacts DEF Position
  <2>3. ~(c < k)
    BY DEF Covers
  <2>4. n <= c
    BY <1>0, <2>1, <2>2, <2>3, BoundsAssumption
  <2>5. QED
    BY <2>4
<1>5. /\ Settled(y, c) \in Models /\ Bounded(Settled(y, c)) /\ Sound(Settled(y, c)) /\ Same(Settled(y, c), y)
      /\ Settled(y, c).session = y.session /\ Settled(y, c).now = y.now /\ Settled(y, c).cursor = c
      /\ Settled(y, c).pos = Current(y.pos, y.now)
  BY <1>0, <1>4, SettledFacts
<1>6. y.pos \in [Sources -> Position] /\ y.now \in Times
  BY <1>0, ModelFacts
<1>7. \A s \in Sources : y.pos[s].valid => Fresh(y.now, y.pos[s].ms, FreshAge)
  BY <1>0 DEF Sound
<1>8. Current(y.pos, y.now) = y.pos
  BY <1>6, <1>7, CurrentSame
<1>9. QED
  BY <1>0, <1>3, <1>5, <1>8 DEF Good

(* A position that is still valid when a reply is opened was usable before. *)
LEMMA FirstUsable ==
  ASSUME NEW m \in Models, Bounded(m), Sound(m), NEW b \in Replies, NEW s \in Sources,
         First(m, b).pos[s].valid
  PROVE  Usable(m, s) /\ ~ChangesSession(m, b) /\ ~b.gap
<1> PICK i, o : i = InSession(m, b) /\ o = Opened(m, b)
  OBVIOUS
<1>1. /\ i \in Models /\ Bounded(i) /\ Sound(i)
      /\ ChangesSession(m, b) => i = NewModel
      /\ ~ChangesSession(m, b) => i = m
  BY InSessionFacts
<1>2. o \in Models /\ o.now = b.now /\ o.pos = IF b.gap THEN Invalidated(i.pos) ELSE i.pos
  BY <1>1, OpenedFacts
<1>3. First(m, b).pos = Current(o.pos, o.now)
  BY <1>2, FirstFacts
<1>4. o.pos[s].valid
  <2> PICK w : w = First(m, b)
    OBVIOUS
  <2>1. w.pos = Current(o.pos, o.now) /\ w.pos[s].valid
    BY <1>3
  <2>2. w.pos[s].valid = (o.pos[s].valid /\ Fresh(o.now, o.pos[s].ms, FreshAge))
    BY <1>2, <2>1, SettledAt
  <2>3. QED
    BY <2>1, <2>2
<1>5. ~b.gap
  <2>1. i.pos \in [Sources -> Position]
    BY <1>1, ModelFacts
  <2>2. QED
    BY <1>2, <1>4, <2>1, InvalidatedFacts
<1>6. i.pos[s].valid
  BY <1>2, <1>4, <1>5
<1>7. ~ChangesSession(m, b)
  BY <1>1, <1>6, NewModelFacts
<1>8. QED
  BY <1>1, <1>5, <1>6, <1>7, UsableIs

Before0(m, b) == IF ChangesSession(m, b) THEN [s \in Sources |-> FALSE]
                 ELSE [s \in Sources |-> Usable(m, s)]

UsableIn(m)    == {s \in Sources : Usable(m, s)}
Wrote(m, b, x, z) == [session |-> SessionLines(m, b), records |-> RecordLines(x, b),
                      withdrawn |-> WithdrawnLines(Before0(m, b), z)]

LEMMA StandingFacts ==
  ASSUME NEW m \in Models, Bounded(m), Sound(m), NEW b, NEW x, NEW c, Course(b, x, c), x[0] = First(m, b),
         NEW z, Sound(z), z.pos = x[Len(b.records)].pos,
         NEW o, o = Wrote(m, b, x, z)
  PROVE  StandingAfter(UsableIn(m), o) = UsableIn(z)
<1> PICK n, rec, w, t : n = Len(b.records) /\ rec = RecordLines(x, b) /\ w = o.withdrawn
                        /\ t = StandingAfter(UsableIn(m), o)
  OBVIOUS
<1>0. n \in Nat /\ b \in Replies
  BY DEF Course, Replies
<1>1. o.records = rec /\ Len(rec) = n /\ o.session = SessionLines(m, b)
  BY <1>0 DEF RecordLines, Wrote
<1>2. o.session = {} <=> ~ChangesSession(m, b)
  BY <1>1 DEF SessionLines
<1>3. t \subseteq Sources
  BY DEF StandingAfter
<1>4. ASSUME NEW s \in Sources PROVE s \in t <=> Usable(z, s)
  <2> DEFINE Quiet0(i) == \A j \in (i + 1) .. n : ~Speaks(rec[j], s)
             Shown  == \E i \in 1 .. n : Quiet0(i) /\ \E line \in rec[i] : line.source = s /\ line.told = "position"
             Kept   == Usable(m, s) /\ ~ChangesSession(m, b) /\ Quiet0(0)
  <2>1. s \in t <=> (Shown \/ Kept) /\ ~Speaks(w, s)
    BY <1>1, <1>2 DEF StandingAfter, Speaks, UsableIn
  <2>2. Speaks(w, s) <=> Usable(m, s) /\ ~ChangesSession(m, b) /\ ~Usable(z, s)
    <3> PICK f : f = Before0(m, b)
      OBVIOUS
    <3>1. f[s] <=> Usable(m, s) /\ ~ChangesSession(m, b)
      BY DEF Before0
    <3>2. w = {[source |-> k, seq |-> 0, told |-> "unavailable"] : k \in {l \in Sources : f[l] /\ ~Usable(z, l)}}
      BY DEF WithdrawnLines, Wrote
    <3>3. ASSUME f[s], ~Usable(z, s) PROVE Speaks(w, s)
      <4> PICK line : line = [source |-> s, seq |-> 0, told |-> "unavailable"]
        OBVIOUS
      <4>1. line \in w /\ line.source = s
        BY <3>2, <3>3
      <4>2. QED
        BY <4>1 DEF Speaks
    <3>4. ASSUME Speaks(w, s) PROVE f[s] /\ ~Usable(z, s)
      <4>1. PICK line \in w : line.source = s
        BY <3>4 DEF Speaks
      <4>2. PICK k \in {l \in Sources : f[l] /\ ~Usable(z, l)} :
              line = [source |-> k, seq |-> 0, told |-> "unavailable"]
        BY <3>2
      <4>3. line.source = k
        BY <4>2
      <4>4. QED
        BY <4>1, <4>3
    <3>5. QED
      BY <3>1, <3>3, <3>4
  <2>3. Usable(z, s) <=> z.pos[s].valid
    BY UsableIs
  <2>4. ASSUME NEW i \in 0 .. n, Quiet0(i) PROVE z.pos[s] = x[i].pos[s]
    BY <2>4, SilentKeeps
  <2>5. CASE \E i \in 1 .. n : Speaks(rec[i], s)
    <3> DEFINE T == {i \in 1 .. n : Speaks(rec[i], s)}
    <3>1. T # {} /\ T \in SUBSET (0 .. n)
      BY <2>5
    <3>2. PICK i \in T : \A k \in T : k <= i
      BY <1>0, <3>1, GreatestNumber
    <3>3. i \in 1 .. n /\ Speaks(rec[i], s)
      OBVIOUS
    <3>4. Quiet0(i)
      <4> SUFFICES ASSUME NEW j \in (i + 1) .. n, Speaks(rec[j], s) PROVE FALSE
        OBVIOUS
      <4>1. j \in T /\ ~(j <= i)
        BY <1>0, <3>3
      <4>2. QED
        BY <3>2, <4>1
    <3>5. z.pos[s] = x[i].pos[s]
      BY <1>0, <2>4, <3>3, <3>4
    <3>6. ASSUME NEW line \in rec[i], line.source = s
          PROVE  line.told = "position" <=> Usable(z, s)
      <4> PICK y, v, r : y = x[i - 1] /\ v = x[i] /\ r = b.records[i]
        OBVIOUS
      <4>1. rec[i] = IF Skips(y, r) THEN {} ELSE PrintedFor(v, r)
        BY <3>3 DEF RecordLines
      <4>2. ~Skips(y, r) /\ line \in PrintedFor(v, r)
        BY <3>6, <4>1
      <4>3. Good(y, b) /\ Good(v, b) /\ r \in Rec /\ v = Read(y, r)
        BY <3>3, <4>2, CourseStep
      <4>4. line.told = "position" <=> Usable(v, s)
        BY <3>6, <4>2, <4>3, LineFacts
      <4>5. Usable(v, s) <=> v.pos[s].valid
        BY <4>3, UsableIs DEF Good
      <4>6. QED
        BY <2>3, <3>5, <4>4, <4>5
    <3>7. Shown <=> Usable(z, s)
      <4>1. ASSUME Usable(z, s) PROVE Shown
        BY <3>3, <3>4, <3>6, <4>1 DEF Speaks
      <4>2. ASSUME Shown PROVE Usable(z, s)
        <5>0. PICK k \in 1 .. n :
                Quiet0(k) /\ \E line \in rec[k] : line.source = s /\ line.told = "position"
          BY <4>2
        <5>1. PICK line \in rec[k] : line.source = s /\ line.told = "position"
          BY <5>0
        <5>2. Speaks(rec[k], s)
          BY <5>1 DEF Speaks
        <5>3. k \in T /\ k <= i
          BY <3>2, <5>2
        <5>4. i \notin (k + 1) .. n
          BY <3>3, <5>0
        <5>5. k = i
          BY <1>0, <3>3, <5>3, <5>4
        <5>6. QED
          BY <3>6, <5>1, <5>5
      <4>3. QED
        BY <4>1, <4>2
    <3>8. ~Kept
      <4>1. i \in (0 + 1) .. n
        BY <3>3
      <4>2. QED
        BY <3>3, <4>1
    <3> HIDE DEF Shown, Kept
    <3>9. QED
      BY <2>1, <2>2, <3>7, <3>8
  <2>6. CASE ~\E i \in 1 .. n : Speaks(rec[i], s)
    <3>1. ~Shown
      BY <2>6 DEF Speaks
    <3>2. Quiet0(0)
      BY <2>6
    <3>3. z.pos[s] = x[0].pos[s]
      BY <1>0, <2>4, <3>2
    <3>4. Usable(z, s) => Usable(m, s) /\ ~ChangesSession(m, b)
      BY <1>0, <2>3, <3>3, FirstUsable
    <3> HIDE DEF Shown, Quiet0
    <3>5. QED
      BY <2>1, <2>2, <3>1, <3>2, <3>4
  <2>7. QED
    BY <2>5, <2>6
<1>5. t = UsableIn(z)
  BY <1>3, <1>4 DEF UsableIn
<1>6. QED
  BY <1>5

-----------------------------------------------------------------------------
(* The answers of the Agent *)

Agents == [session : 1 .. MaxSessions, rewinds : 0 .. MaxRewinds, now : Times, log : Seq(Rec)]

AgentOK == agent \in Agents /\ Newest <= MaxRecords /\ \A i \in 1 .. Newest : agent.log[i].seq = i

(* The answer to a cursor the Agent knows, and to one that means nothing to it. *)
Known(b, k)   == ~b.gap /\ k \in (Oldest - 1) .. Newest /\ k <= b.cursor
Unknown(b, k) == b.gap /\ k \notin (Oldest - 1) .. Newest

Answer(b, k, session, f) ==
  /\ b \in Replies /\ b.session = agent.session /\ b.now = agent.now
  /\ f \in 1 .. (Newest + 1) /\ b.cursor \in (f - 1) .. Newest
  /\ Numbered(b.records, f) /\ Len(b.records) = b.cursor - f + 1
  /\ \A i \in 1 .. Len(b.records) : b.records[i] = agent.log[f + i - 1]
  /\ IF session = agent.session THEN (Known(b, k) /\ f <= k + 1) \/ (Unknown(b, k) /\ f = Oldest)
     ELSE f = Oldest

LEMMA LogFacts ==
  ASSUME AgentOK
  PROVE  /\ agent.session \in 1 .. MaxSessions /\ agent.now \in Times /\ agent.log \in Seq(Rec)
         /\ Newest \in Nat /\ Newest \in 0 .. MaxRecords /\ Oldest \in 1 .. (Newest + 1)
         /\ \A i \in 1 .. Newest : agent.log[i] \in Rec /\ agent.log[i].seq = i
<1>1. agent.session \in 1 .. MaxSessions /\ agent.now \in Times /\ agent.log \in Seq(Rec)
  BY DEF AgentOK, Agents
<1>2. Newest \in Nat /\ \A i \in 1 .. Newest : agent.log[i] \in Rec
  BY <1>1 DEF Newest
<1>3. Newest <= MaxRecords /\ \A i \in 1 .. Newest : agent.log[i].seq = i
  BY DEF AgentOK
<1>4. Newest \in 0 .. MaxRecords
  BY <1>2, <1>3, BoundsAssumption
<1>5. Oldest \in 1 .. (Newest + 1)
  BY <1>2, BoundsAssumption DEF Oldest
<1>6. QED
  BY <1>1, <1>2, <1>3, <1>4, <1>5

LEMMA SentFacts ==
  ASSUME AgentOK, NEW f \in 1 .. (Newest + 1), NEW u \in (f - 1) .. Newest
  PROVE  LET rs == SubSeq(agent.log, f, u)
         IN  /\ rs \in Seq(Rec) /\ Len(rs) = u - f + 1 /\ Numbered(rs, f)
             /\ \A i \in 1 .. Len(rs) : rs[i] = agent.log[f + i - 1]
<1> DEFINE rs == SubSeq(agent.log, f, u)
<1>0. Newest \in Nat /\ f \in Int /\ u \in Int /\ \A i \in f .. u : agent.log[i] \in Rec
  BY LogFacts
<1>1. /\ rs \in Seq(Rec) /\ Len(rs) = IF f <= u THEN u - f + 1 ELSE 0
      /\ \A i \in 1 .. (u - f + 1) : rs[i] = agent.log[f + i - 1]
  BY <1>0, SubSeqProperties
<1> HIDE DEF rs
<1>2. Len(rs) = u - f + 1
  BY <1>0, <1>1
<1>3. \A i \in 1 .. Len(rs) : rs[i] = agent.log[f + i - 1]
  BY <1>1, <1>2
<1>4. ASSUME NEW i \in 1 .. Len(rs) PROVE rs[i].seq = f + i - 1
  <2>1. f + i - 1 \in 1 .. Newest
    BY <1>0, <1>2
  <2>2. agent.log[f + i - 1].seq = f + i - 1
    BY <2>1, LogFacts
  <2>3. QED
    BY <1>3, <2>2
<1>5. Numbered(rs, f)
  BY <1>4 DEF Numbered
<1>6. QED
  BY <1>1, <1>2, <1>3, <1>5 DEF rs

LEMMA ReplyFacts ==
  ASSUME AgentOK, NEW f \in 1 .. (Newest + 1), NEW u \in (f - 1) .. Newest, NEW g \in BOOLEAN,
         NEW b, b = Sent(f, u, g)
  PROVE  /\ b \in Replies /\ b.session = agent.session /\ b.now = agent.now /\ b.cursor = u /\ b.gap = g
         /\ Numbered(b.records, f) /\ Len(b.records) = b.cursor - f + 1
         /\ \A i \in 1 .. Len(b.records) : b.records[i] = agent.log[f + i - 1]
<1> PICK rs : rs = SubSeq(agent.log, f, u)
  OBVIOUS
<1>1. /\ rs \in Seq(Rec) /\ Len(rs) = u - f + 1 /\ Numbered(rs, f)
      /\ \A i \in 1 .. Len(rs) : rs[i] = agent.log[f + i - 1]
  BY SentFacts
<1>2. b = [session |-> agent.session, now |-> agent.now, cursor |-> u, gap |-> g, records |-> rs]
  BY DEF Sent, Reply
<1>3. b.session = agent.session /\ b.now = agent.now /\ b.cursor = u /\ b.gap = g /\ b.records = rs
  BY <1>2
<1>4. u \in 0 .. MaxRecords /\ agent.session \in 1 .. MaxSessions /\ agent.now \in Times
  BY LogFacts, BoundsAssumption
<1>5. b \in Replies
  BY <1>1, <1>2, <1>4 DEF Replies
<1>6. QED
  BY <1>1, <1>3, <1>5

LEMMA SnapshotsFacts ==
  ASSUME NEW G, NEW b \in Snapshots(G)
  PROVE  \E u \in (Oldest - 1) .. Newest, g \in G : b = Snapshot(u, g)
BY DEF Snapshots

LEMMA AnswersFacts ==
  ASSUME AgentOK, NEW k \in 0 .. MaxRecords, NEW session, NEW b \in Answers(k, session)
  PROVE  \E f : Answer(b, k, session, f)
<1>0. Newest \in Nat /\ Oldest \in 1 .. (Newest + 1) /\ k \in Nat
  BY LogFacts, BoundsAssumption
<1>1. CASE session = agent.session /\ k \in (Oldest - 1) .. Newest
  <2>1. PICK f \in Oldest .. (k + 1), u \in k .. Newest : b = Continued(f, u)
    <3>1. b \in Continuations(k)
      BY <1>1 DEF Answers
    <3>2. QED
      BY <3>1 DEF Continuations
  <2>2. f \in 1 .. (Newest + 1) /\ u \in (f - 1) .. Newest /\ f <= k + 1 /\ k <= u
    BY <1>0, <1>1
  <2> PICK g \in BOOLEAN : g = FALSE
    OBVIOUS
  <2>3. /\ b \in Replies /\ b.session = agent.session /\ b.now = agent.now /\ b.cursor = u /\ b.gap = g
        /\ Numbered(b.records, f) /\ Len(b.records) = b.cursor - f + 1
        /\ \A i \in 1 .. Len(b.records) : b.records[i] = agent.log[f + i - 1]
    <3>1. b = Sent(f, u, g)
      BY <2>1 DEF Continued
    <3>2. QED
      BY <2>2, <3>1, ReplyFacts
  <2>4. QED
    BY <1>1, <2>2, <2>3 DEF Answer, Known
<1>2. CASE ~(session = agent.session /\ k \in (Oldest - 1) .. Newest)
  <2> DEFINE G == IF session = agent.session THEN {TRUE} ELSE BOOLEAN
  <2>0. b \in Snapshots(G)
    BY <1>2 DEF Answers
  <2> HIDE DEF G
  <2>1. PICK u \in (Oldest - 1) .. Newest, g \in G : b = Snapshot(u, g)
    BY <2>0, SnapshotsFacts, Zenon
  <2>2. g \in BOOLEAN /\ (session = agent.session => g = TRUE)
    BY DEF G
  <2>3. /\ b \in Replies /\ b.session = agent.session /\ b.now = agent.now /\ b.cursor = u /\ b.gap = g
        /\ Numbered(b.records, Oldest) /\ Len(b.records) = b.cursor - Oldest + 1
        /\ \A i \in 1 .. Len(b.records) : b.records[i] = agent.log[Oldest + i - 1]
    <3>1. b = Sent(Oldest, u, g)
      BY <2>1 DEF Snapshot
    <3>2. QED
      BY <1>0, <2>2, <3>1, ReplyFacts, SMTT(30)
  <2>4. Answer(b, k, session, Oldest)
    BY <1>0, <1>2, <2>2, <2>3 DEF Answer, Unknown
  <2>5. QED
    BY <2>4
<1>3. QED
  BY <1>1, <1>2

-----------------------------------------------------------------------------
(* A poll *)

ModelOK   == model \in Models /\ Bounded(model) /\ Sound(model)
SessionOK == /\ model.session <= agent.session
             /\ model.session = 0 => model.cursor = 0 /\ \A s \in Sources : model.track[s] = <<>>
Answered  == available = [s \in Sources |-> Usable(model, s)] /\ standing = {s \in Sources : Usable(model, s)}

(* The reply b, whose first record is number f, was consumed through the models x. *)
Consumed(b, f, x, c) ==
  /\ Answer(b, model.cursor, model.session, f) /\ Course(b, x, c) /\ c = Origin(model, b)
  /\ x[0] = First(model, b) /\ \A i \in 0 .. Len(b.records) : At(x[i], c, f + i - 1)
  /\ model' = Settled(x[Len(b.records)], b.cursor) /\ Good(model', b) /\ model'.cursor = b.cursor
  /\ model'.pos = x[Len(b.records)].pos /\ Same(model', x[Len(b.records)])
  /\ out' = [session |-> SessionLines(model, b), records |-> RecordLines(x, b),
             withdrawn |-> WithdrawnLines(Before0(model, b), model')]
  /\ available' = [s \in Sources |-> Usable(model', s)] /\ standing' = StandingAfter(standing, out')
  /\ printed' = printed \cup Printed(out') /\ lost' = lost \cup Skipped(b)
  /\ since' = since /\ agent' = agent /\ reply' = b

(* The origin is zero, unless the reply continues from the cursor. *)
Continues(b)     == ~b.gap /\ model.session = agent.session /\ Known(b, model.cursor)
OriginIs(b, f, c) == \/ Continues(b) /\ c = model.cursor /\ f <= c + 1
                     \/ c = 0 /\ f = Oldest /\ (model.session = agent.session => Unknown(b, model.cursor))

LEMMA OriginFacts ==
  ASSUME ModelOK, SessionOK, NEW b, NEW f, Answer(b, model.cursor, model.session, f),
         NEW c, c = Origin(model, b)
  PROVE  OriginIs(b, f, c) /\ (Continues(b) => ~ChangesSession(model, b))
         /\ (model.session = agent.session => ~ChangesSession(model, b) /\ InSession(model, b) = model)
<1>1. b \in Replies /\ b.session = agent.session
  BY DEF Answer
<1>2. model.session = agent.session => ~ChangesSession(model, b) /\ InSession(model, b) = model
  BY <1>1 DEF ChangesSession, InSession
<1>3. CASE model.session = agent.session
  <2>1. (Known(b, model.cursor) /\ f <= model.cursor + 1) \/ (Unknown(b, model.cursor) /\ f = Oldest)
    BY <1>3 DEF Answer
  <2>2. CASE Known(b, model.cursor) /\ f <= model.cursor + 1
    <3>1. c = model.cursor
      BY <1>2, <1>3, <2>2 DEF Origin, Known
    <3>2. QED
      BY <1>2, <1>3, <2>2, <3>1 DEF OriginIs, Continues, Known
  <2>3. CASE Unknown(b, model.cursor) /\ f = Oldest
    <3>1. c = 0
      BY <2>3 DEF Origin, Unknown
    <3>2. QED
      BY <1>2, <1>3, <2>3, <3>1 DEF OriginIs
  <2>4. QED
    BY <2>1, <2>2, <2>3
<1>4. CASE model.session # agent.session
  <2>1. f = Oldest
    BY <1>4 DEF Answer
  <2>2. c = 0
    <3>1. CASE b.gap
      BY <3>1 DEF Origin
    <3>2. CASE ~b.gap /\ model.session = 0
      <4>1. InSession(model, b) = model
        BY <3>2 DEF InSession
      <4>2. QED
        BY <3>2, <4>1 DEF Origin, SessionOK
    <3>3. CASE ~b.gap /\ model.session # 0
      <4>1. InSession(model, b) = NewModel
        BY <1>1, <1>4, <3>3 DEF InSession
      <4>2. QED
        BY <3>3, <4>1, NewModelFacts DEF Origin
    <3>4. QED
      BY <3>1, <3>2, <3>3
  <2>3. QED
    BY <1>4, <2>1, <2>2 DEF OriginIs, Continues
<1>5. QED
  BY <1>2, <1>3, <1>4

LEMMA PollIs ==
  ASSUME AgentOK, ModelOK, SessionOK, Answered, Poll
  PROVE  \E b, f, x, c : Consumed(b, f, x, c)
<1>1. PICK b \in Answers(model.cursor, model.session) : reply' = b /\ Consume(b) /\ UNCHANGED agent
  BY DEF Poll
<1>2. model \in Models /\ Bounded(model) /\ Sound(model) /\ model.cursor \in 0 .. MaxRecords
  BY ModelFacts DEF ModelOK
<1>3. PICK f : Answer(b, model.cursor, model.session, f)
  BY <1>1, <1>2, AnswersFacts
<1>4. /\ b \in Replies /\ Numbered(b.records, f) /\ Len(b.records) = b.cursor - f + 1
      /\ f \in 1 .. (Newest + 1) /\ b.cursor \in (f - 1) .. Newest /\ Newest \in Nat
  BY <1>3, LogFacts DEF Answer
<1> PICK x, c, n : x = ReadAll(Begun(model, b), b) /\ c = Origin(model, b) /\ n = Len(b.records)
  OBVIOUS
<1>5. /\ x[0] = First(model, b) /\ c \in 0 .. MaxRecords /\ n \in Nat
      /\ \A i \in 0 .. n : Good(x[i], b) /\ At(x[i], c, f + i - 1)
      /\ \A i \in 1 .. n : /\ x[i] = ReadOne(x[i - 1], b, b.records[i])
                           /\ Before(x[i - 1], c, b.records[i]) /\ b.records[i] \in Rec
  <2>1. /\ model \in Models /\ Bounded(model) /\ Sound(model) /\ b \in Replies /\ Numbered(b.records, f)
        /\ x = ReadAll(Begun(model, b), b) /\ c = Origin(model, b) /\ n = Len(b.records)
    BY <1>2, <1>4
  <2>2. QED
    BY <2>1, Trace, Zenon
<1>6. Course(b, x, c)
  BY <1>4, <1>5 DEF Course
<1> PICK y, z : y = x[n] /\ z = Apply(y, Part(b, b.cursor, FALSE, <<>>))
  OBVIOUS
<1>7. Good(y, b)
  BY <1>5
<1>8. Covers(b, y)
  <2> PICK k, u : k = y.cursor /\ u = b.cursor
    OBVIOUS
  <2>1. u \in Int /\ c \in Int /\ u = f + n - 1
    BY <1>4, <1>5
  <2>2. k = c \/ (k > c /\ k = f + n - 1)
    <3>1. n \in 0 .. n
      BY <1>5
    <3>2. At(y, c, f + n - 1)
      BY <1>5, <3>1
    <3>3. QED
      BY <3>2 DEF At
  <2>3. c <= u
    <3>1. OriginIs(b, f, c)
      BY <1>3, OriginFacts
    <3>2. CASE c = 0
      BY <1>4, <3>2
    <3>3. CASE Known(b, model.cursor) /\ c = model.cursor
      BY <3>3 DEF Known
    <3>4. QED
      BY <3>1, <3>2, <3>3 DEF OriginIs, Continues
  <2>4. ~(u < k)
    BY <2>1, <2>2, <2>3
  <2>5. QED
    BY <2>4 DEF Covers
<1>9. Good(z, b) /\ z.cursor = b.cursor /\ z.pos = y.pos /\ Same(z, y) /\ z = Settled(y, b.cursor)
  <2>1. b \in Replies /\ Good(y, b) /\ z = Apply(y, Part(b, b.cursor, FALSE, <<>>)) /\ Covers(b, y)
    BY <1>4, <1>7, <1>8
  <2>2. QED
    BY <2>1, DoneFacts, ZenonT(60)
<1>10. (IF ChangesSession(model, b) THEN [s \in Sources |-> FALSE] ELSE available) = Before0(model, b)
  BY DEF Before0, Answered
<1>11. /\ model' = z /\ available' = [s \in Sources |-> Usable(z, s)]
       /\ out' = [session |-> SessionLines(model, b), records |-> RecordLines(x, b),
                  withdrawn |-> WithdrawnLines(Before0(model, b), z)]
       /\ standing' = StandingAfter(standing, out')
       /\ printed' = printed \cup Printed(out')
       /\ lost' = lost \cup Skipped(b) /\ since' = since
  BY <1>1, <1>10 DEF Consume
<1>12. Consumed(b, f, x, c)
  BY <1>1, <1>3, <1>5, <1>6, <1>9, <1>11 DEF Consumed
<1>13. QED
  BY <1>12

-----------------------------------------------------------------------------
(* The lines of a poll *)

LinesTyped == {l \in Line : l.seq \in Numbers}
TypedOK == /\ reply.records \in Seq(Rec)
           /\ out.session \subseteq Line /\ out.withdrawn \subseteq Line /\ out.records \in Seq(SUBSET Line)
           /\ printed \subseteq LinesTyped /\ lost \subseteq Numbers /\ since \in Nat

(* The history of a log is behind the cursor, and the cursor within the log. *)
HistoryOK == printed # {} \/ lost # {} =>
               /\ model.session = agent.session /\ model.cursor <= Newest
               /\ \A n \in lost : n <= model.cursor
               /\ \A l \in printed : l.seq <= model.cursor

(* Record k is read of a reply whose first record is f, from origin c. *)
After(k, f, c) == f <= k /\ ~(k <= c)

LEMMA NewRecords ==
  ASSUME AgentOK, ModelOK, SessionOK, HistoryOK, TypedOK,
         NEW b, NEW f, Answer(b, model.cursor, model.session, f), NEW c, c = Origin(model, b),
         NEW k \in Nat, After(k, f, c)
  PROVE  /\ \A l \in printed : l.seq < k
         /\ \A n \in lost : n < k
         /\ \A n \in Skipped(b) : n < k
<1>1. OriginIs(b, f, c)
  BY OriginFacts
<1>2. /\ Newest \in Nat /\ Oldest \in 1 .. (Newest + 1) /\ model.cursor \in Nat
      /\ f \in 1 .. (Newest + 1) /\ f <= k /\ ~(k <= c)
  BY LogFacts, ModelFacts, BoundsAssumption DEF ModelOK, After, Answer
<1>3. (\A l \in printed : l.seq \in Nat) /\ (\A n \in lost : n \in Nat)
  BY BoundsAssumption DEF TypedOK, LinesTyped, Numbers
<1>4. CASE Continues(b) /\ c = model.cursor
  <2>1. Skipped(b) = {}
    BY <1>4 DEF Skipped, Continues
  <2>2. model.cursor < k
    BY <1>2, <1>4
  <2>3. ASSUME NEW l \in printed PROVE l.seq < k
    <3> PICK q : q = l.seq
      OBVIOUS
    <3>1. q <= model.cursor /\ q \in Nat
      BY <1>3 DEF HistoryOK
    <3>2. q < k
      BY <1>2, <2>2, <3>1
    <3>3. QED
      BY <3>2
  <2>4. ASSUME NEW n \in lost PROVE n < k
    <3>1. n <= model.cursor /\ n \in Nat
      BY <1>3 DEF HistoryOK
    <3>2. QED
      BY <1>2, <2>2, <3>1
  <2>5. QED
    BY <2>1, <2>3, <2>4
<1>5. CASE f = Oldest /\ (model.session = agent.session => Unknown(b, model.cursor))
  <2>1. \A n \in Skipped(b) : n < k
    BY <1>2, <1>5 DEF Skipped
  <2>2. printed # {} \/ lost # {} => model.cursor < k
    <3>1. SUFFICES ASSUME printed # {} \/ lost # {} PROVE model.cursor < k
      OBVIOUS
    <3>2. model.session = agent.session /\ model.cursor <= Newest
      BY <3>1 DEF HistoryOK
    <3>3. model.cursor \notin (Oldest - 1) .. Newest
      BY <1>5, <3>2 DEF Unknown
    <3>4. QED
      BY <1>2, <1>5, <3>2, <3>3
  <2>3. ASSUME NEW l \in printed PROVE l.seq < k
    <3> PICK q : q = l.seq
      OBVIOUS
    <3>1. q <= model.cursor /\ q \in Nat /\ model.cursor < k
      BY <1>3, <2>2 DEF HistoryOK
    <3>2. q < k
      BY <1>2, <3>1
    <3>3. QED
      BY <3>2
  <2>4. ASSUME NEW n \in lost PROVE n < k
    <3>1. n <= model.cursor /\ n \in Nat /\ model.cursor < k
      BY <1>3, <2>2 DEF HistoryOK
    <3>2. QED
      BY <1>2, <3>1
  <2>5. QED
    BY <2>1, <2>3, <2>4
<1>6. QED
  BY <1>1, <1>4, <1>5 DEF OriginIs

(* What is printed of the record number i of the reply. *)
LEMMA ReadLines ==
  ASSUME AgentOK, NEW b, NEW f, NEW x, NEW c, Consumed(b, f, x, c),
         NEW i \in 1 .. Len(b.records), NEW line \in RecordLines(x, b)[i]
  PROVE  /\ line.source \in Sources /\ line = PositionLine(x[i], line.source)
         /\ line.seq = f + i - 1 /\ f + i - 1 \in 1 .. Newest /\ f + i - 1 \in f .. b.cursor
         /\ After(f + i - 1, f, c)
         /\ b.records[i] = agent.log[f + i - 1] /\ ~Skips(x[i - 1], b.records[i])
         /\ line.told = "position" \/ line.told = "invalid"
         /\ line.told = "position" => /\ b.records[i].source = line.source /\ b.records[i].says = "position"
                                      /\ Fresh(b.now, b.records[i].ms, FreshAge)
<1> PICK y, z, r, k : y = x[i - 1] /\ z = x[i] /\ r = b.records[i] /\ k = f + i - 1
  OBVIOUS
<1>0. /\ Course(b, x, c) /\ Answer(b, model.cursor, model.session, f)
  BY DEF Consumed
<1>1. /\ f \in 1 .. (Newest + 1) /\ b.cursor \in (f - 1) .. Newest /\ Len(b.records) = b.cursor - f + 1
      /\ r.seq = k /\ r = agent.log[k] /\ Newest \in Nat
  BY <1>0, LogFacts DEF Answer, Numbered
<1>2. k \in 1 .. Newest /\ k \in f .. b.cursor /\ k \in Nat
  BY <1>1
<1>3. RecordLines(x, b)[i] = IF Skips(y, r) THEN {} ELSE PrintedFor(z, r)
  BY DEF RecordLines
<1>4. ~Skips(y, r) /\ line \in PrintedFor(z, r)
  BY <1>3
<1>5. Good(y, b) /\ r \in Rec /\ z = Read(y, r) /\ ~(r.seq <= c)
  BY <1>0, <1>4, CourseStep
<1>6. /\ line.source \in Sources /\ line = PositionLine(z, line.source) /\ line.seq = r.seq
      /\ line.told = "position" \/ line.told = "invalid"
      /\ line.told = "position" => Usable(z, line.source)
      /\ Usable(z, line.source) => /\ r.source = line.source
                                   /\ r.says = "position" /\ Fresh(b.now, r.ms, FreshAge)
  BY <1>4, <1>5, LineFacts
<1>7. After(k, f, c)
  BY <1>1, <1>2, <1>5 DEF After
<1>8. QED
  BY <1>1, <1>2, <1>4, <1>6, <1>7

LEMMA OutLines ==
  ASSUME NEW b, NEW f, NEW x, NEW c, Consumed(b, f, x, c), NEW line \in Lines(out')
  PROVE  \/ line.told = "session" \/ line.told = "unavailable"
         \/ \E i \in 1 .. Len(b.records) : line \in RecordLines(x, b)[i]
<1> PICK rec, n : rec = RecordLines(x, b) /\ n = Len(b.records)
  OBVIOUS
<1>0. n \in Nat
  BY DEF Consumed, Course, Replies
<1>1. /\ out'.session = SessionLines(model, b) /\ out'.records = rec
      /\ out'.withdrawn = WithdrawnLines(Before0(model, b), model')
  BY DEF Consumed
<1>2. CASE line \in out'.session
  BY <1>1, <1>2 DEF SessionLines
<1>3. CASE line \in out'.withdrawn
  BY <1>1, <1>3 DEF WithdrawnLines
<1>4. CASE line \in UNION Range(rec)
  <2>1. PICK lines \in Range(rec) : line \in lines
    BY <1>4
  <2>2. PICK i \in DOMAIN rec : lines = rec[i]
    BY DEF Range
  <2>3. DOMAIN rec = 1 .. n
    BY DEF RecordLines
  <2>4. QED
    BY <2>1, <2>2, <2>3
<1>5. QED
  <2>1. line \in out'.session \/ line \in UNION Range(out'.records) \/ line \in out'.withdrawn
    BY DEF Lines
  <2>2. UNION Range(out'.records) = UNION Range(rec)
    BY <1>1
  <2>3. QED
    BY <1>2, <1>3, <1>4, <2>1, <2>2

LEMMA SilenceSays == Lines(Silence) = {} /\ Printed(Silence) = {}
  BY DEF Lines, Printed, Silence, Range

-----------------------------------------------------------------------------
(* The invariant *)

Core == AgentOK /\ ModelOK /\ SessionOK /\ Answered /\ TypedOK /\ HistoryOK

LEMMA LineIs ==
  ASSUME NEW s \in Sources \cup {None}, NEW k \in 0 .. MaxRecords, NEW t,
         t = "position" \/ t = "invalid" \/ t = "unavailable" \/ t = "session",
         NEW l, l = [source |-> s, seq |-> k, told |-> t]
  PROVE  l \in Line
  BY DEF Line

LEMMA PrintedLines ==
  ASSUME NEW b, NEW f, NEW x, NEW c, Consumed(b, f, x, c), NEW line \in Printed(out')
  PROVE  \E i \in 1 .. Len(b.records) : line \in RecordLines(x, b)[i]
<1>1. line \in Lines(out') /\ (line.told = "position" \/ line.told = "invalid")
  BY DEF Printed
<1>2. line.told # "session" /\ line.told # "unavailable"
  BY <1>1
<1>3. QED
  BY <1>1, <1>2, OutLines

(* What was printed and lost, and will be after this poll, is behind its last record. *)
LEMMA PollBehind ==
  ASSUME Core, NEW b, NEW f, NEW x, NEW c, Consumed(b, f, x, c)
  PROVE  /\ b.cursor \in 0 .. Newest /\ Newest \in Nat
         /\ \A l \in printed' : l.seq <= b.cursor /\ l.seq \in Nat
         /\ \A n \in lost' : n <= b.cursor /\ n \in Nat
<1>0. /\ AgentOK /\ ModelOK /\ SessionOK /\ HistoryOK /\ TypedOK
      /\ Answer(b, model.cursor, model.session, f) /\ c = Origin(model, b)
  BY DEF Core, Consumed
<1>1. /\ Newest \in Nat /\ f \in 1 .. (Newest + 1) /\ b.cursor \in (f - 1) .. Newest
      /\ Oldest \in 1 .. (Newest + 1) /\ model.cursor \in Nat
  BY <1>0, LogFacts, ModelFacts, BoundsAssumption DEF Answer, ModelOK
<1> DEFINE k == b.cursor + 1
<1>2. After(k, f, c)
  <2>1. c <= b.cursor
    <3>1. OriginIs(b, f, c)
      BY <1>0, OriginFacts
    <3>2. CASE c = 0
      BY <1>1, <3>2
    <3>3. CASE Known(b, model.cursor) /\ c = model.cursor
      BY <3>3 DEF Known
    <3>4. QED
      BY <3>1, <3>2, <3>3 DEF OriginIs, Continues
  <2>2. c = 0 \/ c = model.cursor
    BY <1>0, OriginFacts DEF OriginIs
  <2>3. QED
    BY <1>1, <2>1, <2>2 DEF After
<1>3. k \in Nat
  BY <1>1
<1>4. /\ \A l \in printed : l.seq < k
      /\ \A n \in lost : n < k
      /\ \A n \in Skipped(b) : n < k
  BY <1>0, <1>2, <1>3, NewRecords
<1>5. (\A l \in printed : l.seq \in Nat) /\ (\A n \in lost : n \in Nat) /\ (\A n \in Skipped(b) : n \in Nat)
  BY <1>0, <1>1, BoundsAssumption DEF TypedOK, LinesTyped, Numbers, Skipped
<1>6. ASSUME NEW l \in Printed(out') PROVE l.seq <= b.cursor /\ l.seq \in Nat
  <2>1. PICK i \in 1 .. Len(b.records) : l \in RecordLines(x, b)[i]
    BY PrintedLines
  <2>2. l.seq = f + i - 1 /\ f + i - 1 \in f .. b.cursor
    BY <1>0, <2>1, ReadLines
  <2> PICK q : q = f + i - 1
    OBVIOUS
  <2>3. q <= b.cursor /\ q \in Nat
    BY <1>1, <2>2
  <2>4. QED
    BY <2>2, <2>3
<1>7. printed' = printed \cup Printed(out') /\ lost' = lost \cup Skipped(b)
  BY DEF Consumed
<1>8. ASSUME NEW l \in printed PROVE l.seq <= b.cursor
  <2> PICK q : q = l.seq
    OBVIOUS
  <2>1. q < b.cursor + 1 /\ q \in Nat
    BY <1>4, <1>5
  <2>2. q <= b.cursor
    BY <1>1, <2>1
  <2>3. QED
    BY <2>2
<1>9. ASSUME NEW n \in lost \cup Skipped(b) PROVE n <= b.cursor
  <2>1. n < b.cursor + 1 /\ n \in Nat
    BY <1>4, <1>5
  <2>2. QED
    BY <1>1, <2>1
<1>10. b.cursor \in 0 .. Newest
  BY <1>1
<1>11. QED
  BY <1>1, <1>5, <1>6, <1>7, <1>8, <1>9, <1>10

LEMMA PollTyped ==
  ASSUME Core, NEW b, NEW f, NEW x, NEW c, Consumed(b, f, x, c)
  PROVE  TypedOK'
<1>0. /\ AgentOK /\ ModelOK /\ TypedOK
  BY DEF Core
<1>1. /\ out'.session = SessionLines(model, b) /\ out'.records = RecordLines(x, b)
      /\ out'.withdrawn = WithdrawnLines(Before0(model, b), model')
      /\ printed' = printed \cup Printed(out') /\ lost' = lost \cup Skipped(b)
      /\ since' = since /\ reply' = b /\ b \in Replies
  BY DEF Consumed, Course
<1>2. out'.session \subseteq Line
  <2> SUFFICES ASSUME NEW l \in SessionLines(model, b) PROVE l \in Line
    BY <1>1
  <2>1. l = [source |-> None, seq |-> 0, told |-> "session"]
    BY DEF SessionLines
  <2>2. 0 \in 0 .. MaxRecords /\ None \in Sources \cup {None}
    BY BoundsAssumption
  <2>3. QED
    BY <2>1, <2>2, LineIs
<1>3. out'.withdrawn \subseteq Line
  <2> SUFFICES ASSUME NEW l \in WithdrawnLines(Before0(model, b), model') PROVE l \in Line
    BY <1>1
  <2>1. PICK s \in Sources : l = [source |-> s, seq |-> 0, told |-> "unavailable"]
    BY DEF WithdrawnLines
  <2>2. 0 \in 0 .. MaxRecords /\ s \in Sources \cup {None}
    BY BoundsAssumption
  <2>3. QED
    BY <2>1, <2>2, LineIs
<1>4. ASSUME NEW i \in 1 .. Len(b.records), NEW l \in RecordLines(x, b)[i]
      PROVE  l \in Line /\ l.seq \in Numbers
  <2> PICK k, s, t : k = l.seq /\ s = l.source /\ t = l.told
    OBVIOUS
  <2>1. /\ s \in Sources /\ l = PositionLine(x[i], s) /\ k = f + i - 1 /\ f + i - 1 \in 1 .. Newest
        /\ t = "position" \/ t = "invalid"
    BY <1>0, ReadLines
  <2>2. l = [source |-> s, seq |-> k, told |-> t]
    BY <2>1 DEF PositionLine
  <2>3. k \in Numbers /\ k \in 0 .. MaxRecords
    BY <1>0, <2>1, LogFacts, BoundsAssumption DEF Numbers
  <2>4. QED
    BY <2>1, <2>2, <2>3, LineIs
<1>5. out'.records \in Seq(SUBSET Line)
  <2> PICK rec, n : rec = RecordLines(x, b) /\ n = Len(b.records)
    OBVIOUS
  <2>1. n \in Nat
    BY <1>1 DEF Replies
  <2>2. rec = [i \in 1 .. n |-> rec[i]]
    BY DEF RecordLines
  <2>3. \A i \in 1 .. n : rec[i] \in SUBSET Line
    BY <1>4
  <2>4. rec \in Seq(SUBSET Line)
    BY <2>1, <2>2, <2>3
  <2>5. QED
    BY <1>1, <2>4
<1>6. printed' \subseteq LinesTyped
  <2>1. ASSUME NEW l \in Printed(out') PROVE l \in LinesTyped
    <3>1. PICK i \in 1 .. Len(b.records) : l \in RecordLines(x, b)[i]
      BY PrintedLines
    <3>2. QED
      BY <1>4, <3>1 DEF LinesTyped
  <2>2. QED
    BY <1>0, <1>1, <2>1 DEF TypedOK
<1>7. lost' \subseteq Numbers
  <2>1. Skipped(b) \subseteq Numbers
    <3>1. /\ Newest \in 0 .. MaxRecords /\ Oldest \in 1 .. (Newest + 1) /\ model.cursor \in 0 .. MaxRecords
      BY <1>0, LogFacts, ModelFacts DEF ModelOK
    <3>2. QED
      BY <3>1, BoundsAssumption DEF Skipped, Numbers
  <2>2. QED
    BY <1>0, <1>1, <2>1 DEF TypedOK
<1>8. reply'.records \in Seq(Rec) /\ since' \in Nat
  BY <1>0, <1>1 DEF TypedOK, Replies
<1>9. QED
  BY <1>2, <1>3, <1>5, <1>6, <1>7, <1>8 DEF TypedOK

LEMMA InitCore ==
  ASSUME Init
  PROVE  Core
<1>1. /\ agent = [session |-> 1, rewinds |-> 0, now |-> 0, log |-> <<>>] /\ model = NewModel
      /\ available = [s \in Sources |-> FALSE] /\ reply = NoReply /\ out = Silence
      /\ standing = {} /\ printed = {} /\ lost = {} /\ since = 0
  BY DEF Init
<1>2. AgentOK
  <2>1. agent \in Agents
    BY <1>1, BoundsAssumption DEF Agents, Times
  <2>2. Newest = 0
    BY <1>1 DEF Newest
  <2>3. QED
    BY <2>1, <2>2, BoundsAssumption DEF AgentOK
<1>3. ModelOK
  BY <1>1, NewModelFacts DEF ModelOK
<1>4. SessionOK
  <2>1. agent.session = 1
    BY <1>1
  <2>2. QED
    BY <1>1, <2>1, NewModelFacts DEF SessionOK
<1>5. Answered
  <2>1. \A s \in Sources : Usable(model, s) = FALSE
    <3> SUFFICES ASSUME NEW s \in Sources PROVE Usable(model, s) = FALSE
      OBVIOUS
    <3>1. ~model.pos[s].valid
      BY <1>1, NewModelFacts
    <3>2. QED
      BY <3>1 DEF Usable
  <2>2. QED
    BY <1>1, <2>1 DEF Answered
<1>6. TypedOK
  BY <1>1 DEF TypedOK, NoReply, Reply, Silence
<1>7. HistoryOK
  BY <1>1 DEF HistoryOK
<1>8. QED
  BY <1>2, <1>3, <1>4, <1>5, <1>6, <1>7 DEF Core

(* Between two polls the log grows, or is dropped with what is remembered of it. *)
Grows   == Quiet /\ agent'.session = agent.session /\ Newest <= Newest'
Dropped == NewLog /\ since' \in Nat
Follows == model.session <= agent'.session

(* The Agent moves between two polls. *)
LEMMA UnreadCore ==
  ASSUME Core, AgentOK', Follows, Grows \/ Dropped
  PROVE  Core'
<1>1. /\ reply' = NoReply /\ out' = Silence /\ model' = model /\ available' = available /\ standing' = standing
  BY DEF Unread, Grows, Dropped, Quiet, NewLog
<1>2. ModelOK' /\ Answered'
  BY <1>1 DEF Core, ModelOK, Answered, Usable
<1>3. SessionOK'
  BY <1>1 DEF Core, SessionOK, Follows
<1>4. CASE Grows
  <2>1. printed' = printed /\ lost' = lost /\ since' = since
    BY <1>4 DEF Grows, Quiet
  <2>2. TypedOK'
    BY <1>1, <2>1 DEF Core, TypedOK, NoReply, Reply, Silence
  <2>3. model.cursor <= Newest => model.cursor <= Newest'
    <3>1. model.cursor \in Nat /\ Newest \in Nat /\ Newest' \in Nat
      BY LogFacts, ModelFacts, BoundsAssumption DEF Core, ModelOK, AgentOK, Agents, Newest
    <3>2. QED
      BY <1>4, <3>1 DEF Grows
  <2>4. HistoryOK'
    BY <1>1, <1>4, <2>1, <2>3 DEF Core, HistoryOK, Grows
  <2>5. QED
    BY <1>2, <1>3, <2>2, <2>4 DEF Core
<1>5. CASE Dropped
  <2>1. TypedOK'
    BY <1>1, <1>5 DEF TypedOK, NoReply, Reply, Silence, Dropped, NewLog
  <2>2. HistoryOK'
    BY <1>5 DEF HistoryOK, Dropped, NewLog
  <2>3. QED
    BY <1>2, <1>3, <2>1, <2>2 DEF Core
<1>6. QED
  BY <1>4, <1>5

LEMMA ReceiveCore ==
  ASSUME Core, Receive
  PROVE  Core' /\ agent'.log = Append(agent.log, agent'.log[Newest + 1]) /\ Newest' = Newest + 1
<1>1. PICK r \in Record({Newest + 1}, {agent.now}) :
        Newest < MaxRecords /\ agent' = [agent EXCEPT !.log = Append(@, r)] /\ Quiet
  BY DEF Receive
<1>2. /\ AgentOK /\ agent \in Agents /\ Newest \in Nat /\ agent.log \in Seq(Rec) /\ agent.now \in Times
      /\ \A i \in 1 .. Newest : agent.log[i].seq = i
  BY LogFacts DEF Core, AgentOK
<1>3. r \in Rec /\ r.seq = Newest + 1
  <2> PICK k, t : k = Newest + 1 /\ t = agent.now
    OBVIOUS
  <2>1. k \in Numbers /\ t \in Times
    BY <1>1, <1>2, BoundsAssumption DEF Numbers
  <2>2. r \in Record({k}, {t})
    BY <1>1
  <2>3. QED
    BY <2>1, <2>2 DEF Record, Rec
<1> PICK l : l = Append(agent.log, r)
  OBVIOUS
<1>4. l \in Seq(Rec) /\ Len(l) = Newest + 1 /\ l[Newest + 1] = r /\ \A i \in 1 .. Newest : l[i] = agent.log[i]
  BY <1>2, <1>3 DEF Newest
<1>5. agent' = [agent EXCEPT !.log = l]
  BY <1>1
<1>6. agent' \in Agents /\ agent'.log = l /\ agent'.session = agent.session
  BY <1>2, <1>4, <1>5 DEF Agents
<1>7. Newest' = Newest + 1
  BY <1>4, <1>6 DEF Newest
<1>8. AgentOK'
  <2>1. Newest' <= MaxRecords
    BY <1>1, <1>2, <1>7, BoundsAssumption
  <2>2. ASSUME NEW i \in 1 .. Newest' PROVE l[i].seq = i
    <3>1. CASE i = Newest + 1
      BY <1>3, <1>4, <3>1
    <3>2. CASE i # Newest + 1
      <4>1. i \in 1 .. Newest
        BY <1>2, <1>7, <3>2
      <4>2. QED
        BY <1>2, <1>4, <4>1
    <3>3. QED
      BY <3>1, <3>2
  <2>3. \A i \in 1 .. Newest' : agent'.log[i].seq = i
    BY <1>6, <2>2
  <2>4. QED
    BY <1>6, <2>1, <2>3 DEF AgentOK
<1>9. Core'
  <2>1. Follows
    BY <1>6 DEF Core, SessionOK, Follows
  <2>2. Grows
    BY <1>1, <1>2, <1>6, <1>7 DEF Grows
  <2>3. QED
    BY <1>8, <2>1, <2>2, UnreadCore
<1>10. QED
  BY <1>4, <1>6, <1>7, <1>9

LEMMA TickCore ==
  ASSUME Core, Tick
  PROVE  Core'
<1>1. agent.now < MaxTime /\ agent' = [agent EXCEPT !.now = @ + 1] /\ Quiet
  BY DEF Tick
<1>2. AgentOK /\ agent \in Agents /\ agent.now \in Times
  BY LogFacts DEF Core, AgentOK
<1> PICK t : t = agent.now + 1
  OBVIOUS
<1>3. t \in Times
  BY <1>1, <1>2, BoundsAssumption DEF Times
<1>4. agent' = [agent EXCEPT !.now = t]
  BY <1>1
<1>5. agent' \in Agents /\ agent'.log = agent.log /\ agent'.session = agent.session
  BY <1>2, <1>3, <1>4 DEF Agents
<1>6. Newest' = Newest /\ AgentOK'
  BY <1>2, <1>5 DEF AgentOK, Newest
<1>7. Grows
  <2>1. Newest \in Nat
    BY <1>2, LogFacts
  <2>2. Newest <= Newest'
    BY <1>6, <2>1
  <2>3. QED
    BY <1>1, <1>5, <2>2 DEF Grows
<1>8. Follows
  BY <1>5 DEF Core, SessionOK, Follows
<1>9. QED
  BY <1>6, <1>7, <1>8, UnreadCore

LEMMA RestartCore ==
  ASSUME Core, Restart
  PROVE  Core' /\ ~(agent'.session <= model.session)
<1>1. /\ agent.session < MaxSessions /\ NewLog /\ since' = 0
      /\ agent' = [session |-> agent.session + 1, rewinds |-> 0, now |-> 0, log |-> <<>>]
  BY DEF Restart
<1>2. agent.session \in 1 .. MaxSessions /\ model.session \in 0 .. MaxSessions /\ model.session <= agent.session
  BY LogFacts, ModelFacts DEF Core, ModelOK, SessionOK
<1> PICK n : n = agent.session + 1
  OBVIOUS
<1>3. n \in 1 .. MaxSessions /\ model.session <= n /\ ~(n <= model.session)
  BY <1>1, <1>2, BoundsAssumption
<1>4. agent' = [session |-> n, rewinds |-> 0, now |-> 0, log |-> <<>>]
  BY <1>1
<1>5. agent' \in Agents /\ agent'.session = n /\ agent'.log = <<>>
  BY <1>3, <1>4, BoundsAssumption DEF Agents, Times
<1>6. Newest' = 0
  BY <1>5 DEF Newest
<1>7. AgentOK'
  BY <1>5, <1>6, BoundsAssumption DEF AgentOK
<1>8. Follows /\ Dropped
  BY <1>1, <1>3, <1>5 DEF Follows, Dropped
<1>9. QED
  BY <1>3, <1>5, <1>7, <1>8, UnreadCore

LEMMA RewindCore ==
  ASSUME Core, Rewind
  PROVE  Core'
<1>1. /\ agent.rewinds < MaxRewinds /\ NewLog
      /\ since' = IF model.session = agent.session THEN model.segment + 1 ELSE 0
      /\ agent' = [agent EXCEPT !.rewinds = @ + 1, !.log = <<>>]
  BY DEF Rewind
<1>2. agent \in Agents /\ agent.rewinds \in 0 .. MaxRewinds /\ model.segment \in Nat
  BY ModelFacts DEF Core, ModelOK, AgentOK, Agents
<1> PICK n : n = agent.rewinds + 1
  OBVIOUS
<1>0. <<>> \in Seq(Rec)
  OBVIOUS
<1> PICK l \in Seq(Rec) : l = <<>>
  BY <1>0, Zenon
<1>3. n \in 0 .. MaxRewinds
  BY <1>1, <1>2, BoundsAssumption
<1>4. agent' = [agent EXCEPT !.rewinds = n, !.log = l]
  BY <1>1
<1>5. agent' \in Agents /\ agent'.session = agent.session /\ agent'.log = <<>>
  BY <1>2, <1>3, <1>4 DEF Agents
<1>6. Newest' = 0
  BY <1>5 DEF Newest
<1>7. AgentOK'
  BY <1>5, <1>6, BoundsAssumption DEF AgentOK
<1>8. Follows
  BY <1>5 DEF Core, SessionOK, Follows
<1>9. Dropped
  BY <1>1, <1>2 DEF Dropped
<1>10. QED
  BY <1>7, <1>8, <1>9, UnreadCore

LEMMA ClearTracksCore ==
  ASSUME Core, ClearTracks
  PROVE  /\ Core' /\ \A s \in Sources : model'.track[s] = <<>>
         /\ model'.session = model.session /\ model'.cursor = model.cursor
<1>1. /\ model' = ClearedTracks(model) /\ reply' = NoReply /\ out' = Silence
      /\ agent' = agent /\ available' = available /\ standing' = standing /\ printed' = printed
      /\ lost' = lost /\ since' = since
  BY DEF ClearTracks, history
<1>2. model \in Models /\ Sound(model) /\ model.segment \in Nat
  BY ModelFacts DEF Core, ModelOK
<1> PICK t, l, g : /\ t = [s \in Sources |-> <<>>] /\ l = [s \in Sources |-> None] /\ g = model.segment + 1
  OBVIOUS
<1>3. /\ t \in [Sources -> Seq(TrackPoint)] /\ l \in [Sources -> Epochs \cup {None}] /\ g \in Nat
      /\ \A s \in Sources : t[s] = <<>>
  BY <1>2
<1>4. model' = [model EXCEPT !.track = t, !.last = l, !.segment = g]
  BY <1>1 DEF ClearedTracks
<1>5. model' \in Models
  BY <1>2, <1>3, <1>4 DEF Models
<1>6. /\ model'.session = model.session /\ model'.cursor = model.cursor /\ model'.now = model.now
      /\ model'.pos = model.pos /\ model'.track = t
  BY <1>2, <1>4 DEF Models
<1>7. Bounded(model')
  <2>1. Len(<<>>) <= TrackCap
    BY TrackAssumption
  <2>2. QED
    BY <1>3, <1>6, <2>1 DEF Bounded
<1>8. Sound(model')
  BY <1>2, <1>6 DEF Sound
<1>9. ModelOK'
  BY <1>5, <1>7, <1>8 DEF ModelOK, Bounded, Sound
<1>10. SessionOK'
  BY <1>1, <1>3, <1>6 DEF Core, SessionOK
<1>11. Answered'
  BY <1>1, <1>6 DEF Core, Answered, Usable
<1>12. TypedOK'
  BY <1>1 DEF Core, TypedOK, NoReply, Reply, Silence
<1>13. HistoryOK' /\ AgentOK'
  BY <1>1, <1>6 DEF Core, HistoryOK, AgentOK, Newest
<1>14. QED
  BY <1>3, <1>6, <1>9, <1>10, <1>11, <1>12, <1>13 DEF Core

LEMMA PollCore ==
  ASSUME Core, NEW b, NEW f, NEW x, NEW c, Consumed(b, f, x, c)
  PROVE  Core'
<1>0. /\ AgentOK /\ ModelOK /\ SessionOK /\ Answered
      /\ b \in Replies /\ b.session = agent.session /\ agent' = agent
  BY DEF Core, Consumed, Answer
<1>1. /\ model' \in Models /\ Bounded(model') /\ Sound(model') /\ model'.session = b.session
      /\ model'.cursor = b.cursor
  BY DEF Consumed, Good
<1>2. ModelOK'
  BY <1>1 DEF ModelOK, Bounded, Sound
<1>3. SessionOK'
  <2>1. agent.session \in 1 .. MaxSessions
    BY <1>0, LogFacts
  <2>2. agent.session <= agent.session /\ agent.session # 0
    BY <2>1, BoundsAssumption
  <2>3. QED
    BY <1>0, <1>1, <2>2 DEF SessionOK
<1>4. Answered'
  <2> DEFINE o == out'
             z == model'
  <2>1. /\ model \in Models /\ Bounded(model) /\ Sound(model) /\ Course(b, x, c) /\ x[0] = First(model, b)
        /\ Sound(z) /\ z.pos = x[Len(b.records)].pos
        /\ o = Wrote(model, b, x, z)
    BY <1>0, <1>1 DEF ModelOK, Consumed, Wrote
  <2> HIDE DEF o, z
  <2>2. StandingAfter(UsableIn(model), o) = UsableIn(z)
    BY <2>1, StandingFacts
  <2>3. standing = UsableIn(model)
    BY <1>0 DEF Answered, UsableIn
  <2>4. standing' = StandingAfter(standing, o)
    BY DEF Consumed, o
  <2>5. standing' = {s \in Sources : Usable(z, s)}
    BY <2>2, <2>3, <2>4 DEF UsableIn
  <2>6. available' = [s \in Sources |-> Usable(z, s)]
    BY DEF Consumed, z
  <2>7. QED
    BY <2>5, <2>6 DEF Answered, Usable, z
<1>5. TypedOK'
  BY PollTyped
<1>6. HistoryOK'
  <2>1. /\ b.cursor \in 0 .. Newest /\ Newest \in Nat
        /\ \A l \in printed' : l.seq <= b.cursor
        /\ \A n \in lost' : n <= b.cursor
    BY PollBehind
  <2>2. b.cursor <= Newest
    BY <2>1
  <2>3. Newest' = Newest
    BY <1>0 DEF Newest
  <2>4. QED
    BY <1>0, <1>1, <2>1, <2>2, <2>3 DEF HistoryOK
<1>7. AgentOK'
  BY <1>0 DEF AgentOK, Newest
<1>8. QED
  BY <1>2, <1>3, <1>4, <1>5, <1>6, <1>7 DEF Core

LEMMA NextCore ==
  ASSUME Core, [Next]_vars
  PROVE  Core'
<1>1. CASE Receive
  BY <1>1, ReceiveCore
<1>2. CASE Tick
  BY <1>2, TickCore
<1>3. CASE Restart
  BY <1>3, RestartCore
<1>4. CASE Rewind
  BY <1>4, RewindCore
<1>5. CASE Poll
  <2>1. \E b, f, x, c : Consumed(b, f, x, c)
    BY <1>5, PollIs DEF Core
  <2>2. QED
    BY <2>1, PollCore
<1>6. CASE ClearTracks
  BY <1>6, ClearTracksCore
<1>7. CASE UNCHANGED vars
  <2>1. /\ agent' = agent /\ model' = model /\ available' = available /\ reply' = reply /\ out' = out
        /\ standing' = standing /\ printed' = printed /\ lost' = lost /\ since' = since
    BY <1>7 DEF vars, history
  <2>2. AgentOK' /\ ModelOK' /\ SessionOK'
    BY <2>1 DEF Core, AgentOK, Newest, ModelOK, SessionOK
  <2>3. Answered' /\ TypedOK' /\ HistoryOK'
    BY <2>1 DEF Core, Answered, Usable, TypedOK, HistoryOK, Newest
  <2>4. QED
    BY <2>2, <2>3 DEF Core
<1>8. QED
  BY <1>1, <1>2, <1>3, <1>4, <1>5, <1>6, <1>7 DEF Next

(* The reader's inductive invariant: the Agent's log is numbered from one, the     *)
(* model is well formed, what it takes for usable is what is available and stands, *)
(* and what was printed or lost of this log is behind the cursor.                  *)
THEOREM CoreHolds == Spec => []Core
<1>1. Init => Core
  BY InitCore
<1>2. Core /\ [Next]_vars => Core'
  BY NextCore
<1>3. QED
  BY <1>1, <1>2, PTL DEF Spec

(* The types of the reader and of what it printed: every number stays within the *)
(* log it was read from, and no track grows past its cap.                        *)
THEOREM TypesHold == Spec => []TypeOK
<1>1. ASSUME Core PROVE TypeOK
  <2>1. AgentOK /\ ModelOK /\ Answered /\ TypedOK
    BY <1>1 DEF Core
  <2>2. /\ agent.session \in 1 .. MaxSessions /\ agent.rewinds \in 0 .. MaxRewinds /\ agent.now \in Times
        /\ agent.log \in Seq(Rec) /\ Len(agent.log) <= MaxRecords
    BY <2>1 DEF AgentOK, Agents, Newest
  <2>3. model \in Models /\ Bounded(model)
    BY <2>1 DEF ModelOK
  <2>4. /\ model.session \in 0 .. MaxSessions /\ model.cursor \in 0 .. MaxRecords
        /\ model.now \in Times /\ model.segment \in Nat
        /\ model.pos \in [Sources -> Position]
        /\ model.last \in [Sources -> Epochs \cup {None}]
        /\ \A s \in Sources : model.track[s] \in Seq(TrackPoint) /\ Len(model.track[s]) <= TrackCap
    BY <2>3, ModelFacts DEF Bounded
  <2>5. available \in [Sources -> BOOLEAN] /\ standing \subseteq Sources
    <3>1. \A s \in Sources : Usable(model, s) \in BOOLEAN
      BY DEF Usable, Fresh
    <3>2. QED
      BY <2>1, <3>1 DEF Answered
  <2>6. QED
    BY <2>1, <2>2, <2>4, <2>5 DEF TypeOK, TypedOK, LinesTyped, Rec
<1>2. QED
  BY <1>1, CoreHolds, PTL

(* What the output leaves standing is what is usable. *)
THEOREM StandingHolds == Spec => []StandingIsUsable
<1>1. Core => StandingIsUsable
  BY DEF Core, Answered, StandingIsUsable
<1>2. QED
  BY <1>1, CoreHolds, PTL

LEMMA PollShows ==
  ASSUME Core, Poll
  PROVE  ShownIsCurrent'
<1>1. PICK b, f, x, c : Consumed(b, f, x, c)
  BY PollIs DEF Core
<1>2. SUFFICES ASSUME NEW line \in Lines(out'), line.told = "position"
               PROVE  \E r \in Range(reply'.records) :
                        /\ r.seq = line.seq /\ r.source = line.source
                        /\ r.says = "position" /\ Fresh(reply'.now, r.ms, FreshAge)
  BY DEF ShownIsCurrent, Replied
<1>3. reply' = b /\ b \in Replies
  BY <1>1 DEF Consumed, Course
<1>4. PICK i \in 1 .. Len(b.records) : line \in RecordLines(x, b)[i]
  <2>1. line.told # "session" /\ line.told # "unavailable"
    BY <1>2
  <2>2. QED
    BY <1>1, <2>1, OutLines
<1> PICK r : r = b.records[i]
  OBVIOUS
<1>5. /\ line.seq = f + i - 1 /\ r.source = line.source /\ r.says = "position"
      /\ Fresh(b.now, r.ms, FreshAge)
  BY <1>1, <1>2, <1>4, ReadLines DEF Core
<1>6. r.seq = f + i - 1
  BY <1>1 DEF Consumed, Answer, Numbered
<1>7. r \in Range(b.records)
  BY <1>3 DEF Range, Replies
<1>8. QED
  BY <1>3, <1>5, <1>6, <1>7

(* Coordinates are printed only of a fresh position of the reply at hand. *)
THEOREM ShownHolds == Spec => []ShownIsCurrent
<1>1. Init => ShownIsCurrent
  BY SilenceSays DEF Init, ShownIsCurrent
<1>2. ASSUME Core, ShownIsCurrent, [Next]_vars PROVE ShownIsCurrent'
  <2>1. ASSUME out' = Silence PROVE ShownIsCurrent'
    BY <2>1, SilenceSays DEF ShownIsCurrent
  <2>2. CASE Poll
    BY <1>2, <2>2, PollShows
  <2>3. CASE Receive \/ Tick \/ Restart \/ Rewind \/ ClearTracks
    <3>1. out' = Silence
      BY <2>3 DEF Receive, Tick, Restart, Rewind, ClearTracks, Quiet, NewLog, Unread
    <3>2. QED
      BY <2>1, <3>1
  <2>4. CASE UNCHANGED vars
    <3>1. out' = out /\ reply' = reply
      BY <2>4 DEF vars
    <3>2. QED
      BY <1>2, <3>1 DEF ShownIsCurrent, Replied
  <2>5. QED
    BY <1>2, <2>2, <2>3, <2>4 DEF Next
<1>3. QED
  BY <1>1, <1>2, CoreHolds, PTL DEF Spec

(* The coordinates of a record are printed at most once: a repeated record is    *)
(* skipped, and a gap starts the cursor over only when all of it is new.         *)
THEOREM ShownOnceHolds == Spec => ShownOnce
<1>1. ASSUME Core, Poll, NEW line \in Lines(out'), line.told = "position"
      PROVE  line \notin printed
  <2>1. PICK b, f, x, c : Consumed(b, f, x, c)
    BY <1>1, PollIs DEF Core
  <2>2. PICK i \in 1 .. Len(b.records) : line \in RecordLines(x, b)[i]
    <3>1. line.told # "session" /\ line.told # "unavailable"
      BY <1>1
    <3>2. QED
      BY <2>1, <3>1, OutLines
  <2> PICK k : k = f + i - 1
    OBVIOUS
  <2>3. line.seq = k /\ After(k, f, c) /\ k \in 1 .. Newest
    BY <1>1, <2>1, <2>2, ReadLines DEF Core
  <2>4. k \in Nat
    BY <1>1, <2>3, LogFacts DEF Core
  <2>5. \A l \in printed : l.seq < k
    <3>1. /\ AgentOK /\ ModelOK /\ SessionOK /\ HistoryOK /\ TypedOK
          /\ Answer(b, model.cursor, model.session, f) /\ c = Origin(model, b)
      BY <1>1, <2>1 DEF Core, Consumed
    <3>2. QED
      BY <2>3, <2>4, <3>1, NewRecords
  <2>6. ~(k < k)
    BY <2>4
  <2>7. QED
    BY <2>3, <2>5, <2>6
<1>2. Core /\ [Next]_vars =>
        [\A line \in Lines(out') : Poll /\ line.told = "position" => line \notin printed]_vars
  BY <1>1
<1>3. QED
  BY <1>2, CoreHolds, PTL DEF Spec, ShownOnce

(* A record of the log between the cursor and the last record of the reply was  *)
(* read, or lost to the gap.                                                     *)
LEMMA Passed ==
  ASSUME AgentOK, ModelOK, SessionOK, NEW b, NEW f, Answer(b, model.cursor, model.session, f),
         NEW c, c = Origin(model, b), model.session = agent.session,
         NEW k \in Nat, ~(k <= model.cursor), k <= b.cursor
  PROVE  k \in Skipped(b) \/ (After(k, f, c) /\ k - f + 1 \in 1 .. Len(b.records))
<1>1. /\ Newest \in Nat /\ Oldest \in 1 .. (Newest + 1) /\ model.cursor \in Nat
      /\ f \in 1 .. (Newest + 1) /\ b.cursor \in (f - 1) .. Newest /\ Len(b.records) = b.cursor - f + 1
      /\ b.session = agent.session
  BY LogFacts, ModelFacts, BoundsAssumption DEF ModelOK, Answer
<1>2. OriginIs(b, f, c)
  BY OriginFacts
<1>3. CASE Continues(b) /\ c = model.cursor /\ f <= c + 1
  BY <1>1, <1>3 DEF After
<1>4. CASE c = 0 /\ f = Oldest /\ (model.session = agent.session => Unknown(b, model.cursor))
  <2>1. b.gap /\ model.cursor \notin (Oldest - 1) .. Newest
    BY <1>4 DEF Unknown
  <2>2. CASE k < Oldest
    BY <1>1, <2>1, <2>2 DEF Skipped
  <2>3. CASE ~(k < Oldest)
    BY <1>1, <1>4, <2>3 DEF After
  <2>4. QED
    BY <2>2, <2>3
<1>5. QED
  BY <1>2, <1>3, <1>4 DEF OriginIs

(* A report read after the origin, and not too old, has a line of its own. *)
LEMMA ReadReports ==
  ASSUME NEW b, NEW f, NEW x, NEW c, Consumed(b, f, x, c), NEW i \in 1 .. Len(b.records),
         NEW r, r = b.records[i], After(r.seq, f, c), r.says # "other", Fresh(b.now, r.ms, RecordAge)
  PROVE  \E line \in Lines(out') : line.seq = r.seq /\ line.source = r.source
<1> PICK y, z : y = x[i - 1] /\ z = x[i]
  OBVIOUS
<1>1. Course(b, x, c) /\ out'.records = RecordLines(x, b)
  BY DEF Consumed
<1>2. Good(y, b) /\ r \in Rec /\ ~Skips(y, r) /\ z = Read(y, r)
  <2>1. ~(r.seq <= c)
    BY DEF After
  <2>2. QED
    BY <1>1, <2>1, CourseStep
<1>3. Reported(y, r)
  BY <1>2 DEF Reported, Good
<1> PICK line : line = PositionLine(z, r.source)
  OBVIOUS
<1>4. line \in PrintedFor(z, r) /\ line.source = r.source /\ line.seq = r.seq
  BY <1>2, <1>3, ReportFacts
<1>5. line \in RecordLines(x, b)[i]
  BY <1>2, <1>4 DEF RecordLines
<1>6. line \in Lines(out')
  <2> PICK rec : rec = RecordLines(x, b)
    OBVIOUS
  <2>1. rec[i] \in Range(rec)
    BY DEF RecordLines, Range
  <2>2. line \in UNION Range(rec)
    BY <1>5, <2>1
  <2>3. out'.records = rec
    BY <1>1
  <2>4. QED
    BY <2>2, <2>3 DEF Lines
<1>7. QED
  BY <1>4, <1>6

(* The cursor passes no report of the receiver in silence. *)
THEOREM EveryRecordHolds == Spec => EveryRecordReported
<1> DEFINE Answered1(r) == \E line \in Lines(out') : line.seq = r.seq /\ line.source = r.source
           A == model'.cursor > model.cursor /\ model'.session = model.session =>
                  \A r \in Range(agent.log) :
                    model.cursor < r.seq /\ r.seq <= model'.cursor /\ r.says # "other" =>
                      \/ \E line \in Lines(out') : line.seq = r.seq /\ line.source = r.source
                      \/ r.seq \in lost'
                      \/ ~Fresh(agent.now, r.ms, RecordAge)
<1>1. ASSUME Core, Poll PROVE A
  <2> SUFFICES ASSUME model'.session = model.session, NEW r \in Range(agent.log),
                      model.cursor < r.seq, r.seq <= model'.cursor, r.says # "other",
                      r.seq \notin lost', Fresh(agent.now, r.ms, RecordAge)
               PROVE  Answered1(r)
    OBVIOUS
  <2>1. PICK b, f, x, c : Consumed(b, f, x, c)
    BY <1>1, PollIs DEF Core
  <2>2. /\ AgentOK /\ ModelOK /\ SessionOK /\ Answer(b, model.cursor, model.session, f) /\ c = Origin(model, b)
        /\ lost' = lost \cup Skipped(b) /\ model'.cursor = b.cursor /\ model'.session = b.session
    BY <1>1, <2>1 DEF Core, Consumed, Good
  <2>3. model.session = agent.session /\ b.now = agent.now /\ Numbered(b.records, f)
    BY <2>2 DEF Answer
  <2>4. r.seq \in 1 .. Newest /\ r = agent.log[r.seq]
    <3>1. agent.log \in Seq(Rec) /\ \A i \in 1 .. Newest : agent.log[i].seq = i
      BY <2>2, LogFacts
    <3>2. PICK j \in 1 .. Newest : r = agent.log[j]
      BY <3>1 DEF Range, Newest
    <3>3. QED
      BY <3>1, <3>2
  <2> PICK k : k = r.seq
    OBVIOUS
  <2>5. k \in Nat /\ ~(k <= model.cursor) /\ k <= b.cursor /\ k \notin Skipped(b)
    <3>1. k \in Nat /\ model.cursor \in Nat
      BY <2>2, <2>4, LogFacts, ModelFacts, BoundsAssumption DEF ModelOK
    <3>2. model.cursor < k /\ k <= b.cursor
      BY <2>2
    <3>3. QED
      BY <2>2, <3>1, <3>2
  <2>6. After(k, f, c) /\ k - f + 1 \in 1 .. Len(b.records)
    BY <2>2, <2>3, <2>5, Passed
  <2> PICK i : i = k - f + 1
    OBVIOUS
  <2>7. i \in 1 .. Len(b.records) /\ b.records[i] = r
    <3>0. i \in 1 .. Len(b.records)
      BY <2>6
    <3>1. b.records[i] = agent.log[f + i - 1] /\ f \in Nat
      BY <2>2, <3>0 DEF Answer, Numbered
    <3>2. f + i - 1 = k
      BY <2>5, <3>1
    <3>3. QED
      BY <2>4, <2>6, <3>1, <3>2
  <2>8. QED
    BY <2>1, <2>3, <2>6, <2>7, ReadReports
<1>2. ASSUME Core, ~Poll, [Next]_vars PROVE A
  <2>1. model' = model \/ model'.cursor = model.cursor
    <3>1. CASE ClearTracks
      BY <1>2, <3>1, ClearTracksCore
    <3>2. CASE Receive \/ Tick \/ Restart \/ Rewind
      BY <3>2 DEF Receive, Tick, Restart, Rewind, Quiet, NewLog, Unread
    <3>3. CASE UNCHANGED vars
      BY <3>3 DEF vars
    <3>4. QED
      BY <1>2, <3>1, <3>2, <3>3 DEF Next
  <2>2. model.cursor \in Nat
    BY <1>2, ModelFacts, BoundsAssumption DEF Core, ModelOK
  <2>3. ~(model'.cursor > model.cursor)
    BY <2>1, <2>2
  <2>4. QED
    BY <2>3
<1>3. Core /\ [Next]_vars => [A]_vars
  BY <1>1, <1>2
<1>4. QED
  BY <1>3, CoreHolds, PTL DEF Spec, EveryRecordReported

-----------------------------------------------------------------------------
(* The records read one at a time, and all at once *)

(* Models that differ in their cursor, and in positions grown old. *)
Alike(y, w) ==
  /\ y \in Models /\ w \in Models /\ Bounded(y) /\ Bounded(w) /\ Same(y, w)
  /\ y.session = w.session /\ y.now = w.now
  /\ Current(y.pos, w.now) = Current(w.pos, w.now)

CurrentAt(p, now) == [p EXCEPT !.valid = @ /\ Fresh(now, p.ms, FreshAge)]

LEMMA CurrentUpdate ==
  ASSUME NEW p \in [Sources -> Position], NEW q \in [Sources -> Position], NEW now,
         Current(p, now) = Current(q, now), NEW s \in Sources, NEW v \in Position
  PROVE  Current([p EXCEPT ![s] = v], now) = Current([q EXCEPT ![s] = v], now)
<1>1. \A f : Current(f, now) = [k \in Sources |-> CurrentAt(f[k], now)]
  BY DEF Current, CurrentAt
<1>2. \A k \in Sources : CurrentAt(p[k], now) = CurrentAt(q[k], now)
  BY <1>1
<1> PICK f, g : f = [p EXCEPT ![s] = v] /\ g = [q EXCEPT ![s] = v]
  OBVIOUS
<1>3. ASSUME NEW k \in Sources PROVE CurrentAt(f[k], now) = CurrentAt(g[k], now)
  <2>1. CASE k = s
    <3>1. f[k] = v /\ g[k] = v
      BY <2>1
    <3>2. QED
      BY <3>1
  <2>2. CASE k # s
    <3>1. f[k] = p[k] /\ g[k] = q[k]
      BY <2>2
    <3>2. QED
      BY <1>2, <3>1
  <2>3. QED
    BY <2>1, <2>2
<1>4. /\ Current(f, now) = [k \in Sources |-> CurrentAt(f[k], now)]
      /\ Current(g, now) = [k \in Sources |-> CurrentAt(g[k], now)]
  BY <1>1, Zenon
<1>5. Current(f, now) = Current(g, now)
  BY <1>3, <1>4
<1>6. QED
  BY <1>5

LEMMA ExtendAlike ==
  ASSUME NEW m \in Models, NEW k \in Models, Bounded(m), Bounded(k), Same(m, k),
         NEW s \in Sources, m.pos[s] = k.pos[s], m.pos[s].seq \in Numbers
  PROVE  Same(ExtendTrack(m, s), ExtendTrack(k, s))
<1> PICK x, z, p, q : /\ x = ExtendTrack(m, s) /\ z = ExtendTrack(k, s) /\ p = m.pos[s]
                      /\ q = Point(m, p, m.track[s])
  OBVIOUS
<1>1. m.segment = k.segment /\ m.track = k.track /\ m.last = k.last
  BY DEF Same
<1>2. q = Point(k, p, k.track[s])
  BY <1>1 DEF Point
<1>3. /\ ~p.valid => Broken(x, m, s)
      /\ p.valid /\ p.epoch = m.last[s] => x = m
      /\ p.valid /\ p.epoch # m.last[s] => Longer(x, m, s, q) /\ x.last = [m.last EXCEPT ![s] = p.epoch]
  BY ExtendFacts, ZenonT(40)
<1>4. /\ ~p.valid => Broken(z, k, s)
      /\ p.valid /\ p.epoch = k.last[s] => z = k
      /\ p.valid /\ p.epoch # k.last[s] => Longer(z, k, s, q) /\ z.last = [k.last EXCEPT ![s] = p.epoch]
  BY <1>2, ExtendFacts, SMTT(30)
<1>5. CASE ~p.valid
  BY <1>1, <1>3, <1>4, <1>5 DEF Broken, Same
<1>6. CASE p.valid /\ p.epoch = m.last[s]
  BY <1>1, <1>3, <1>4, <1>6
<1>7. CASE p.valid /\ p.epoch # m.last[s]
  BY <1>1, <1>3, <1>4, <1>7 DEF Longer, Same
<1>8. QED
  BY <1>5, <1>6, <1>7

LEMMA SentenceAlike ==
  ASSUME NEW y, NEW w, Alike(y, w), NEW r \in Rec
  PROVE  Alike(Sentence(y, r), Sentence(w, r))
<1>0. /\ y \in Models /\ w \in Models /\ Bounded(y) /\ Bounded(w) /\ Same(y, w)
      /\ y.session = w.session /\ y.now = w.now
      /\ Current(y.pos, w.now) = Current(w.pos, w.now)
  BY DEF Alike
<1>1. CASE r.says = "other"
  BY <1>1 DEF Sentence
<1>2. CASE r.says # "other"
  <2> PICK s \in Sources : s = r.source
    BY <1>2, RecordFacts
  <2> PICK m, k, v : m = Knows(y, r) /\ k = Knows(w, r) /\ v = Told(r)
    OBVIOUS
  <2>1. /\ v \in Position /\ v.seq = r.seq /\ m \in Models /\ m.pos = [y.pos EXCEPT ![s] = v]
        /\ m.session = y.session /\ m.now = y.now /\ Same(m, y) /\ Sentence(y, r) = ExtendTrack(m, s)
    BY <1>0, <1>2, KnowsFacts
  <2>2. /\ k \in Models /\ k.pos = [w.pos EXCEPT ![s] = v]
        /\ k.session = w.session /\ k.now = w.now /\ Same(k, w) /\ Sentence(w, r) = ExtendTrack(k, s)
    BY <1>0, <1>2, KnowsFacts
  <2>3. Bounded(m) /\ Bounded(k) /\ Same(m, k)
    BY <1>0, <2>1, <2>2 DEF Bounded, Same
  <2>4. y.pos \in [Sources -> Position] /\ w.pos \in [Sources -> Position]
    BY <1>0, ModelFacts
  <2>5. m.pos[s] = v /\ k.pos[s] = v /\ v.seq \in Numbers
    BY <2>1, <2>2, <2>4, RecordFacts
  <2> PICK e, d : e = ExtendTrack(m, s) /\ d = ExtendTrack(k, s)
    OBVIOUS
  <2>6. e \in Models /\ Bounded(e) /\ e.pos = m.pos /\ e.session = m.session /\ e.now = m.now
    BY <2>1, <2>3, <2>5, ExtendFacts
  <2>7. d \in Models /\ Bounded(d) /\ d.pos = k.pos /\ d.session = k.session /\ d.now = k.now
    BY <2>2, <2>3, <2>5, ExtendFacts, ZenonT(40)
  <2>8. Same(e, d)
    BY <2>1, <2>2, <2>3, <2>5, ExtendAlike
  <2> PICK now : now = w.now
    OBVIOUS
  <2>9. Current(m.pos, now) = Current(k.pos, now)
    <3>1. Current([y.pos EXCEPT ![s] = v], now) = Current([w.pos EXCEPT ![s] = v], now)
      BY <1>0, <2>1, <2>4, CurrentUpdate, SMTT(30)
    <3>2. QED
      BY <2>1, <2>2, <3>1
  <2>10. Current(e.pos, now) = Current(d.pos, now) /\ d.now = now
    BY <2>2, <2>6, <2>7, <2>9
  <2>11. Alike(e, d)
    BY <1>0, <2>1, <2>2, <2>6, <2>7, <2>8, <2>10 DEF Alike
  <2>12. QED
    BY <2>1, <2>2, <2>11
<1>3. QED
  BY <1>1, <1>2

LEMMA MovedSame ==
  ASSUME NEW A, NEW B, NEW C, NEW D, NEW E, NEW F, NEW G, NEW y, NEW w,
         y \in [session : A, cursor : B, now : C, segment : D, pos : E, last : F, track : G],
         w \in [session : A, cursor : B, now : C, segment : D, pos : E, last : F, track : G],
         y.session = w.session, y.now = w.now, y.segment = w.segment, y.last = w.last, y.track = w.track,
         NEW c, NEW p
  PROVE  [y EXCEPT !.cursor = c, !.pos = p] = [w EXCEPT !.cursor = c, !.pos = p]
OBVIOUS

LEMMA AlikeSettled ==
  ASSUME NEW y, NEW w, Alike(y, w), NEW c \in 0 .. MaxRecords
  PROVE  Settled(y, c) = Settled(w, c)
<1> PICK p : p = Current(w.pos, w.now)
  OBVIOUS
<1>1. /\ y \in Models /\ w \in Models /\ y.session = w.session /\ y.now = w.now
      /\ y.segment = w.segment /\ y.track = w.track /\ y.last = w.last /\ Current(y.pos, y.now) = p
  BY DEF Alike, Same
<1>2. Settled(y, c) = [y EXCEPT !.cursor = c, !.pos = p] /\ Settled(w, c) = [w EXCEPT !.cursor = c, !.pos = p]
  BY <1>1 DEF Settled
<1>3. [y EXCEPT !.cursor = c, !.pos = p] = [w EXCEPT !.cursor = c, !.pos = p]
  BY <1>1, MovedSame, Zenon DEF Models
<1>4. QED
  BY <1>2, <1>3

LEMMA SettledAlike ==
  ASSUME NEW e, NEW w, Alike(e, w), NEW c, NEW z, z = Settled(e, c), z \in Models, Sound(z)
  PROVE  Alike(z, w)
<1>1. /\ e \in Models /\ w \in Models /\ Bounded(e) /\ Bounded(w) /\ Same(e, w)
      /\ e.session = w.session /\ e.now = w.now
      /\ Current(e.pos, w.now) = Current(w.pos, w.now)
  BY DEF Alike
<1> PICK p, now : p = Current(e.pos, e.now) /\ now = w.now
  OBVIOUS
<1>2. z = [e EXCEPT !.cursor = c, !.pos = p]
  BY DEF Settled
<1>3. /\ z.session = e.session /\ z.now = e.now /\ z.pos = p /\ z.segment = e.segment
      /\ z.track = e.track /\ z.last = e.last
  BY <1>1, <1>2 DEF Models
<1>4. p \in [Sources -> Position] /\ now \in Times /\ now = z.now
  BY <1>1, <1>3, ModelFacts
<1>5. Current(p, now) = p
  <2>1. \A s \in Sources : p[s].valid => Fresh(now, p[s].ms, FreshAge)
    BY <1>3, <1>4 DEF Sound
  <2>2. QED
    BY <1>4, <2>1, CurrentSame
<1>6. Bounded(z) /\ Same(z, w)
  BY <1>1, <1>3 DEF Bounded, Same
<1>7. Current(z.pos, now) = Current(w.pos, now)
  BY <1>1, <1>3, <1>5
<1>8. QED
  BY <1>1, <1>3, <1>6, <1>7 DEF Alike

(* One record, read by the reader's model y and by the model w of apply(). *)
LEMMA AlikeStep ==
  ASSUME NEW y, NEW w, Alike(y, w), NEW r \in Rec, NEW z, z = Read(y, r), z \in Models, Sound(z)
  PROVE  Alike(z, IF Fresh(y.now, r.ms, RecordAge) THEN Sentence(w, r) ELSE w)
<1>1. CASE Fresh(y.now, r.ms, RecordAge)
  <2>1. z = Settled(Sentence(y, r), r.seq)
    BY <1>1 DEF Read
  <2>2. Alike(Sentence(y, r), Sentence(w, r))
    BY SentenceAlike
  <2>3. Alike(z, Sentence(w, r))
    BY <2>1, <2>2, SettledAlike
  <2>4. QED
    BY <1>1, <2>3
<1>2. CASE ~Fresh(y.now, r.ms, RecordAge)
  <2>1. z = Settled(y, r.seq)
    BY <1>2 DEF Read
  <2>2. Alike(z, w)
    BY <2>1, SettledAlike
  <2>3. QED
    BY <1>2, <2>2
<1>3. QED
  BY <1>1, <1>2

(* The origin of the reader is that of apply(): what it skips, apply() does not read. *)
LEMMA ReadsAfter ==
  ASSUME NEW m \in Models, Bounded(m), Sound(m), NEW b \in Replies, NEW r \in Rec
  PROVE  /\ r.seq <= Origin(m, b) => ~Reads(Opened(m, b), b, r)
         /\ ~(r.seq <= Origin(m, b)) => (Reads(Opened(m, b), b, r) <=> Fresh(b.now, r.ms, RecordAge))
<1> PICK i, o, c, k, n : /\ i = InSession(m, b) /\ o = Opened(m, b) /\ c = Origin(m, b)
                         /\ k = r.seq /\ n = o.cursor
  OBVIOUS
<1>1. i \in Models /\ Bounded(i)
  BY InSessionFacts
<1>2. o.cursor = i.cursor /\ i.cursor \in 0 .. MaxRecords
  BY <1>1, OpenedFacts, ModelFacts
<1>3. c = IF b.gap THEN 0 ELSE n
  BY <1>2 DEF Origin
<1>4. n \in Nat /\ k \in Nat \ {0}
  BY <1>2, RecordFacts, BoundsAssumption DEF Numbers
<1>5. (k > n \/ b.gap) <=> ~(k <= c)
  BY <1>3, <1>4
<1>6. Reads(o, b, r) <=> (k > n \/ b.gap) /\ Fresh(b.now, r.ms, RecordAge)
  BY DEF Reads
<1>7. QED
  BY <1>5, <1>6

LEMMA FirstAlike ==
  ASSUME NEW m \in Models, Bounded(m), Sound(m), NEW b \in Replies, NEW z, z = First(m, b), Good(z, b)
  PROVE  Alike(z, Opened(m, b))
<1> PICK o, c : o = Opened(m, b) /\ c = Origin(m, b)
  OBVIOUS
<1>1. InSession(m, b) \in Models /\ Bounded(InSession(m, b))
  BY InSessionFacts
<1>2. o \in Models /\ Bounded(o)
  BY <1>1, OpenedFacts
<1>3. Alike(o, o)
  BY <1>2 DEF Alike, Same
<1>4. z = Settled(o, c) /\ z \in Models /\ Sound(z)
  BY DEF First, Good
<1>5. Alike(z, o)
  BY <1>3, <1>4, SettledAlike
<1>6. QED
  BY <1>5

LEMMA CourseAlike ==
  ASSUME NEW m \in Models, Bounded(m), Sound(m), NEW b, NEW x, NEW c, Course(b, x, c),
         c = Origin(m, b), x[0] = First(m, b)
  PROVE  Alike(x[Len(b.records)], Reading(Opened(m, b), b)[Len(b.records)])
<1> PICK n, o, w : n = Len(b.records) /\ o = Opened(m, b) /\ w = Reading(o, b)
  OBVIOUS
<1>0. b \in Replies /\ n \in Nat
  BY DEF Course, Replies
<1>1. \A i \in 0 .. n : w[i] = Stepped(o, b, w, i)
  BY <1>0, ReadingIs
<1> DEFINE T == {i \in 0 .. n : ~Alike(x[i], w[i])}
<1>2. SUFFICES ASSUME T # {} PROVE FALSE
  <2>1. n \in 0 .. n
    BY <1>0
  <2>2. n \notin T => Alike(x[n], w[n])
    BY <2>1
  <2> HIDE DEF T
  <2>3. QED
    BY <2>2
<1>3. T \in SUBSET Nat
  BY <1>0
<1>4. PICK i \in T : \A j \in T : i <= j
  BY <1>2, <1>3, LeastNumber
<1>5. i \in 0 .. n /\ ~Alike(x[i], w[i])
  OBVIOUS
<1>6. CASE i = 0
  <2>1. 0 \in 0 .. n
    BY <1>0
  <2>2. Good(x[0], b)
    BY <2>1 DEF Course
  <2>3. Alike(x[0], o)
    BY <1>0, <2>2, FirstAlike
  <2>4. w[0] = o
    BY <1>1, <2>1 DEF Stepped
  <2>5. QED
    BY <1>5, <1>6, <2>3, <2>4
<1>7. CASE i # 0
  <2>1. i \in 1 .. n /\ i - 1 \in 0 .. n /\ ~(i <= i - 1)
    BY <1>0, <1>5, <1>7
  <2>2. i - 1 \notin T
    BY <1>4, <2>1
  <2>3. Alike(x[i - 1], w[i - 1])
    BY <2>1, <2>2
  <2> PICK y, z, v, u, r : y = x[i - 1] /\ z = x[i] /\ v = w[i - 1] /\ u = w[i] /\ r = b.records[i]
    OBVIOUS
  <2>4. u = IF Reads(o, b, r) THEN Sentence(v, r) ELSE v
    <3>1. u = Stepped(o, b, w, i)
      BY <1>1, <1>5
    <3>2. QED
      BY <1>7, <3>1 DEF Stepped
  <2>5. /\ Good(y, b) /\ Good(z, b) /\ r \in Rec
        /\ r.seq <= c => z = y
        /\ ~(r.seq <= c) => z = Read(y, r)
    BY <2>1, CourseStep
  <2>6. /\ r.seq <= c => ~Reads(o, b, r)
        /\ ~(r.seq <= c) => (Reads(o, b, r) <=> Fresh(b.now, r.ms, RecordAge))
    BY <1>0, <2>5, ReadsAfter
  <2> DEFINE Past == r.seq <= c
  <2>7. (Past => z = y) /\ (~Past => z = Read(y, r))
    BY <2>5
  <2>8. (Past => ~Reads(o, b, r)) /\ (~Past => (Reads(o, b, r) <=> Fresh(b.now, r.ms, RecordAge)))
    BY <2>6
  <2> HIDE DEF Past
  <2>9. CASE Past
    BY <1>5, <2>3, <2>4, <2>7, <2>8, <2>9
  <2>10. CASE ~Past
    <3>1. z = Read(y, r) /\ z \in Models /\ Sound(z) /\ Alike(y, v) /\ y.now = b.now
      BY <2>3, <2>5, <2>7, <2>10 DEF Good
    <3>2. Alike(z, IF Fresh(y.now, r.ms, RecordAge) THEN Sentence(v, r) ELSE v)
      BY <2>5, <3>1, AlikeStep
    <3>3. Alike(z, u)
      BY <2>4, <2>8, <2>10, <3>1, <3>2
    <3>4. QED
      BY <1>5, <3>3
  <2>11. QED
    BY <2>9, <2>10
<1>8. QED
  BY <1>6, <1>7

(* Feeding the model record by record leaves it as one apply() of the whole *)
(* reply: the cursor and the gap flag the reader sets by hand lose nothing.  *)
THEOREM ReaderAgreesHolds == Spec => ReaderAgreesWithModel
<1>1. ASSUME Core, Poll PROVE model' = Apply(model, reply')
  <2>1. PICK b, f, x, c : Consumed(b, f, x, c)
    BY <1>1, PollIs DEF Core
  <2>2. /\ model \in Models /\ Bounded(model) /\ Sound(model) /\ Course(b, x, c) /\ c = Origin(model, b)
        /\ x[0] = First(model, b) /\ model' = Settled(x[Len(b.records)], b.cursor) /\ reply' = b
        /\ b \in Replies
    BY <1>1, <2>1 DEF Core, ModelOK, Consumed, Course
  <2> PICK o, y, w : /\ o = Opened(model, b) /\ y = x[Len(b.records)]
                     /\ w = Reading(o, b)[Len(b.records)]
    OBVIOUS
  <2>3. Alike(y, w)
    BY <2>2, CourseAlike
  <2>4. b.cursor \in 0 .. MaxRecords
    BY <2>2 DEF Replies
  <2>5. model' = Settled(w, b.cursor)
    BY <2>2, <2>3, <2>4, AlikeSettled
  <2>6. w.now = b.now
    <3>1. Good(y, b)
      BY <2>2 DEF Course, Replies
    <3>2. QED
      BY <2>3, <3>1 DEF Alike, Good
  <2>7. Apply(model, b) = Settled(w, b.cursor)
    BY <2>6 DEF Apply, Settled
  <2>8. QED
    BY <2>2, <2>5, <2>7
<1>2. Core /\ [Next]_vars => [Poll => model' = Apply(model, reply')]_vars
  BY <1>1
<1>3. QED
  BY <1>2, CoreHolds, PTL DEF Spec, ReaderAgreesWithModel

-----------------------------------------------------------------------------
(* The points of one track: seg is the segment of the model, u the number of its *)
(* position, h the numbers a joined pair may not span, B the last number read,    *)
(* and g the first segment whose points are all of this log.                      *)

Placed(p, seg, B, g) == p.segment <= seg /\ (p.segment >= g => p.seq <= B)
Joined(p, q, h, g)   == p.segment = q.segment /\ p.segment >= g =>
                          /\ p.seq < q.seq /\ q.ms - p.ms <= FreshAge
                          /\ \A n \in h : ~(p.seq < n /\ n < q.seq)
Open(t, seg, g)      == t # <<>> /\ t[Len(t)].segment = seg /\ seg >= g
Reached(t, u, h, B)  == u <= B /\ \A n \in h : n <= B => n <= t[Len(t)].seq
TrackOK(t, seg, u, h, B, g) ==
  /\ \A i \in 1 .. Len(t) : Placed(t[i], seg, B, g)
  /\ \A i \in 1 .. (Len(t) - 1) : Joined(t[i], t[i + 1], h, g)
  /\ Open(t, seg, g) => Reached(t, u, h, B)
Drawn(t, g) == \E i \in 1 .. Len(t) : t[i].segment >= g

LEMMA PointFacts ==
  ASSUME NEW t \in Seq(TrackPoint), NEW i \in 1 .. Len(t)
  PROVE  t[i] \in TrackPoint /\ t[i].seq \in Nat /\ t[i].ms \in Nat /\ t[i].segment \in Nat
<1>1. t[i] \in TrackPoint
  OBVIOUS
<1>2. \A p \in TrackPoint : p.seq \in Numbers /\ p.ms \in Times /\ p.segment \in Nat
  BY DEF TrackPoint
<1>3. QED
  BY <1>1, <1>2, BoundsAssumption DEF Numbers, Times

LEMMA LastPoint ==
  ASSUME NEW t \in Seq(TrackPoint), t # <<>>
  PROVE  Len(t) \in 1 .. Len(t) /\ Len(t) \in Nat
OBVIOUS

(* A point placed stays placed while segments and numbers grow. *)
LEMMA PlacedGrows ==
  ASSUME NEW p, p.seq \in Nat, p.segment \in Nat, NEW seg \in Nat, NEW new \in Nat, seg <= new,
         NEW B \in Nat, NEW C \in Nat, B <= C, NEW g \in Nat, Placed(p, seg, B, g)
  PROVE  Placed(p, new, C, g)
<1> PICK n, k : n = p.seq /\ k = p.segment
  OBVIOUS
<1>1. k <= seg /\ (k >= g => n <= B)
  BY DEF Placed
<1>2. k <= new /\ (k >= g => n <= C)
  BY <1>1
<1>3. QED
  BY <1>2 DEF Placed

(* No track is open in a new segment. *)
LEMMA NotOpen ==
  ASSUME NEW t \in Seq(TrackPoint), NEW seg \in Nat, NEW new \in Nat, seg < new,
         NEW B, NEW g, \A i \in 1 .. Len(t) : Placed(t[i], seg, B, g)
  PROVE  ~Open(t, new, g)
<1>1. CASE t = <<>>
  BY <1>1 DEF Open
<1>2. CASE t # <<>>
  <2> PICK k : k = t[Len(t)].segment
    OBVIOUS
  <2>1. k \in Nat /\ k <= seg
    BY <1>2, LastPoint, PointFacts DEF Placed
  <2>2. k # new
    BY <2>1
  <2>3. QED
    BY <2>2 DEF Open
<1>3. QED
  BY <1>1, <1>2

LEMMA TrackBreaks ==
  ASSUME NEW t \in Seq(TrackPoint), NEW seg \in Nat, NEW new \in Nat, seg < new,
         NEW B \in Nat, NEW C \in Nat, B <= C, NEW g \in Nat, NEW h, NEW u, TrackOK(t, seg, u, h, B, g), NEW v
  PROVE  TrackOK(t, new, v, h, C, g)
<1>1. ASSUME NEW i \in 1 .. Len(t) PROVE Placed(t[i], new, C, g)
  <2>1. t[i].seq \in Nat /\ t[i].segment \in Nat /\ Placed(t[i], seg, B, g) /\ seg <= new
    BY PointFacts DEF TrackOK
  <2>2. QED
    BY <2>1, PlacedGrows
<1>2. ~Open(t, new, g)
  BY NotOpen DEF TrackOK
<1>3. QED
  BY <1>1, <1>2 DEF TrackOK

(* More numbers not to span, all of them after the last number read. *)
LEMMA TrackWidens ==
  ASSUME NEW t \in Seq(TrackPoint), NEW seg \in Nat, NEW B \in Nat, NEW g \in Nat, NEW h, NEW w \in SUBSET Nat,
         NEW u, TrackOK(t, seg, u, h, B, g), \A n \in w : n <= B => n \in h
  PROVE  TrackOK(t, seg, u, w, B, g)
<1>1. ASSUME NEW i \in 1 .. (Len(t) - 1) PROVE Joined(t[i], t[i + 1], w, g)
  <2> PICK p, q : p = t[i] /\ q = t[i + 1]
    OBVIOUS
  <2> PICK m, n, k, l : m = p.seq /\ n = q.seq /\ k = p.segment /\ l = q.segment
    OBVIOUS
  <2>1. i \in 1 .. Len(t) /\ i + 1 \in 1 .. Len(t)
    OBVIOUS
  <2>2. m \in Nat /\ n \in Nat /\ k \in Nat /\ l \in Nat
    BY <2>1, PointFacts
  <2>3. Placed(q, seg, B, g) /\ Joined(p, q, h, g)
    BY <2>1 DEF TrackOK
  <2>4. l >= g => n <= B
    BY <2>3 DEF Placed
  <2>5. k = l /\ k >= g => m < n /\ q.ms - p.ms <= FreshAge /\ \A j \in h : ~(m < j /\ j < n)
    BY <2>3 DEF Joined
  <2>6. k = l /\ k >= g => \A j \in w : ~(m < j /\ j < n)
    <3> SUFFICES ASSUME k = l, k >= g, NEW j \in w, m < j, j < n PROVE FALSE
      OBVIOUS
    <3>1. j <= B
      BY <2>2, <2>4
    <3>2. j \in h
      BY <3>1
    <3>3. QED
      BY <2>5, <3>2
  <2>7. QED
    BY <2>5, <2>6 DEF Joined
<1>2. ASSUME Open(t, seg, g) PROVE Reached(t, u, w, B)
  <2>1. Reached(t, u, h, B)
    BY <1>2 DEF TrackOK
  <2>2. QED
    BY <2>1 DEF Reached
<1>3. QED
  BY <1>1, <1>2 DEF TrackOK

(* A track none of whose points is of this log. *)
LEMMA TrackOld ==
  ASSUME NEW t \in Seq(TrackPoint), NEW seg \in Nat, NEW g \in Nat, ~Drawn(t, g),
         \A i \in 1 .. Len(t) : t[i].segment <= seg, NEW u, NEW h, NEW B
  PROVE  TrackOK(t, seg, u, h, B, g)
<1>1. \A i \in 1 .. Len(t) : Placed(t[i], seg, B, g)
  BY DEF Drawn, Placed
<1>2. \A i \in 1 .. (Len(t) - 1) : Joined(t[i], t[i + 1], h, g)
  <2> SUFFICES ASSUME NEW i \in 1 .. (Len(t) - 1) PROVE Joined(t[i], t[i + 1], h, g)
    OBVIOUS
  <2>1. i \in 1 .. Len(t)
    OBVIOUS
  <2>2. ~(t[i].segment >= g)
    BY <2>1 DEF Drawn
  <2>3. QED
    BY <2>2 DEF Joined
<1>3. ~Open(t, seg, g)
  <2>1. t # <<>> => Len(t) \in 1 .. Len(t)
    BY LastPoint
  <2>2. QED
    BY <2>1 DEF Open, Drawn
<1>4. QED
  BY <1>1, <1>2, <1>3 DEF TrackOK

(* One number more is read, and the track is as before. *)
LEMMA TrackStays ==
  ASSUME NEW t \in Seq(TrackPoint), NEW seg \in Nat, NEW B \in Nat, NEW g \in Nat, NEW h \in SUBSET Nat,
         NEW u, TrackOK(t, seg, u, h, B, g), NEW v, v = u \/ v = B + 1, u \in Nat,
         Open(t, seg, g) => B + 1 \notin h
  PROVE  TrackOK(t, seg, v, h, B + 1, g)
<1>1. ASSUME NEW i \in 1 .. Len(t) PROVE Placed(t[i], seg, B + 1, g)
  <2>1. t[i].seq \in Nat /\ t[i].segment \in Nat /\ Placed(t[i], seg, B, g)
    BY PointFacts DEF TrackOK
  <2>2. seg <= seg /\ B + 1 \in Nat /\ B <= B + 1
    OBVIOUS
  <2>3. QED
    BY <2>1, <2>2, PlacedGrows
<1>2. ASSUME Open(t, seg, g) PROVE Reached(t, v, h, B + 1)
  <2> PICK k : k = t[Len(t)].seq
    OBVIOUS
  <2>1. u <= B /\ \A n \in h : n <= B => n <= k
    BY <1>2 DEF TrackOK, Reached
  <2>2. v <= B + 1
    BY <2>1
  <2>3. \A n \in h : n <= B + 1 => n <= k
    BY <1>2, <2>1
  <2>4. QED
    BY <2>2, <2>3 DEF Reached
<1>3. QED
  BY <1>1, <1>2 DEF TrackOK

(* A point more, in a segment of its own if it comes after a pause. *)
LEMMA TrackGrows ==
  ASSUME NEW t \in Seq(TrackPoint), Len(t) <= TrackCap, NEW seg \in Nat, NEW B \in Nat, NEW g \in Nat,
         NEW h \in SUBSET Nat, NEW u, TrackOK(t, seg, u, h, B, g),
         NEW q \in TrackPoint, q.seq = B + 1, q.segment = seg \/ q.segment = seg + 1,
         t # <<>> /\ ~Fresh(q.ms, t[Len(t)].ms, FreshAge) => q.segment = seg + 1
  PROVE  TrackOK(Capped(Append(t, q)), q.segment, B + 1, h, B + 1, g)
<1> PICK c : c = Capped(Append(t, q))
  OBVIOUS
<1> PICK new \in Nat : new = q.segment
  OBVIOUS
<1>0. new = seg \/ new = seg + 1
  OBVIOUS
<1>1. c \in Seq(TrackPoint) /\ Len(c) \in Nat \ {0} /\ c[Len(c)] = q
  BY CappedFacts
<1>2. PICK d \in {0, 1} : /\ Len(c) = Len(t) + 1 - d
                          /\ \A i \in 1 .. (Len(c) - 1) : i + d \in 1 .. Len(t) /\ c[i] = t[i + d]
  <2>1. LET e == Capped(Append(t, q))
        IN  \E d \in {0, 1} : /\ Len(e) = Len(t) + 1 - d
                              /\ \A i \in 1 .. (Len(e) - 1) : i + d \in 1 .. Len(t) /\ e[i] = t[i + d]
    BY CappedFacts, Zenon
  <2>2. QED
    BY <2>1
<1>3. ASSUME NEW i \in 1 .. Len(c) PROVE Placed(c[i], new, B + 1, g)
  <2>1. CASE i = Len(c)
    <3>1. c[i].segment = new /\ c[i].seq = B + 1
      BY <1>1, <2>1
    <3>2. new <= new /\ B + 1 <= B + 1
      OBVIOUS
    <3>3. QED
      BY <3>1, <3>2 DEF Placed
  <2>2. CASE i # Len(c)
    <3>1. i \in 1 .. (Len(c) - 1)
      BY <1>1, <2>2
    <3> PICK j : j = i + d
      OBVIOUS
    <3>2. j \in 1 .. Len(t) /\ c[i] = t[j]
      BY <1>2, <3>1
    <3>3. t[j].seq \in Nat /\ t[j].segment \in Nat /\ Placed(t[j], seg, B, g)
      BY <3>2, PointFacts DEF TrackOK
    <3>4. seg <= new /\ B + 1 \in Nat /\ B <= B + 1
      BY <1>0
    <3>5. Placed(t[j], new, B + 1, g)
      BY <3>3, <3>4, PlacedGrows
    <3>6. QED
      BY <3>2, <3>5
  <2>3. QED
    BY <2>1, <2>2
<1>4. ASSUME t # <<>> PROVE Joined(t[Len(t)], q, h, g)
  <2> PICK p, k, n, a, b : /\ p = t[Len(t)] /\ k = p.segment /\ n = p.seq /\ a = p.ms /\ b = q.ms
    OBVIOUS
  <2>1. Len(t) \in 1 .. Len(t)
    BY <1>4, LastPoint
  <2>2. k \in Nat /\ n \in Nat /\ a \in Nat /\ b \in Nat
    <3>1. b \in Times
      BY DEF TrackPoint
    <3>2. QED
      BY <2>1, <3>1, PointFacts, BoundsAssumption DEF Times
  <2>3. Placed(p, seg, B, g)
    BY <2>1 DEF TrackOK
  <2>4. k <= seg /\ (k >= g => n <= B)
    BY <2>3 DEF Placed
  <2>5. CASE new = seg + 1
    <3>1. k # new
      BY <2>2, <2>4, <2>5
    <3>2. QED
      BY <3>1 DEF Joined
  <2>6. CASE new = seg
    <3>1. seg # seg + 1
      OBVIOUS
    <3>2. Fresh(b, a, FreshAge)
      BY <1>4, <2>6, <3>1
    <3>3. b - a <= FreshAge
      BY <3>2 DEF Fresh
    <3> SUFFICES ASSUME k = new, k >= g PROVE n < B + 1 /\ \A j \in h : ~(n < j /\ j < B + 1)
      BY <3>3 DEF Joined
    <3>4. Open(t, seg, g)
      BY <1>4, <2>6 DEF Open
    <3>5. \A j \in h : j <= B => j <= n
      BY <3>4 DEF TrackOK, Reached
    <3>6. \A j \in h : ~(n < j /\ j < B + 1)
      BY <2>2, <3>5
    <3>7. QED
      BY <2>2, <2>4, <3>6
  <2>7. QED
    BY <1>0, <2>5, <2>6
<1>5. ASSUME NEW i \in 1 .. (Len(c) - 1) PROVE Joined(c[i], c[i + 1], h, g)
  <2> PICK j : j = i + d
    OBVIOUS
  <2>1. j \in 1 .. Len(t) /\ c[i] = t[j] /\ j \in Nat /\ Len(t) \in Nat
    BY <1>2
  <2>2. CASE i + 1 = Len(c)
    <3>1. j = Len(t)
      BY <1>1, <1>2, <2>2
    <3>2. t # <<>>
      BY <2>1
    <3>3. QED
      BY <1>1, <1>4, <2>1, <2>2, <3>1, <3>2
  <2>3. CASE i + 1 # Len(c)
    <3>1. i + 1 \in 1 .. (Len(c) - 1)
      BY <1>1, <2>3
    <3>2. j + 1 \in 1 .. Len(t) /\ c[i + 1] = t[j + 1]
      <4>1. (i + 1) + d \in 1 .. Len(t) /\ c[i + 1] = t[(i + 1) + d]
        BY <1>2, <3>1
      <4>2. (i + 1) + d = j + 1
        OBVIOUS
      <4>3. QED
        BY <4>1, <4>2
    <3>3. j \in 1 .. (Len(t) - 1)
      BY <2>1, <3>2
    <3>4. Joined(t[j], t[j + 1], h, g)
      BY <3>3 DEF TrackOK
    <3>5. QED
      BY <2>1, <3>2, <3>4
  <2>4. QED
    BY <2>2, <2>3
<1>6. Reached(c, B + 1, h, B + 1)
  <2>1. c[Len(c)].seq = B + 1 /\ B + 1 <= B + 1
    BY <1>1
  <2>2. QED
    BY <2>1 DEF Reached
<1>7. QED
  BY <1>3, <1>5, <1>6 DEF TrackOK

TracksOK(m, H, B, g) ==
  \A s \in Sources : TrackOK(m.track[s], m.segment, m.pos[s].seq, H[s], B, g)

(* The number k is printed or lost where it breaks a track, or belongs to an older log. *)
Denies(y, r, s, k) == (Reported(y, r) /\ r.source = s /\ r.says = "no position") \/ y.pos[s].seq = k

(* The point append() would add. *)
PointOf(y, r) == Point(y, Told(r), y.track[r.source])

LEMMA PointOfFacts ==
  ASSUME NEW y \in Models, Bounded(y), Sound(y), NEW r \in Rec, ~Skips(y, r), NEW z, z = Read(y, r),
         Reported(y, r), r.says # "no position", r.epoch # y.last[r.source]
  PROVE  /\ PointOf(y, r) \in TrackPoint /\ PointOf(y, r).seq = r.seq /\ PointOf(y, r).ms = r.ms
         /\ Longer(z, y, r.source, PointOf(y, r))
         /\ PointOf(y, r).segment = y.segment \/ PointOf(y, r).segment = y.segment + 1
         /\ LET t == y.track[r.source]
            IN  t # <<>> /\ ~Fresh(r.ms, t[Len(t)].ms, FreshAge) => PointOf(y, r).segment = y.segment + 1
<1>1. r.says = "position"
  BY RecordFacts DEF Reported, Says
<1>2. LET q == Point(y, Told(r), y.track[r.source])
      IN  q \in TrackPoint /\ q.seq = r.seq /\ q.ms = r.ms /\ Longer(z, y, r.source, q)
  BY <1>1, ReadFacts, Zenon
<1>3. Told(r).ms = r.ms
  BY DEF Told
<1> PICK t, p : t = y.track[r.source] /\ p = Told(r)
  OBVIOUS
<1>4. /\ Point(y, p, t).segment = y.segment \/ Point(y, p, t).segment = y.segment + 1
      /\ t # <<>> /\ ~Fresh(p.ms, t[Len(t)].ms, FreshAge) => Point(y, p, t).segment = y.segment + 1
  BY DEF Point
<1>5. QED
  BY <1>2, <1>3, <1>4 DEF PointOf

LEMMA ReadTracks ==
  ASSUME NEW b, NEW y, Good(y, b), NEW r \in Rec, ~Skips(y, r), NEW z, z = Read(y, r),
         NEW H \in [Sources -> SUBSET Nat], NEW B \in Nat, r.seq = B + 1, NEW g \in Nat, TracksOK(y, H, B, g),
         \A s \in Sources : B + 1 \in H[s] => Denies(y, r, s, B + 1)
  PROVE  TracksOK(z, H, B + 1, g)
<1>0. y \in Models /\ Bounded(y) /\ Sound(y) /\ y.segment \in Nat
  BY ModelFacts DEF Good
<1> SUFFICES ASSUME NEW s \in Sources
             PROVE  TrackOK(z.track[s], z.segment, z.pos[s].seq, H[s], B + 1, g)
  BY DEF TracksOK
<1> PICK t, seg, u, v, h : /\ t = y.track[s] /\ seg = y.segment /\ u = y.pos[s].seq /\ v = z.pos[s].seq
                           /\ h = H[s]
  OBVIOUS
<1>1. /\ t \in Seq(TrackPoint) /\ Len(t) <= TrackCap /\ seg \in Nat /\ u \in Nat /\ h \in SUBSET Nat
      /\ TrackOK(t, seg, u, h, B, g) /\ (B + 1 \in h => Denies(y, r, s, B + 1))
  <2>1. y.track[s] \in Seq(TrackPoint) /\ Len(y.track[s]) <= TrackCap
    BY <1>0, ModelFacts DEF Bounded
  <2>2. u \in Nat
    <3>1. y.pos[s] \in Position
      BY <1>0, ModelFacts
    <3>2. u \in 0 .. MaxRecords
      BY <3>1 DEF Position
    <3>3. QED
      BY <3>2, BoundsAssumption
  <2>3. TrackOK(y.track[s], y.segment, y.pos[s].seq, H[s], B, g)
    BY DEF TracksOK
  <2>4. QED
    BY <1>0, <2>1, <2>2, <2>3
<1>2. IF Reported(y, r) /\ r.source = s THEN v = B + 1 ELSE v = u
  BY <1>0, ReadFacts, ZenonT(40)
<1>3. Open(t, seg, g) => u # B + 1
  <2>1. Open(t, seg, g) => u <= B
    BY <1>1 DEF TrackOK, Reached
  <2>2. QED
    BY <1>1, <2>1
<1>4. ASSUME Same(z, y), ~(Reported(y, r) /\ r.says = "no position")
      PROVE  TrackOK(z.track[s], z.segment, v, h, B + 1, g)
  <2>1. z.track[s] = t /\ z.segment = seg
    BY <1>4 DEF Same
  <2>2. Open(t, seg, g) => B + 1 \notin h
    BY <1>1, <1>3, <1>4 DEF Denies
  <2>3. v = u \/ v = B + 1
    BY <1>2
  <2>4. TrackOK(t, seg, v, h, B + 1, g)
    BY <1>1, <2>2, <2>3, TrackStays
  <2>5. QED
    BY <2>1, <2>4
<1>5. CASE ~Reported(y, r)
  <2>1. Same(z, y)
    BY <1>0, <1>5, ReadFacts
  <2>2. QED
    BY <1>4, <1>5, <2>1
<1>6. CASE Reported(y, r) /\ r.says = "no position"
  <2>1. Broken(z, y, r.source)
    BY <1>0, <1>6, ReadFacts
  <2>2. z.track[s] = t /\ z.segment = seg + 1
    BY <2>1 DEF Broken
  <2>3. seg < seg + 1 /\ seg + 1 \in Nat /\ B <= B + 1 /\ B + 1 \in Nat
    BY <1>1
  <2>4. TrackOK(t, seg + 1, v, h, B + 1, g)
    BY <1>1, <2>3, TrackBreaks, SMTT(30)
  <2>5. QED
    BY <2>2, <2>4
<1>7. CASE Reported(y, r) /\ r.says # "no position" /\ r.epoch = y.last[r.source]
  <2>1. r.says = "position"
    BY <1>7, RecordFacts DEF Reported, Says
  <2>2. Same(z, y)
    BY <1>0, <1>7, <2>1, ReadFacts
  <2>3. QED
    BY <1>4, <1>7, <2>2
<1>8. CASE Reported(y, r) /\ r.says # "no position" /\ r.epoch # y.last[r.source]
  <2> PICK q : q = PointOf(y, r)
    OBVIOUS
  <2>1. /\ q \in TrackPoint /\ q.seq = B + 1 /\ q.ms = r.ms /\ Longer(z, y, r.source, q)
        /\ q.segment = seg \/ q.segment = seg + 1
    BY <1>0, <1>8, PointOfFacts
  <2>2. LET w == y.track[r.source]
        IN  w # <<>> /\ ~Fresh(r.ms, w[Len(w)].ms, FreshAge) => q.segment = seg + 1
    BY <1>0, <1>8, PointOfFacts
  <2>3. z.segment = q.segment
    BY <2>1 DEF Longer
  <2>4. CASE r.source = s
    <3>1. z.track[s] = Capped(Append(t, q))
      BY <1>0, <2>1, <2>4, ModelFacts DEF Longer
    <3>2. t # <<>> /\ ~Fresh(q.ms, t[Len(t)].ms, FreshAge) => q.segment = seg + 1
      BY <2>1, <2>2, <2>4
    <3>3. TrackOK(Capped(Append(t, q)), q.segment, B + 1, h, B + 1, g)
      BY <1>1, <2>1, <3>2, TrackGrows
    <3>4. QED
      BY <1>2, <1>8, <2>3, <2>4, <3>1, <3>3
  <2>5. CASE r.source # s
    <3>1. z.track[s] = t /\ v = u
      BY <1>0, <1>2, <2>1, <2>5, ModelFacts DEF Longer
    <3>2. CASE q.segment = seg
      <4>1. Open(t, seg, g) => B + 1 \notin h
        BY <1>1, <1>3, <2>5 DEF Denies
      <4>2. TrackOK(t, seg, u, h, B + 1, g)
        BY <1>1, <4>1, TrackStays
      <4>3. QED
        BY <2>3, <3>1, <3>2, <4>2
    <3>3. CASE q.segment = seg + 1
      <4>1. seg < seg + 1 /\ seg + 1 \in Nat /\ B <= B + 1 /\ B + 1 \in Nat
        BY <1>1
      <4>2. TrackOK(t, seg + 1, v, h, B + 1, g)
        BY <1>1, <4>1, TrackBreaks
      <4>3. QED
        BY <2>3, <3>1, <3>3, <4>2
    <3>4. QED
      BY <2>1, <3>2, <3>3
  <2>6. QED
    BY <2>4, <2>5
<1>9. QED
  BY <1>5, <1>6, <1>7, <1>8

(* The last number read once record number i of the reply is. *)
Upto(f, c, i) == IF f + i - 1 <= c THEN c ELSE f + i - 1

LEMMA UptoFacts ==
  ASSUME NEW f \in Nat \ {0}, NEW c \in Nat, NEW i \in Nat
  PROVE  /\ Upto(f, c, i) \in Nat
         /\ i # 0 => IF f + i - 1 <= c THEN Upto(f, c, i) = c /\ Upto(f, c, i - 1) = c
                     ELSE Upto(f, c, i) = f + i - 1 /\ Upto(f, c, i - 1) + 1 = f + i - 1
         /\ f <= c + 1 => Upto(f, c, 0) = c
         /\ c = 0 => Upto(f, c, 0) = f - 1
BY DEF Upto

LEMMA CourseTracks ==
  ASSUME NEW b, NEW f \in Nat \ {0}, NEW x, NEW c, Course(b, x, c), Numbered(b.records, f),
         NEW H \in [Sources -> SUBSET Nat], NEW g \in Nat, TracksOK(x[0], H, Upto(f, c, 0), g),
         \A i \in 1 .. Len(b.records) : \A s \in Sources :
           After(f + i - 1, f, c) /\ f + i - 1 \in H[s] => Denies(x[i - 1], b.records[i], s, f + i - 1)
  PROVE  TracksOK(x[Len(b.records)], H, Upto(f, c, Len(b.records)), g)
<1> PICK n : n = Len(b.records)
  OBVIOUS
<1>0. n \in Nat /\ c \in Nat
  BY BoundsAssumption DEF Course, Replies
<1> DEFINE T == {i \in 0 .. n : ~TracksOK(x[i], H, Upto(f, c, i), g)}
<1>1. SUFFICES ASSUME T # {} PROVE FALSE
  <2>1. n \in 0 .. n
    BY <1>0
  <2>2. n \notin T => TracksOK(x[n], H, Upto(f, c, n), g)
    BY <2>1
  <2> HIDE DEF T
  <2>3. QED
    BY <2>2
<1>2. T \in SUBSET Nat
  BY <1>0
<1>3. PICK i \in T : \A j \in T : i <= j
  BY <1>1, <1>2, LeastNumber
<1>4. i \in 0 .. n /\ ~TracksOK(x[i], H, Upto(f, c, i), g)
  OBVIOUS
<1>5. i # 0
  BY <1>4
<1>6. i \in 1 .. n /\ i - 1 \in 0 .. n /\ ~(i <= i - 1) /\ i \in Nat
  BY <1>0, <1>4, <1>5
<1>7. TracksOK(x[i - 1], H, Upto(f, c, i - 1), g)
  <2>1. i - 1 \notin T
    BY <1>3, <1>6
  <2>2. QED
    BY <1>6, <2>1
<1> HIDE DEF T
<1> PICK y, z, r, k : y = x[i - 1] /\ z = x[i] /\ r = b.records[i] /\ k = f + i - 1
  OBVIOUS
<1> PICK A, B : A = Upto(f, c, i - 1) /\ B = Upto(f, c, i)
  OBVIOUS
<1>8. r.seq = k /\ k \in Nat
  BY <1>6 DEF Numbered
<1>9. A \in Nat /\ (k <= c => A = c /\ B = c) /\ (~(k <= c) => B = k /\ A + 1 = k)
  <2>1. i - 1 \in Nat
    BY <1>6
  <2>2. /\ Upto(f, c, i - 1) \in Nat
        /\ IF f + i - 1 <= c THEN Upto(f, c, i) = c /\ Upto(f, c, i - 1) = c
           ELSE Upto(f, c, i) = f + i - 1 /\ Upto(f, c, i - 1) + 1 = f + i - 1
    BY <1>0, <1>5, <1>6, <2>1, UptoFacts, ZenonT(40)
  <2>3. QED
    BY <2>2
<1>10. /\ Good(y, b) /\ r \in Rec
       /\ k <= c => z = y
       /\ ~(k <= c) => ~Skips(y, r) /\ z = Read(y, r)
  <2>1. /\ Good(y, b) /\ r \in Rec
        /\ r.seq <= c => z = y
        /\ ~(r.seq <= c) => ~Skips(y, r) /\ z = Read(y, r)
    BY <1>6, CourseStep
  <2>2. QED
    BY <1>8, <2>1
<1>11. CASE k <= c
  BY <1>4, <1>7, <1>9, <1>10, <1>11
<1>12. CASE ~(k <= c)
  <2>1. After(k, f, c)
    BY <1>6, <1>12 DEF After
  <2>2. \A s \in Sources : A + 1 \in H[s] => Denies(y, r, s, A + 1)
    <3> SUFFICES ASSUME NEW s \in Sources, k \in H[s] PROVE Denies(y, r, s, k)
      BY <1>9, <1>12
    <3>1. i \in 1 .. Len(b.records)
      BY <1>6
    <3>2. QED
      BY <2>1, <3>1
  <2>3. /\ Good(y, b) /\ r \in Rec /\ ~Skips(y, r) /\ z = Read(y, r) /\ A \in Nat /\ r.seq = A + 1
        /\ TracksOK(y, H, A, g)
    BY <1>7, <1>8, <1>9, <1>10, <1>12
  <2>4. TracksOK(z, H, A + 1, g)
    BY <2>2, <2>3, ReadTracks
  <2>5. QED
    BY <1>4, <1>9, <1>12, <2>4
<1>13. QED
  BY <1>11, <1>12

-----------------------------------------------------------------------------
(* The numbers a joined pair of points may not span *)

HolesOf(L, P, log) ==
  [s \in Sources |->
     L \cup {line.seq : line \in {l \in P : l.source = s /\ log[l.seq].says = "no position"}}]

(* Number n is one of them: lost, or a report of s that there is no position. *)
Hole(L, P, log, s, n) == \/ n \in L
                         \/ \E l \in P : l.seq = n /\ l.source = s /\ log[n].says = "no position"

LEMMA HolesFacts ==
  ASSUME NEW L \in SUBSET Numbers, NEW P \in SUBSET LinesTyped, NEW log, NEW H, H = HolesOf(L, P, log)
  PROVE  /\ H \in [Sources -> SUBSET Nat]
         /\ \A s \in Sources : \A n : n \in H[s] <=> Hole(L, P, log, s, n)
<1>1. ASSUME NEW s \in Sources, NEW n PROVE n \in H[s] <=> Hole(L, P, log, s, n)
  BY DEF HolesOf, Hole
<1>2. ASSUME NEW s \in Sources PROVE H[s] \in SUBSET Nat
  <2>1. Numbers \subseteq Nat
    BY BoundsAssumption DEF Numbers
  <2>2. \A l \in P : l.seq \in Nat
    BY <2>1 DEF LinesTyped
  <2>3. ASSUME NEW n \in H[s] PROVE n \in Nat
    <3>1. Hole(L, P, log, s, n)
      BY <1>1
    <3>2. QED
      BY <2>1, <2>2, <3>1 DEF Hole
  <2>4. H[s] \subseteq Nat
    BY <2>3
  <2>5. QED
    BY <2>4
<1>3. H = [s \in Sources |-> H[s]]
  BY DEF HolesOf
<1>4. H \in [Sources -> SUBSET Nat]
  BY <1>2, <1>3
<1>5. QED
  BY <1>1, <1>4

Holes == HolesOf(lost, printed, agent.log)

Segmented == \A s \in Sources : \A i \in 1 .. Len(model.track[s]) : model.track[s][i].segment <= model.segment
InLog     == \A s \in Sources : Drawn(model.track[s], since) => model.cursor <= Newest
Tracked   == /\ Segmented
             /\ model.session = agent.session => InLog /\ TracksOK(model, Holes, model.cursor, since)

LEMMA HolesIs ==
  ASSUME Core
  PROVE  /\ Holes \in [Sources -> SUBSET Nat]
         /\ \A s \in Sources : \A n : n \in Holes[s] <=> Hole(lost, printed, agent.log, s, n)
<1>1. lost \in SUBSET Numbers /\ printed \in SUBSET LinesTyped
  BY DEF Core, TypedOK
<1>2. QED
  BY <1>1, HolesFacts DEF Holes

LEMMA TrackEmpty ==
  ASSUME NEW seg, NEW u, NEW h, NEW B, NEW g
  PROVE  TrackOK(<<>>, seg, u, h, B, g)
BY DEF TrackOK, Open

(* What this poll prints of the record number k. *)
LEMMA NewLines ==
  ASSUME Core, NEW b, NEW f, NEW x, NEW c, Consumed(b, f, x, c), NEW line \in Printed(out')
  PROVE  \E i \in 1 .. Len(b.records) :
           /\ line \in RecordLines(x, b)[i] /\ line.seq = f + i - 1 /\ f + i - 1 \in 1 .. Newest
           /\ After(f + i - 1, f, c)
<1>1. PICK i \in 1 .. Len(b.records) : line \in RecordLines(x, b)[i]
  BY PrintedLines
<1>2. line.seq = f + i - 1 /\ f + i - 1 \in 1 .. Newest /\ After(f + i - 1, f, c)
  BY <1>1, ReadLines DEF Core
<1>3. QED
  BY <1>1, <1>2

(* A number of this poll's answer that is printed as no position, or lost, broke the *)
(* track, or was a cached position's.                                                *)
LEMMA PollDenies ==
  ASSUME Core, NEW b, NEW f, NEW x, NEW c, Consumed(b, f, x, c), NEW i \in 1 .. Len(b.records),
         NEW k, k = f + i - 1, After(k, f, c),
         NEW s \in Sources, Hole(lost', printed', agent.log, s, k)
  PROVE  Denies(x[i - 1], b.records[i], s, k)
<1>0. /\ AgentOK /\ ModelOK /\ SessionOK /\ HistoryOK /\ TypedOK
      /\ Answer(b, model.cursor, model.session, f) /\ c = Origin(model, b) /\ Course(b, x, c)
      /\ printed' = printed \cup Printed(out') /\ lost' = lost \cup Skipped(b)
  BY DEF Core, Consumed
<1>1. f \in Nat /\ Len(b.records) \in Nat /\ k \in Nat /\ b.records[i].seq = k /\ b.records[i] = agent.log[k]
  <2>1. f \in Nat /\ Len(b.records) \in Nat /\ b.records[i].seq = k /\ b.records[i] = agent.log[k]
    BY <1>0 DEF Answer, Numbered, Replies
  <2>2. k \in Nat
    BY <2>1
  <2>3. QED
    BY <2>1, <2>2
<1>2. /\ \A l \in printed : l.seq < k
      /\ \A n \in lost : n < k
      /\ \A n \in Skipped(b) : n < k
  BY <1>0, <1>1, NewRecords
<1>3. k \notin lost' /\ \A l \in printed : l.seq # k
  <2>1. ~(k < k)
    BY <1>1
  <2>2. QED
    BY <1>0, <1>2, <2>1
<1>4. PICK line \in Printed(out') : line.seq = k /\ line.source = s /\ agent.log[k].says = "no position"
  BY <1>0, <1>3 DEF Hole
<1>5. PICK j \in 1 .. Len(b.records) : line \in RecordLines(x, b)[j] /\ line.seq = f + j - 1
  BY NewLines
<1>6. j = i
  <2>1. f + j - 1 = f + i - 1
    BY <1>4, <1>5
  <2>2. QED
    BY <1>1, <2>1
<1> PICK y, z, r : y = x[i - 1] /\ z = x[i] /\ r = b.records[i]
  OBVIOUS
<1>7. ~Skips(y, r) /\ line \in PrintedFor(z, r)
  BY <1>5, <1>6 DEF RecordLines
<1>8. Good(y, b) /\ r \in Rec /\ z = Read(y, r)
  BY <1>0, <1>7, CourseStep
<1>9. (Reported(y, r) /\ r.source = line.source) \/ y.pos[line.source].seq = r.seq
  BY <1>7, <1>8, LineFacts
<1>10. QED
  BY <1>1, <1>4, <1>9 DEF Denies

(* What this poll adds to the numbers not to span is after the cursor. *)
LEMMA HolesKept ==
  ASSUME Core, NEW b, NEW f, NEW x, NEW c, Consumed(b, f, x, c), model.session = agent.session,
         (Continues(b) /\ c = model.cursor) \/ (f = Oldest /\ model.cursor < f),
         NEW s \in Sources, NEW n \in Nat, Hole(lost', printed', agent.log, s, n), n <= model.cursor
  PROVE  Hole(lost, printed, agent.log, s, n)
<1>0. /\ printed' = printed \cup Printed(out') /\ lost' = lost \cup Skipped(b)
      /\ AgentOK /\ ModelOK /\ Answer(b, model.cursor, model.session, f)
  BY DEF Core, Consumed
<1>1. model.cursor \in Nat /\ f \in Nat /\ Oldest \in Nat
  <2>1. Newest \in Nat /\ Oldest \in 1 .. (Newest + 1)
    BY <1>0, LogFacts
  <2>2. f \in 1 .. (Newest + 1)
    BY <1>0 DEF Answer
  <2>3. model.cursor \in 0 .. MaxRecords
    BY <1>0, ModelFacts DEF ModelOK
  <2>4. QED
    BY <2>1, <2>2, <2>3, BoundsAssumption
<1>2. n \notin Skipped(b)
  <2>1. n \notin (model.cursor + 1) .. (Oldest - 1)
    BY <1>1
  <2>2. QED
    BY <2>1 DEF Skipped
<1>3. ASSUME NEW line \in Printed(out') PROVE line.seq # n
  <2>1. PICK i \in 1 .. Len(b.records) : /\ line.seq = f + i - 1 /\ f + i - 1 \in 1 .. Newest
                                         /\ After(f + i - 1, f, c)
    BY NewLines
  <2> PICK k : k = f + i - 1
    OBVIOUS
  <2>2. k \in Nat /\ f <= k /\ ~(k <= c)
    BY <1>0, <2>1, LogFacts DEF After
  <2>3. k # n
    <3>1. CASE Continues(b) /\ c = model.cursor
      BY <2>2, <3>1
    <3>2. CASE f = Oldest /\ model.cursor < f
      BY <1>1, <2>2, <3>2
    <3>3. QED
      BY <3>1, <3>2
  <2>4. QED
    BY <2>1, <2>3
<1>4. CASE n \in lost'
  BY <1>0, <1>2, <1>4 DEF Hole
<1>5. CASE \E l \in printed' : l.seq = n /\ l.source = s /\ agent.log[n].says = "no position"
  BY <1>0, <1>3, <1>5 DEF Hole
<1>6. QED
  BY <1>4, <1>5 DEF Hole

(* The tracks of the model before the first record of the reply. *)
LEMMA FirstFields ==
  ASSUME NEW m \in Models, Bounded(m), Sound(m), NEW b \in Replies, NEW z, z = First(m, b), NEW s \in Sources
  PROVE  LET i == InSession(m, b)
         IN  /\ z.track[s] = i.track[s] /\ i \in Models /\ z.segment \in Nat
             /\ z.segment = IF b.gap THEN i.segment + 1 ELSE i.segment
             /\ ~b.gap => z.pos[s].seq = i.pos[s].seq
<1> PICK i, o : i = InSession(m, b) /\ o = Opened(m, b)
  OBVIOUS
<1>1. i \in Models /\ Bounded(i)
  BY InSessionFacts
<1>2. /\ o \in Models /\ o.now = b.now /\ o.track = i.track
      /\ o.segment = IF b.gap THEN i.segment + 1 ELSE i.segment
      /\ o.pos = IF b.gap THEN Invalidated(i.pos) ELSE i.pos
  BY <1>1, OpenedFacts
<1>3. Same(z, o) /\ z.pos = Current(o.pos, o.now)
  BY <1>2, FirstFacts
<1>4. z.track = o.track /\ z.segment = o.segment /\ o.segment \in Nat
  BY <1>2, <1>3, ModelFacts DEF Same
<1>5. z.pos[s].seq = o.pos[s].seq
  BY <1>2, <1>3, SettledAt
<1>6. QED
  BY <1>1, <1>2, <1>4, <1>5

LEMMA FirstTracks ==
  ASSUME Core, Tracked, NEW b, NEW f, NEW x, NEW c, Consumed(b, f, x, c),
         NEW H \in [Sources -> SUBSET Nat],
         \A s \in Sources : \A n : n \in H[s] <=> Hole(lost', printed', agent.log, s, n)
  PROVE  TracksOK(x[0], H, Upto(f, c, 0), since)
<1>0. /\ AgentOK /\ ModelOK /\ SessionOK /\ model \in Models /\ Bounded(model) /\ Sound(model)
      /\ Answer(b, model.cursor, model.session, f) /\ c = Origin(model, b) /\ x[0] = First(model, b)
      /\ b \in Replies /\ b.session = agent.session /\ f \in 1 .. (Newest + 1)
  BY DEF Core, ModelOK, Consumed, Answer
<1>1. /\ model.cursor \in Nat /\ model.segment \in Nat /\ f \in Nat \ {0} /\ Oldest \in Nat /\ Newest \in Nat
      /\ since \in Nat /\ c \in Nat
  <2>1. Newest \in Nat /\ Oldest \in 1 .. (Newest + 1)
    BY <1>0, LogFacts
  <2>2. f \in Nat \ {0} /\ Oldest \in Nat
    BY <1>0, <2>1
  <2>3. model.cursor \in 0 .. MaxRecords /\ model.segment \in Nat
    BY <1>0, ModelFacts
  <2>4. c \in 0 .. MaxRecords
    BY <1>0, FirstFacts
  <2>5. since \in Nat
    BY DEF Core, TypedOK
  <2>6. QED
    BY <2>1, <2>2, <2>3, <2>4, <2>5, BoundsAssumption
<1> SUFFICES ASSUME NEW s \in Sources
             PROVE  TrackOK(x[0].track[s], x[0].segment, x[0].pos[s].seq, H[s], Upto(f, c, 0), since)
  BY DEF TracksOK
<1> PICK z, t, u, h, g : /\ z = x[0] /\ t = model.track[s] /\ u = z.pos[s].seq /\ h = H[s] /\ g = since
  OBVIOUS
<1>2. LET i == InSession(model, b)
      IN  /\ z.track[s] = i.track[s] /\ z.segment \in Nat
          /\ z.segment = IF b.gap THEN i.segment + 1 ELSE i.segment
          /\ ~b.gap => z.pos[s].seq = i.pos[s].seq
  BY <1>0, FirstFields
<1>3. CASE model.session # agent.session
  <2>1. z.track[s] = <<>>
    <3>1. CASE model.session = 0
      <4>1. InSession(model, b) = model /\ model.track[s] = <<>>
        BY <1>0, <3>1 DEF InSession, SessionOK
      <4>2. QED
        BY <1>2, <4>1
    <3>2. CASE model.session # 0
      <4>1. InSession(model, b) = NewModel
        BY <1>0, <1>3, <3>2 DEF InSession
      <4>2. QED
        BY <1>2, <4>1, NewModelFacts
    <3>3. QED
      BY <3>1, <3>2
  <2>2. QED
    BY <2>1, TrackEmpty
<1>4. CASE model.session = agent.session
  <2>1. InSession(model, b) = model
    BY <1>0, <1>4, OriginFacts
  <2>2. /\ z.track[s] = t /\ z.segment = IF b.gap THEN model.segment + 1 ELSE model.segment
        /\ ~b.gap => u = model.pos[s].seq
    BY <1>2, <2>1
  <2>3. /\ t \in Seq(TrackPoint) /\ TrackOK(t, model.segment, model.pos[s].seq, Holes[s], model.cursor, g)
        /\ \A i \in 1 .. Len(t) : t[i].segment <= model.segment
        /\ Drawn(t, g) => model.cursor <= Newest
    BY <1>0, <1>4, ModelFacts DEF Tracked, TracksOK, Segmented, InLog
  <2>4. h \in SUBSET Nat /\ \A n : n \in h <=> Hole(lost', printed', agent.log, s, n)
    OBVIOUS
  <2>5. \A n : n \in Holes[s] <=> Hole(lost, printed, agent.log, s, n)
    BY HolesIs
  <2>6. ASSUME (Continues(b) /\ c = model.cursor) \/ (f = Oldest /\ model.cursor < f)
        PROVE  TrackOK(t, model.segment, model.pos[s].seq, h, model.cursor, g)
    <3>1. \A n \in h : n <= model.cursor => n \in Holes[s]
      <4> SUFFICES ASSUME NEW n \in h, n <= model.cursor PROVE n \in Holes[s]
        OBVIOUS
      <4>1. n \in Nat /\ Hole(lost', printed', agent.log, s, n)
        BY <2>4
      <4>2. Hole(lost, printed, agent.log, s, n)
        BY <1>4, <2>6, <4>1, HolesKept
      <4>3. QED
        BY <2>5, <4>2
    <3>2. QED
      BY <1>1, <2>3, <2>4, <3>1, TrackWidens
  <2>7. OriginIs(b, f, c)
    BY <1>0, OriginFacts
  <2>8. CASE Continues(b) /\ c = model.cursor /\ f <= c + 1
    <3>1. Upto(f, c, 0) = model.cursor
      BY <1>1, <2>8, UptoFacts
    <3>2. ~b.gap
      BY <2>8 DEF Continues
    <3>3. TrackOK(t, model.segment, model.pos[s].seq, h, model.cursor, g)
      BY <2>6, <2>8
    <3>4. QED
      BY <2>2, <3>1, <3>2, <3>3
  <2>9. CASE c = 0 /\ f = Oldest /\ Unknown(b, model.cursor)
    <3>1. b.gap /\ model.cursor \notin (Oldest - 1) .. Newest /\ Upto(f, c, 0) = f - 1
      BY <1>1, <2>9, UptoFacts DEF Unknown
    <3> PICK new \in Nat : new = model.segment + 1
      BY <1>1
    <3>2. z.segment = new /\ model.segment < new
      BY <1>1, <2>2, <3>1
    <3>3. CASE ~Drawn(t, g)
      <4>1. \A i \in 1 .. Len(t) : t[i].segment <= new
        <5> SUFFICES ASSUME NEW i \in 1 .. Len(t) PROVE t[i].segment <= new
          OBVIOUS
        <5> PICK k : k = t[i].segment
          OBVIOUS
        <5>1. k \in Nat /\ k <= model.segment
          BY <2>3, PointFacts
        <5>2. k <= new
          BY <1>1, <3>2, <5>1
        <5>3. QED
          BY <5>2
      <4>2. TrackOK(t, new, u, h, f - 1, g)
        BY <1>1, <2>3, <3>3, <4>1, TrackOld
      <4>3. QED
        BY <2>2, <3>1, <3>2, <4>2
    <3>4. CASE Drawn(t, g)
      <4>1. model.cursor <= f - 1 /\ model.cursor < f /\ f - 1 \in Nat
        BY <1>1, <2>3, <2>9, <3>1, <3>4
      <4>2. TrackOK(t, model.segment, model.pos[s].seq, h, model.cursor, g)
        BY <2>6, <2>9, <4>1
      <4>3. TrackOK(t, new, u, h, f - 1, g)
        BY <1>1, <2>3, <3>2, <4>1, <4>2, TrackBreaks
      <4>4. QED
        BY <2>2, <3>1, <3>2, <4>3
    <3>5. QED
      BY <3>3, <3>4
  <2>10. QED
    BY <1>4, <2>7, <2>8, <2>9 DEF OriginIs
<1>5. QED
  BY <1>3, <1>4

LEMMA PollTracked ==
  ASSUME Core, Core', Tracked, NEW b, NEW f, NEW x, NEW c, Consumed(b, f, x, c)
  PROVE  Tracked'
<1> PICK n, H : n = Len(b.records) /\ H = HolesOf(lost', printed', agent.log)
  OBVIOUS
<1>0. /\ AgentOK /\ ModelOK /\ SessionOK /\ Course(b, x, c) /\ Answer(b, model.cursor, model.session, f)
      /\ agent' = agent /\ since' = since /\ model'.cursor = b.cursor
      /\ model'.pos = x[n].pos /\ Same(model', x[n]) /\ model' \in Models
      /\ model.cursor \in Nat /\ since \in Nat
  BY ModelFacts, BoundsAssumption DEF Core, ModelOK, TypedOK, Consumed, Good
<1>1. /\ H \in [Sources -> SUBSET Nat] /\ Holes' = H
      /\ \A s \in Sources : \A k : k \in H[s] <=> Hole(lost', printed', agent.log, s, k)
  <2>1. lost' \in SUBSET Numbers /\ printed' \in SUBSET LinesTyped
    BY DEF Core, TypedOK, LinesTyped, Line
  <2>2. QED
    BY <1>0, <2>1, HolesFacts DEF Holes
<1>2. f \in Nat \ {0} /\ Numbered(b.records, f) /\ n \in Nat /\ c \in Nat /\ f + n - 1 = b.cursor
  <2>1. Newest \in Nat /\ f \in 1 .. (Newest + 1) /\ b.cursor \in (f - 1) .. Newest
        /\ Len(b.records) = b.cursor - f + 1 /\ Numbered(b.records, f)
    BY <1>0, LogFacts DEF Answer
  <2>2. f \in Nat \ {0} /\ b.cursor \in Nat /\ f - 1 <= b.cursor
    BY <2>1
  <2>3. n \in Nat /\ f + n - 1 = b.cursor
    BY <2>1, <2>2
  <2>4. c \in Nat
    BY <1>0, BoundsAssumption DEF Course
  <2>5. QED
    BY <2>1, <2>2, <2>3, <2>4
<1>3. TracksOK(x[0], H, Upto(f, c, 0), since)
  BY <1>1, FirstTracks
<1>4. ASSUME NEW i \in 1 .. n, NEW s \in Sources, After(f + i - 1, f, c), f + i - 1 \in H[s]
      PROVE  Denies(x[i - 1], b.records[i], s, f + i - 1)
  <2> PICK k : k = f + i - 1
    OBVIOUS
  <2>1. Hole(lost', printed', agent.log, s, k) /\ After(k, f, c) /\ i \in 1 .. Len(b.records)
    BY <1>1, <1>4
  <2>2. Denies(x[i - 1], b.records[i], s, k)
    BY <2>1, PollDenies
  <2>3. QED
    BY <2>2
<1>5. TracksOK(x[n], H, Upto(f, c, n), since)
  BY <1>0, <1>1, <1>2, <1>3, <1>4, CourseTracks
<1>6. Upto(f, c, n) = b.cursor
  <2>1. c <= b.cursor
    <3>1. c = Origin(model, b)
      BY DEF Consumed
    <3>2. OriginIs(b, f, c)
      BY <1>0, <3>1, OriginFacts
    <3>3. CASE c = 0
      BY <1>2, <3>3
    <3>4. CASE Known(b, model.cursor) /\ c = model.cursor
      BY <3>4 DEF Known
    <3>5. QED
      BY <3>2, <3>3, <3>4 DEF OriginIs, Continues
  <2>2. QED
    BY <1>2, <2>1 DEF Upto
<1>7. TracksOK(model', Holes', model'.cursor, since')
  <2>1. model'.track = x[n].track /\ model'.segment = x[n].segment
    BY <1>0 DEF Same
  <2>2. QED
    BY <1>0, <1>1, <1>5, <1>6, <2>1 DEF TracksOK
<1>8. Segmented'
  <2>1. \A s \in Sources : \A i \in 1 .. Len(model'.track[s]) : model'.track[s][i].segment <= model'.segment
    BY <1>7 DEF TracksOK, TrackOK, Placed
  <2>2. QED
    BY <2>1 DEF Segmented
<1>9. InLog'
  <2>1. b.cursor \in 0 .. Newest /\ Newest \in Nat
    BY PollBehind
  <2>2. model'.cursor <= Newest'
    BY <1>0, <2>1 DEF Newest
  <2>3. QED
    BY <2>2 DEF InLog
<1>10. QED
  BY <1>7, <1>8, <1>9 DEF Tracked

(* The Agent reads on, and the reader does not. *)
LEMMA GrowsTracked ==
  ASSUME Core, AgentOK', Tracked, Grows, \A n \in 1 .. Newest : agent'.log[n] = agent.log[n]
  PROVE  Tracked'
<1>0. /\ model' = model /\ printed' = printed /\ lost' = lost /\ since' = since
      /\ agent'.session = agent.session /\ Newest <= Newest'
  BY DEF Grows, Quiet, Unread
<1>1. Segmented'
  BY <1>0 DEF Tracked, Segmented
<1>2. SUFFICES ASSUME model.session = agent.session
               PROVE  InLog' /\ TracksOK(model, Holes', model.cursor, since)
  BY <1>0, <1>1 DEF Tracked
<1>3. /\ model.cursor \in Nat /\ Newest \in Nat /\ Newest' \in Nat /\ since \in Nat /\ model.segment \in Nat
      /\ \A s \in Sources : model.track[s] \in Seq(TrackPoint)
  <2>1. ModelOK /\ AgentOK /\ since \in Nat
    BY DEF Core, TypedOK
  <2>2. Newest \in Nat
    BY <2>1, LogFacts
  <2>3. Newest' \in Nat
    BY DEF AgentOK, Agents, Newest
  <2>4. QED
    BY <2>1, <2>2, <2>3, ModelFacts, BoundsAssumption DEF ModelOK
<1>4. InLog /\ TracksOK(model, Holes, model.cursor, since)
  BY <1>2 DEF Tracked
<1>5. InLog'
  <2>1. model.cursor <= Newest => model.cursor <= Newest'
    BY <1>0, <1>3
  <2>2. QED
    BY <1>0, <1>4, <2>1 DEF InLog
<1> PICK l, H : l = agent'.log /\ H = HolesOf(lost, printed, l)
  OBVIOUS
<1>6. Holes' = H
  BY <1>0 DEF Holes
<1>7. H \in [Sources -> SUBSET Nat] /\ \A s \in Sources : \A n : n \in H[s] <=> Hole(lost, printed, l, s, n)
  <2>1. lost \in SUBSET Numbers /\ printed \in SUBSET LinesTyped
    BY DEF Core, TypedOK
  <2>2. QED
    BY <2>1, HolesFacts
<1>8. ASSUME NEW s \in Sources, NEW n, Hole(lost, printed, l, s, n) PROVE Hole(lost, printed, agent.log, s, n)
  <2>1. CASE n \in lost
    BY <2>1 DEF Hole
  <2>2. CASE \E x \in printed : x.seq = n /\ x.source = s /\ l[n].says = "no position"
    <3>1. PICK x \in printed : x.seq = n /\ x.source = s /\ l[n].says = "no position"
      BY <2>2
    <3>2. n \in 1 .. Newest
      <4>1. n <= model.cursor /\ model.cursor <= Newest
        BY <3>1 DEF Core, HistoryOK
      <4>2. n \in Numbers
        BY <3>1 DEF Core, TypedOK, LinesTyped
      <4>3. QED
        BY <1>3, <4>1, <4>2, BoundsAssumption DEF Numbers
    <3>3. l[n] = agent.log[n]
      BY <3>2
    <3>4. QED
      BY <3>1, <3>3 DEF Hole
  <2>3. QED
    BY <1>8, <2>1, <2>2 DEF Hole
<1>9. ASSUME NEW s \in Sources
      PROVE  TrackOK(model.track[s], model.segment, model.pos[s].seq, H[s], model.cursor, since)
  <2>1. TrackOK(model.track[s], model.segment, model.pos[s].seq, Holes[s], model.cursor, since)
    BY <1>4 DEF TracksOK
  <2>2. \A n \in H[s] : n <= model.cursor => n \in Holes[s]
    BY <1>7, <1>8, HolesIs
  <2>3. H[s] \in SUBSET Nat
    BY <1>7
  <2>4. QED
    BY <1>3, <2>1, <2>2, <2>3, TrackWidens
<1>10. QED
  BY <1>5, <1>6, <1>9 DEF TracksOK

LEMMA RewindTracked ==
  ASSUME Core, Core', Tracked, Rewind
  PROVE  Tracked'
<1>1. /\ model' = model /\ agent'.session = agent.session
      /\ model.session = agent.session => since' = model.segment + 1
  BY DEF Rewind, NewLog, Unread, Core, AgentOK, Agents
<1>2. Segmented'
  BY <1>1 DEF Tracked, Segmented
<1>3. SUFFICES ASSUME model.session = agent.session
               PROVE  InLog' /\ TracksOK(model, Holes', model.cursor, since')
  BY <1>1, <1>2 DEF Tracked
<1>4. model.segment \in Nat /\ \A s \in Sources : model.track[s] \in Seq(TrackPoint)
  BY ModelFacts DEF Core, ModelOK
<1> PICK g, H, B : g = since' /\ H = Holes' /\ B = model.cursor
  OBVIOUS
<1>5. g = model.segment + 1 /\ g \in Nat
  BY <1>1, <1>3, <1>4
<1>6. ASSUME NEW s \in Sources
      PROVE  /\ ~Drawn(model.track[s], g)
             /\ TrackOK(model.track[s], model.segment, model.pos[s].seq, H[s], B, g)
  <2>1. \A i \in 1 .. Len(model.track[s]) : model.track[s][i].segment <= model.segment
    BY DEF Tracked, Segmented
  <2>2. ASSUME NEW i \in 1 .. Len(model.track[s]) PROVE ~(model.track[s][i].segment >= g)
    <3> PICK k : k = model.track[s][i].segment
      OBVIOUS
    <3>1. k \in Nat /\ k <= model.segment
      BY <1>4, <2>1, PointFacts
    <3>2. ~(k >= g)
      BY <1>4, <1>5, <3>1
    <3>3. QED
      BY <3>2
  <2>3. ~Drawn(model.track[s], g)
    BY <2>2 DEF Drawn
  <2>4. QED
    BY <1>4, <1>5, <2>1, <2>3, TrackOld
<1>7. InLog'
  BY <1>1, <1>6 DEF InLog
<1>8. QED
  BY <1>6, <1>7 DEF TracksOK

(* Nothing is drawn. *)
LEMMA EmptyTracked ==
  ASSUME \A s \in Sources : model.track[s] = <<>>
  PROVE  Tracked
<1>1. \A s \in Sources : \A i \in 1 .. Len(model.track[s]) : FALSE
  OBVIOUS
<1>2. Segmented
  BY <1>1 DEF Segmented
<1>3. InLog
  BY <1>1 DEF InLog, Drawn
<1>4. TracksOK(model, Holes, model.cursor, since)
  BY TrackEmpty DEF TracksOK
<1>5. QED
  BY <1>2, <1>3, <1>4 DEF Tracked

LEMMA EmptiedTracked ==
  ASSUME \A s \in Sources : model'.track[s] = <<>>
  PROVE  Tracked'
<1>1. \A s \in Sources : \A i \in 1 .. Len(model'.track[s]) : FALSE
  OBVIOUS
<1>2. Segmented'
  BY <1>1 DEF Segmented
<1>3. InLog'
  BY <1>1 DEF InLog, Drawn
<1>4. TracksOK(model', Holes', model'.cursor, since')
  BY TrackEmpty DEF TracksOK
<1>5. QED
  BY <1>2, <1>3, <1>4 DEF Tracked

LEMMA NextTracked ==
  ASSUME Core, Core', Tracked, [Next]_vars
  PROVE  Tracked'
<1>1. CASE Receive
  <2>1. agent'.log = Append(agent.log, agent'.log[Newest + 1]) /\ Newest' = Newest + 1
    BY <1>1, ReceiveCore
  <2>2. Quiet /\ agent'.session = agent.session
    BY <1>1 DEF Receive, Core, AgentOK, Agents
  <2>3. Newest \in Nat /\ agent.log \in Seq(Rec) /\ agent'.log \in Seq(Rec) /\ Newest' \in Nat
    BY LogFacts DEF Core, AgentOK, Agents, Newest
  <2> PICK r : r = agent'.log[Newest + 1]
    OBVIOUS
  <2>4. r \in Rec
    <3>1. Newest + 1 \in 1 .. Len(agent'.log)
      BY <2>1, <2>3 DEF Newest
    <3>2. QED
      BY <2>3, <3>1
  <2>5. \A n \in 1 .. Newest : agent'.log[n] = agent.log[n]
    BY <2>1, <2>3, <2>4 DEF Newest
  <2>6. Grows
    BY <2>1, <2>2, <2>3 DEF Grows
  <2>7. QED
    BY <2>5, <2>6, GrowsTracked DEF Core
<1>2. CASE Tick
  <2>1. Quiet /\ agent'.log = agent.log /\ agent'.session = agent.session
    BY <1>2 DEF Tick, Core, AgentOK, Agents
  <2>2. Newest \in Nat /\ Newest' = Newest
    BY <2>1, LogFacts DEF Core, Newest
  <2>3. Grows
    BY <2>1, <2>2 DEF Grows
  <2>4. QED
    BY <2>1, <2>3, GrowsTracked DEF Core
<1>3. CASE Restart
  <2>1. ~(agent'.session <= model.session) /\ model' = model
    BY <1>3, RestartCore DEF Restart, NewLog, Unread
  <2>2. agent'.session # model.session
    <3>1. model.session \in 0 .. MaxSessions
      BY ModelFacts DEF Core, ModelOK
    <3>2. model.session <= model.session
      BY <3>1, BoundsAssumption
    <3>3. QED
      BY <2>1, <3>2
  <2>3. Segmented'
    BY <2>1 DEF Tracked, Segmented
  <2>4. QED
    BY <2>1, <2>2, <2>3 DEF Tracked
<1>4. CASE Rewind
  BY <1>4, RewindTracked
<1>5. CASE Poll
  <2>1. \E b, f, x, c : Consumed(b, f, x, c)
    BY <1>5, PollIs DEF Core
  <2>2. QED
    BY <2>1, PollTracked
<1>6. CASE ClearTracks
  <2>1. \A s \in Sources : model'.track[s] = <<>>
    BY <1>6, ClearTracksCore
  <2>2. QED
    BY <2>1, EmptiedTracked
<1>7. CASE UNCHANGED vars
  <2>1. agent' = agent /\ model' = model /\ printed' = printed /\ lost' = lost /\ since' = since
    BY <1>7 DEF vars, history
  <2>2. Holes' = Holes /\ Newest' = Newest
    BY <2>1 DEF Holes, Newest
  <2>3. QED
    BY <2>1, <2>2 DEF Tracked, Segmented, InLog
<1>8. QED
  BY <1>1, <1>2, <1>3, <1>4, <1>5, <1>6, <1>7 DEF Next

(* What JoinedPointsContinuous says of two neighbours of the track of s. *)
Linked(p, q)    == model.session = agent.session /\ p.segment = q.segment /\ p.segment >= since
Apart(p, q, s)  == /\ p.seq < q.seq /\ q.ms - p.ms <= FreshAge
                   /\ ~\E n \in lost : p.seq < n /\ n < q.seq
                   /\ ~\E x \in printed : /\ p.seq < x.seq /\ x.seq < q.seq /\ x.source = s
                                          /\ agent.log[x.seq].says = "no position"

LEMMA TrackedJoins ==
  ASSUME Core, Tracked
  PROVE  JoinedPointsContinuous
<1>1. ASSUME NEW s \in Sources, NEW i \in 1 .. (Len(model.track[s]) - 1), NEW p, NEW q,
             p = model.track[s][i], q = model.track[s][i + 1], Linked(p, q)
      PROVE  Apart(p, q, s)
  <2>1. Joined(p, q, Holes[s], since)
    BY <1>1 DEF Tracked, TracksOK, TrackOK, Linked
  <2>2. p.seq < q.seq /\ q.ms - p.ms <= FreshAge /\ \A n \in Holes[s] : ~(p.seq < n /\ n < q.seq)
    BY <1>1, <2>1 DEF Joined, Linked
  <2>3. \A n : n \in Holes[s] <=> Hole(lost, printed, agent.log, s, n)
    BY HolesIs
  <2>4. \A n \in lost : n \in Holes[s]
    BY <2>3 DEF Hole
  <2>5. \A x \in printed : x.source = s /\ agent.log[x.seq].says = "no position" => x.seq \in Holes[s]
    BY <2>3 DEF Hole
  <2>6. QED
    BY <2>2, <2>4, <2>5 DEF Apart
<1>2. ASSUME NEW s \in Sources, NEW i \in 1 .. (Len(model.track[s]) - 1)
      PROVE  Linked(model.track[s][i], model.track[s][i + 1])
               => Apart(model.track[s][i], model.track[s][i + 1], s)
  BY <1>1, Zenon
<1>3. QED
  BY <1>2 DEF JoinedPointsContinuous, Linked, Apart

(* Two points a track draws joined, of the log the Agent now keeps, are close in  *)
(* time, and no record between them was lost or reported that there is none.      *)
THEOREM JoinedHolds == Spec => []JoinedPointsContinuous
<1>1. Init => Core /\ Tracked
  <2>1. Init => \A s \in Sources : model.track[s] = <<>>
    BY NewModelFacts DEF Init
  <2>2. QED
    BY <2>1, InitCore, EmptyTracked
<1>2. Core /\ Tracked /\ [Next]_vars => (Core /\ Tracked)'
  BY NextCore, NextTracked
<1>3. Core /\ Tracked => JoinedPointsContinuous
  BY TrackedJoins
<1>4. QED
  BY <1>1, <1>2, <1>3, PTL DEF Spec

=============================================================================
