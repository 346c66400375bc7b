------------------------ MODULE GnssSatellitesProofs ------------------------
(***************************************************************************)
(* GnssSatellites for any sentences, ages and number of cycles kept.  What *)
(* is kept for a key is said by the history of its parts: the cycle in     *)
(* progress is the run of parts the history ends with (Working), and the   *)
(* complete one is the last run in it that is whole (Holding).             *)
(***************************************************************************)
EXTENDS GnssSatellites, FiniteSetTheorems, SequenceTheorems, WellFoundedInduction, TLAPS

Keys  == {s.key : s \in GsvSentences}
Heard == {Cut} \cup [part : GsvSentences, ms : Nat]
Cycle == [total : Nat, next : Nat, count : Nat, ms : Nat, sats : Seq(Views)]

(* The p-th entry of a history follows in a cycle that begins with the i-th. *)
Follows(h, i, p) ==
  /\ h[p] # Cut /\ h[p].part.part = p - i + 1
  /\ h[p].part.total = h[i].part.total /\ h[p].part.count = h[i].part.count
  /\ h[p].ms - h[i].ms <= CycleAge

(* Entries i to n are the first parts of a cycle. *)
Run(h, i, n) == h[i] # Cut /\ \A p \in i .. n : Follows(h, i, p)

(* The satellites that entries i to n name. *)
Joined(h, i, n) == FlattenSeq([j \in 1 .. (n - i + 1) |-> h[i + j - 1].part.sats])

(* A cycle is of the size and time of the entry it began with. *)
Began(c, x) == c.total = x.part.total /\ c.count = x.part.count /\ c.ms = x.ms

(* The cycle in progress for a key is the run its history ends with. *)
Working(k, cy, h) ==
  /\ k \in DOMAIN cy =>
       \E i \in 1 .. Len(h) :
         /\ Run(h, i, Len(h)) /\ Began(cy[k], h[i]) /\ cy[k].next = Len(h) - i + 2
         /\ cy[k].sats = Joined(h, i, Len(h))
  /\ \A i \in 1 .. Len(h) :
       Run(h, i, Len(h)) /\ Len(h) - i + 1 < h[i].part.total => k \in DOMAIN cy

(* The complete cycle that is kept is the last one in the history. *)
Holding(k, co, h, gone) ==
  /\ k \in DOMAIN co =>
       \E i \in 1 .. Len(h) :
         /\ CycleAt(h, i) /\ \A j \in 1 .. Len(h) : CycleAt(h, j) => j <= i
         /\ co[k].ms = h[i].ms /\ co[k].sats = Joined(h, i, i + h[i].part.total - 1)
  /\ ~gone /\ (\E i \in 1 .. Len(h) : CycleAt(h, i)) => k \in DOMAIN co

(* No more satellites than the parts so far have room to name. *)
Filled(c) == Len(c.sats) <= IF 4 * (c.next - 1) < c.count THEN 4 * (c.next - 1) ELSE c.count

Pending(f) ==
  /\ IsFiniteSet(DOMAIN f) /\ DOMAIN f \subseteq Keys
  /\ \A k \in DOMAIN f : f[k] \in Cycle /\ Filled(f[k]) /\ f[k].next \in 2 .. f[k].total

Whole(f) ==
  /\ IsFiniteSet(DOMAIN f) /\ DOMAIN f \subseteq Keys
  /\ \A k \in DOMAIN f : Len(f[k].sats) <= f[k].count

Capped(f) == Cardinality(DOMAIN f) <= CycleCap

SatTypes ==
  /\ clock \in 0 .. MaxClock /\ given \in 0 .. MaxSentences /\ overflow \in BOOLEAN
  /\ heard \in [Keys -> Seq(Heard)]
  /\ Pending(cycles) /\ Capped(cycles) /\ Whole(complete) /\ Capped(complete)

(* Entries are parts whose numbers add up, in the order of their times. *)
Timely(h, now) ==
  \A p \in 1 .. Len(h) : h[p] # Cut =>
    /\ Consistent(h[p].part) /\ h[p].ms <= now
    /\ \A q \in 1 .. p : h[q] # Cut => h[q].ms <= h[p].ms

SatInv ==
  /\ SatTypes
  /\ \A k \in Keys : /\ Timely(heard[k], clock)
                     /\ Working(k, cycles, heard[k])
                     /\ Holding(k, complete, heard[k], overflow)

-----------------------------------------------------------------------------
(* Flattening a sequence of sequences *)

Step(s, f, i)    == IF i = 1 THEN s[i] ELSE f[i - 1] \o s[i]
IsFlat(s, n, f)  == f = [i \in 1 .. n |-> Step(s, f, i)]
Alike(s, t, m)   == \A i \in 1 .. m : s[i] = t[i]

LEMMA LeastNumber ==
  ASSUME NEW T \in SUBSET Nat, T # {}
  PROVE  \E n \in T : \A m \in T : n <= m
<1>1. PICK n \in T : \A m \in T : <<m, n>> \notin OpToRel(<, Nat)
  BY NatLessThanWellFounded, WFMin
<1>2. \A m \in T : ~(m < n)
  BY <1>1 DEF OpToRel
<1>3. QED
  BY <1>2

(* The recursive definition has a solution of every length. *)
LEMMA FlatExists ==
  ASSUME NEW s, NEW n \in Nat
  PROVE  \E f : IsFlat(s, n, f)
<1> DEFINE T == {m \in Nat : ~\E f : IsFlat(s, m, f)}
<1>1. SUFFICES ASSUME T # {} PROVE FALSE
  OBVIOUS
<1>2. PICK m \in T : \A l \in T : m <= l
  BY <1>1, LeastNumber
<1>3. CASE m = 0
  <2>1. [i \in 1 .. 0 |-> 0] = [i \in 1 .. 0 |-> Step(s, [x \in 1 .. 0 |-> 0], i)]
    OBVIOUS
  <2>2. IsFlat(s, 0, [i \in 1 .. 0 |-> 0])
    BY <2>1 DEF IsFlat
  <2>3. QED
    BY <1>3, <2>2
<1>4. CASE m # 0
  <2>1. m \in Nat /\ m - 1 \in Nat /\ ~(m <= m - 1)
    BY <1>4
  <2>2. PICK g : IsFlat(s, m - 1, g)
    BY <1>2, <2>1
  <2> DEFINE f == [i \in 1 .. m |-> IF i = m THEN Step(s, g, m) ELSE g[i]]
  <2>3. \A i \in 1 .. (m - 1) : g[i] = Step(s, g, i)
    BY <2>2 DEF IsFlat
  <2>4. \A i \in 1 .. m : f[i] = Step(s, f, i)
    <3> SUFFICES ASSUME NEW i \in 1 .. m PROVE f[i] = Step(s, f, i)
      OBVIOUS
    <3>1. i # 1 => i - 1 \in 1 .. m /\ i - 1 # m
      BY <2>1
    <3>2. i # 1 => f[i - 1] = g[i - 1]
      BY <3>1
    <3>3. Step(s, f, i) = Step(s, g, i)
      BY <3>2 DEF Step
    <3>4. f[i] = Step(s, g, i)
      <4>1. CASE i = m
        BY <4>1
      <4>2. CASE i # m
        <5>1. i \in 1 .. (m - 1)
          BY <2>1, <4>2
        <5>2. QED
          BY <2>3, <4>2, <5>1
      <4>3. QED
        BY <4>1, <4>2
    <3>5. QED
      BY <3>3, <3>4
  <2>5. DOMAIN f = 1 .. m /\ f = [i \in 1 .. m |-> f[i]]
    OBVIOUS
  <2> HIDE DEF f
  <2>6. f = [i \in 1 .. m |-> Step(s, f, i)]
    BY <2>4, <2>5
  <2>7. QED
    BY <2>6 DEF IsFlat
<1>5. QED
  BY <1>3, <1>4

(* Two solutions for sequences with the same beginning are equal on it. *)
LEMMA FlatUnique ==
  ASSUME NEW s, NEW t, NEW n \in Nat, NEW m \in Nat, m <= n,
         Alike(s, t, m), NEW f, NEW g, IsFlat(s, n, f), IsFlat(t, m, g)
  PROVE  Alike(f, g, m)
<1> USE DEF Alike
<1> DEFINE T == {i \in 1 .. m : f[i] # g[i]}
<1>1. SUFFICES ASSUME T # {} PROVE FALSE
  OBVIOUS
<1>2. T \in SUBSET Nat
  OBVIOUS
<1>3. PICK i \in T : \A l \in T : i <= l
  BY <1>1, <1>2, LeastNumber
<1>4. i \in 1 .. m /\ i \in 1 .. n /\ f[i] # g[i]
  OBVIOUS
<1>5. i # 1 => f[i - 1] = g[i - 1]
  <2> SUFFICES ASSUME i # 1 PROVE f[i - 1] = g[i - 1]
    OBVIOUS
  <2>1. i - 1 \in 1 .. m /\ ~(i <= i - 1)
    BY <1>4
  <2>2. QED
    BY <1>3, <2>1
<1>6. f[i] = Step(s, f, i) /\ g[i] = Step(t, g, i)
  BY <1>4 DEF IsFlat
<1>7. QED
  BY <1>4, <1>5, <1>6 DEF Step

LEMMA FlatIs ==
  ASSUME NEW s, Len(s) \in Nat \ {0}
  PROVE  \E f : IsFlat(s, Len(s), f) /\ FlattenSeq(s) = f[Len(s)]
<1> DEFINE f == CHOOSE x : IsFlat(s, Len(s), x)
<1>1. IsFlat(s, Len(s), f)
  BY FlatExists
<1>2. FlattenSeq(s) = f[Len(s)]
  BY DEF FlattenSeq, IsFlat, Step
<1>3. QED
  BY <1>1, <1>2

(* Of one sequence, and of one more than another. *)
LEMMA FlattenOne ==
  ASSUME NEW s, Len(s) = 1
  PROVE  FlattenSeq(s) = s[1]
<1>0. Len(s) \in Nat \ {0}
  OBVIOUS
<1>1. PICK f : IsFlat(s, Len(s), f) /\ FlattenSeq(s) = f[Len(s)]
  BY <1>0, FlatIs
<1>2. f[1] = Step(s, f, 1)
  BY <1>1 DEF IsFlat
<1>3. QED
  BY <1>1, <1>2 DEF Step

LEMMA FlattenMore ==
  ASSUME NEW s, NEW t, NEW m \in Nat \ {0}, NEW n \in Nat, n = m + 1, Len(s) = n, Len(t) = m,
         Alike(s, t, m)
  PROVE  FlattenSeq(s) = FlattenSeq(t) \o s[n]
<1>1. PICK f : IsFlat(s, n, f) /\ FlattenSeq(s) = f[n]
  BY FlatIs
<1>2. PICK g : IsFlat(t, m, g) /\ FlattenSeq(t) = g[m]
  BY FlatIs
<1>3. Alike(f, g, m)
  <2>1. n \in Nat /\ m \in Nat /\ m <= n
    OBVIOUS
  <2>2. IsFlat(s, n, f) /\ IsFlat(t, m, g)
    BY <1>1, <1>2
  <2>3. QED
    BY <2>1, <2>2, FlatUnique
<1>4. f[m] = g[m]
  BY <1>3 DEF Alike
<1>5. n \in 1 .. n /\ n # 1 /\ n - 1 = m
  OBVIOUS
<1>6. f[n] = Step(s, f, n)
  BY <1>1, <1>5 DEF IsFlat
<1>7. f[n] = f[m] \o s[n]
  BY <1>5, <1>6 DEF Step
<1>8. QED
  BY <1>1, <1>2, <1>4, <1>7

-----------------------------------------------------------------------------
(* Histories *)

LEMMA NotCut == \A s, t : [part |-> s, ms |-> t] # Cut
<1> SUFFICES ASSUME NEW s, NEW t, [part |-> s, ms |-> t] = Cut PROVE FALSE
  OBVIOUS
<1>1. "cut" \in DOMAIN Cut /\ "cut" \notin DOMAIN [part |-> s, ms |-> t]
  BY DEF Cut
<1>2. QED
  BY <1>1

LEMMA Entries ==
  ASSUME NEW x \in Heard, x # Cut
  PROVE  /\ x.part \in GsvSentences /\ x.ms \in Nat
         /\ x.part.total \in Nat \ {0} /\ x.part.part \in 1 .. x.part.total
         /\ x.part.count \in Nat /\ x.part.sats \in Seq(Views)
  BY SentencesAssumption DEF Heard

(* A history with one entry more. *)
Added(g, h, e, n) ==
  /\ h \in Seq(Heard) /\ g \in Seq(Heard) /\ e \in Heard /\ n \in Nat
  /\ Len(h) = n /\ Len(g) = n + 1
  /\ \A p \in 1 .. n : g[p] = h[p]
  /\ g[n + 1] = e

LEMMA Appended ==
  ASSUME NEW h \in Seq(Heard), NEW e \in Heard
  PROVE  Added(Append(h, e), h, e, Len(h))
<1>1. Len(h) \in Nat /\ Append(h, e) \in Seq(Heard) /\ Len(Append(h, e)) = Len(h) + 1
  OBVIOUS
<1>2. \A p \in 1 .. Len(h) : Append(h, e)[p] = h[p]
  OBVIOUS
<1>3. Append(h, e)[Len(h) + 1] = e
  OBVIOUS
<1>4. QED
  BY <1>1, <1>2, <1>3 DEF Added

LEMMA RunKept ==
  ASSUME NEW g, NEW h, NEW e, NEW n \in Nat, Added(g, h, e, n), NEW i \in 1 .. n, NEW m \in i .. n
  PROVE  Run(g, i, m) <=> Run(h, i, m)
<1>1. \A p \in i .. m : p \in 1 .. n
  OBVIOUS
<1>2. g[i] = h[i] /\ \A p \in i .. m : g[p] = h[p]
  BY <1>1 DEF Added
<1>3. QED
  BY <1>2 DEF Run, Follows

LEMMA RunMore ==
  ASSUME NEW g, NEW h, NEW e, NEW n \in Nat, Added(g, h, e, n), NEW i \in 1 .. n
  PROVE  Run(g, i, n + 1) <=> Run(h, i, n) /\ Follows(g, i, n + 1)
<1>1. Run(g, i, n) <=> Run(h, i, n)
  <2>1. n \in i .. n
    OBVIOUS
  <2>2. QED
    BY <2>1, RunKept
<1>2. Run(g, i, n + 1) <=> Run(g, i, n) /\ Follows(g, i, n + 1)
  <2>1. i .. (n + 1) = (i .. n) \cup {n + 1}
    OBVIOUS
  <2>2. QED
    BY <2>1 DEF Run
<1>3. QED
  BY <1>1, <1>2

(* A cycle is a run of as many parts as it says. *)
LEMMA CycleIsRun ==
  ASSUME NEW h \in Seq(Heard), NEW i \in 1 .. Len(h)
  PROVE  CycleAt(h, i) <=> /\ h[i] # Cut /\ i + h[i].part.total - 1 <= Len(h)
                           /\ Run(h, i, i + h[i].part.total - 1)
<1>1. CASE h[i] = Cut
  BY <1>1 DEF CycleAt
<1>2. CASE h[i] # Cut
  <2>1. PICK t \in Nat \ {0} : t = h[i].part.total
    <3>1. h[i] \in Heard
      OBVIOUS
    <3>2. QED
      BY <1>2, <3>1, Entries
  <2> DEFINE A(j) == /\ h[i + j - 1] # Cut /\ h[i + j - 1].part.part = j
                     /\ h[i + j - 1].part.total = h[i].part.total
                     /\ h[i + j - 1].part.count = h[i].part.count
                     /\ h[i + j - 1].ms - h[i].ms <= CycleAge
  <2>2. CycleAt(h, i) <=> i + t - 1 <= Len(h) /\ \A j \in 1 .. t : A(j)
    BY <1>2, <2>1 DEF CycleAt
  <2>3. ASSUME NEW j \in 1 .. t
        PROVE  i + j - 1 \in i .. (i + t - 1) /\ (A(j) <=> Follows(h, i, i + j - 1))
    <3>1. PICK p \in Nat : p = i + j - 1 /\ p \in i .. (i + t - 1) /\ p - i + 1 = j
      OBVIOUS
    <3>2. QED
      BY <3>1 DEF Follows
  <2> HIDE DEF A
  <2>4. (\A j \in 1 .. t : A(j)) <=> \A p \in i .. (i + t - 1) : Follows(h, i, p)
    <3>1. ASSUME \A j \in 1 .. t : A(j), NEW p \in i .. (i + t - 1) PROVE Follows(h, i, p)
      <4>1. PICK j \in 1 .. t : j = p - i + 1
        OBVIOUS
      <4>2. i + j - 1 = p
        BY <4>1
      <4>3. QED
        BY <2>3, <3>1, <4>2
    <3>2. ASSUME \A p \in i .. (i + t - 1) : Follows(h, i, p), NEW j \in 1 .. t PROVE A(j)
      BY <2>3, <3>2
    <3>3. QED
      BY <3>1, <3>2
  <2>5. QED
    BY <1>2, <2>1, <2>2, <2>4 DEF Run
<1>3. QED
  BY <1>1, <1>2

(* The satellites of a run, part by part. *)
Named(h, i, m) == \A p \in i .. m : h[p].part.sats \in Seq(Views)

LEMMA RunNames ==
  ASSUME NEW h \in Seq(Heard), NEW i \in 1 .. Len(h), NEW m \in i .. Len(h), Run(h, i, m)
  PROVE  Named(h, i, m)
<1> SUFFICES ASSUME NEW p \in i .. m PROVE h[p].part.sats \in Seq(Views)
  BY DEF Named
<1>1. p \in 1 .. Len(h) /\ h[p] # Cut
  BY DEF Run, Follows
<1>2. h[p] \in Heard
  BY <1>1
<1>3. QED
  BY <1>1, <1>2, Entries

LEMMA JoinedKept ==
  ASSUME NEW g, NEW h, NEW e, NEW n \in Nat, Added(g, h, e, n), NEW i \in 1 .. n, NEW m \in i .. n
  PROVE  Joined(g, i, m) = Joined(h, i, m)
<1>1. \A j \in 1 .. (m - i + 1) : g[i + j - 1] = h[i + j - 1]
  <2> SUFFICES ASSUME NEW j \in 1 .. (m - i + 1) PROVE g[i + j - 1] = h[i + j - 1]
    OBVIOUS
  <2>1. PICK p \in 1 .. n : p = i + j - 1
    OBVIOUS
  <2>2. g[p] = h[p]
    BY DEF Added
  <2>3. QED
    BY <2>1, <2>2
<1>2. [j \in 1 .. (m - i + 1) |-> g[i + j - 1].part.sats]
        = [j \in 1 .. (m - i + 1) |-> h[i + j - 1].part.sats]
  BY <1>1
<1>3. QED
  BY <1>2 DEF Joined

LEMMA PartsSequence ==
  ASSUME NEW h, NEW i \in Nat, NEW m \in Nat, i <= m, Named(h, i, m)
  PROVE  LET s == [j \in 1 .. (m - i + 1) |-> h[i + j - 1].part.sats]
         IN  s \in Seq(Seq(Views)) /\ Len(s) = m - i + 1
<1> DEFINE s == [j \in 1 .. (m - i + 1) |-> h[i + j - 1].part.sats]
<1>1. ASSUME NEW j \in 1 .. (m - i + 1) PROVE h[i + j - 1].part.sats \in Seq(Views)
  <2>1. PICK p \in i .. m : p = i + j - 1
    OBVIOUS
  <2>2. h[p].part.sats \in Seq(Views)
    BY DEF Named
  <2>3. QED
    BY <2>1, <2>2
<1>2. s \in [1 .. (m - i + 1) -> Seq(Views)]
  BY <1>1
<1>3. m - i + 1 \in Nat
  OBVIOUS
<1> HIDE DEF s
<1>4. s \in Seq(Seq(Views)) /\ Len(s) = m - i + 1
  BY <1>2, <1>3
<1>5. QED
  BY <1>4 DEF s

LEMMA JoinedOne ==
  ASSUME NEW h, NEW i \in Nat, Named(h, i, i)
  PROVE  Joined(h, i, i) = h[i].part.sats
<1> DEFINE s == [j \in 1 .. (i - i + 1) |-> h[i + j - 1].part.sats]
<1>1. Len(s) = 1
  BY PartsSequence
<1>2. s[1] = h[i].part.sats
  OBVIOUS
<1> HIDE DEF s
<1>3. FlattenSeq(s) = h[i].part.sats
  BY <1>1, <1>2, FlattenOne
<1>4. QED
  BY <1>3 DEF Joined, s

LEMMA JoinedMore ==
  ASSUME NEW h, NEW i \in Nat, NEW m \in Nat, i <= m, Named(h, i, m + 1)
  PROVE  Joined(h, i, m + 1) = Joined(h, i, m) \o h[m + 1].part.sats
<1> DEFINE s == [j \in 1 .. (m + 1 - i + 1) |-> h[i + j - 1].part.sats]
           t == [j \in 1 .. (m - i + 1) |-> h[i + j - 1].part.sats]
<1>1. PICK l \in Nat \ {0}, n \in Nat : l = m - i + 1 /\ n = m + 1 - i + 1 /\ n = l + 1
  OBVIOUS
<1>2. Named(h, i, m)
  BY DEF Named
<1>3. Len(s) = n /\ Len(t) = l
  <2>1. m + 1 \in Nat /\ i <= m + 1
    OBVIOUS
  <2>2. QED
    BY <1>1, <1>2, <2>1, PartsSequence
<1>4. Alike(s, t, l)
  <2>1. \A j \in 1 .. l : j \in 1 .. (m + 1 - i + 1) /\ j \in 1 .. (m - i + 1)
    BY <1>1
  <2>2. QED
    BY <2>1 DEF Alike
<1>5. s[n] = h[m + 1].part.sats
  <2>1. n \in 1 .. (m + 1 - i + 1) /\ i + n - 1 = m + 1
    BY <1>1
  <2>2. QED
    BY <2>1
<1>6. Joined(h, i, m + 1) = FlattenSeq(s) /\ Joined(h, i, m) = FlattenSeq(t)
  BY DEF Joined
<1> HIDE DEF s, t
<1>7. FlattenSeq(s) = FlattenSeq(t) \o s[n]
  BY <1>1, <1>3, <1>4, FlattenMore
<1>8. QED
  BY <1>5, <1>6, <1>7

(* With an entry more, a history has the cycles it had, and perhaps one that ends *)
(* with the entry.                                                                     *)
LEMMA CycleKept ==
  ASSUME NEW g, NEW h, NEW e, NEW n \in Nat, Added(g, h, e, n), NEW i \in 1 .. n, CycleAt(h, i)
  PROVE  /\ CycleAt(g, i) /\ g[i] = h[i]
         /\ Joined(g, i, i + g[i].part.total - 1) = Joined(h, i, i + h[i].part.total - 1)
<1>1. h \in Seq(Heard) /\ g \in Seq(Heard) /\ Len(h) = n /\ Len(g) = n + 1 /\ g[i] = h[i]
  BY DEF Added
<1>2. h[i] # Cut /\ i + h[i].part.total - 1 <= n /\ Run(h, i, i + h[i].part.total - 1)
  BY <1>1, CycleIsRun
<1>3. PICK m \in i .. n : m = i + h[i].part.total - 1
  <2>1. h[i] \in Heard
    BY <1>1
  <2>2. h[i].part.total \in Nat \ {0}
    BY <1>2, <2>1, Entries
  <2>3. QED
    BY <1>2, <2>2
<1>4. Run(g, i, m)
  BY <1>2, <1>3, RunKept
<1>5. CycleAt(g, i)
  <2>1. i \in 1 .. Len(g) /\ m <= Len(g)
    BY <1>1, <1>3
  <2>2. QED
    BY <1>1, <1>2, <1>3, <1>4, <2>1, CycleIsRun
<1>6. Joined(g, i, m) = Joined(h, i, m)
  BY JoinedKept
<1>7. QED
  BY <1>1, <1>3, <1>5, <1>6

LEMMA CycleNew ==
  ASSUME NEW g, NEW h, NEW e, NEW n \in Nat, Added(g, h, e, n), NEW i \in 1 .. (n + 1),
         CycleAt(g, i), ~(i \in 1 .. n /\ CycleAt(h, i))
  PROVE  Run(g, i, n + 1) /\ g[i] # Cut /\ i + g[i].part.total - 1 = n + 1
<1>1. h \in Seq(Heard) /\ g \in Seq(Heard) /\ Len(h) = n /\ Len(g) = n + 1
  BY DEF Added
<1>2. g[i] # Cut /\ i + g[i].part.total - 1 <= n + 1 /\ Run(g, i, i + g[i].part.total - 1)
  BY <1>1, CycleIsRun
<1>3. PICK m \in i .. (n + 1) : m = i + g[i].part.total - 1
  <2>1. g[i] \in Heard
    BY <1>1
  <2>2. g[i].part.total \in Nat \ {0}
    BY <1>2, <2>1, Entries
  <2>3. QED
    BY <1>2, <2>2
<1>4. ASSUME m <= n PROVE FALSE
  <2>1. i \in 1 .. n /\ m \in i .. n
    BY <1>3, <1>4
  <2>2. g[i] = h[i]
    BY <2>1 DEF Added
  <2>3. Run(h, i, m)
    BY <1>2, <1>3, <2>1, RunKept
  <2>4. CycleAt(h, i)
    BY <1>1, <1>2, <1>3, <1>4, <2>1, <2>2, <2>3, CycleIsRun
  <2>5. QED
    BY <2>1, <2>4
<1>5. m = n + 1
  BY <1>3, <1>4
<1>6. QED
  BY <1>2, <1>3, <1>5

(* An entry that no run ends with changes nothing of what is complete. *)
Dead(g, n) == \A i \in 1 .. (n + 1) : ~Run(g, i, n + 1)

LEMMA DeadCut ==
  ASSUME NEW g, NEW h, NEW n \in Nat, Added(g, h, Cut, n)
  PROVE  Dead(g, n)
  BY DEF Dead, Run, Follows, Added

LEMMA NoneHolds ==
  ASSUME NEW g, NEW h, NEW e, NEW n \in Nat, Added(g, h, e, n),
         \A i \in 1 .. (n + 1) : CycleAt(g, i) => i \in 1 .. n /\ CycleAt(h, i),
         NEW k, NEW co, NEW gone, Holding(k, co, h, gone)
  PROVE  Holding(k, co, g, gone)
<1>1. Len(h) = n /\ Len(g) = n + 1
  BY DEF Added
<1>2. \A i \in 1 .. n : CycleAt(h, i) =>
        /\ CycleAt(g, i) /\ g[i] = h[i] /\ i \in 1 .. (n + 1)
        /\ Joined(g, i, i + g[i].part.total - 1) = Joined(h, i, i + h[i].part.total - 1)
  BY CycleKept
<1>3. \A i \in 1 .. (n + 1) : CycleAt(g, i) => i \in 1 .. n /\ CycleAt(h, i)
  OBVIOUS
<1>4. ASSUME k \in DOMAIN co
      PROVE  \E i \in 1 .. Len(g) :
               /\ CycleAt(g, i) /\ \A j \in 1 .. Len(g) : CycleAt(g, j) => j <= i
               /\ co[k].ms = g[i].ms /\ co[k].sats = Joined(g, i, i + g[i].part.total - 1)
  <2>1. PICK i \in 1 .. n :
          /\ CycleAt(h, i) /\ \A j \in 1 .. n : CycleAt(h, j) => j <= i
          /\ co[k].ms = h[i].ms /\ co[k].sats = Joined(h, i, i + h[i].part.total - 1)
    BY <1>1, <1>4 DEF Holding
  <2>2. QED
    BY <1>1, <1>2, <1>3, <2>1
<1>5. ~gone /\ (\E i \in 1 .. Len(g) : CycleAt(g, i)) => k \in DOMAIN co
  BY <1>1, <1>3 DEF Holding
<1>6. QED
  BY <1>4, <1>5 DEF Holding

LEMMA DeadHolds ==
  ASSUME NEW g, NEW h, NEW e, NEW n \in Nat, Added(g, h, e, n), Dead(g, n),
         NEW k, NEW co, NEW gone, Holding(k, co, h, gone)
  PROVE  Holding(k, co, g, gone)
<1>1. \A i \in 1 .. (n + 1) : CycleAt(g, i) => i \in 1 .. n /\ CycleAt(h, i)
  BY CycleNew DEF Dead
<1>2. QED
  BY <1>1, NoneHolds

LEMMA DeadWorks ==
  ASSUME NEW g, NEW h, NEW e, NEW n \in Nat, Added(g, h, e, n), Dead(g, n),
         NEW k, NEW cy, k \notin DOMAIN cy
  PROVE  Working(k, cy, g)
<1>1. Len(g) = n + 1
  BY DEF Added
<1>2. QED
  BY <1>1 DEF Working, Dead

-----------------------------------------------------------------------------
(* A sentence, and the run its key's history ends with *)

(* The history of its key with the sentence added. *)
Hearing(s, g, h, n) ==
  s.key \in Keys /\ h = heard[s.key] /\ Added(g, h, [part |-> s, ms |-> clock], n)

LEMMA Known ==
  ASSUME SatInv, NEW s \in GsvSentences, NEW e \in Heard
  PROVE  LET h == heard[s.key] IN
         /\ s.key \in Keys /\ h \in Seq(Heard) /\ Len(h) \in Nat
         /\ Added(Append(h, e), h, e, Len(h))
<1>1. s.key \in Keys
  BY DEF Keys
<1>2. heard[s.key] \in Seq(Heard)
  BY <1>1 DEF SatInv, SatTypes
<1>3. QED
  BY <1>1, <1>2, Appended

(* Everything known of the sentence's key. *)
LEMMA OfKey ==
  ASSUME SatInv, NEW s \in GsvSentences, NEW g, NEW h, NEW n \in Nat, Hearing(s, g, h, n)
  PROVE  /\ clock \in Nat /\ CycleAge \in Nat
         /\ s.total \in Nat \ {0} /\ s.part \in 1 .. s.total /\ s.count \in Nat
         /\ s.sats \in Seq(Views)
         /\ h \in Seq(Heard) /\ g \in Seq(Heard) /\ Len(h) = n /\ Len(g) = n + 1
         /\ g[n + 1] # Cut /\ g[n + 1].part = s /\ g[n + 1].ms = clock
         /\ \A p \in 1 .. n : g[p] = h[p]
         /\ Timely(h, clock) /\ Working(s.key, cycles, h) /\ Holding(s.key, complete, h, overflow)
<1>1. s.total \in Nat \ {0} /\ s.part \in 1 .. s.total /\ s.count \in Nat /\ s.sats \in Seq(Views)
  BY SentencesAssumption
<1>2. h \in Seq(Heard) /\ g \in Seq(Heard) /\ Len(h) = n /\ Len(g) = n + 1
        /\ g[n + 1] = [part |-> s, ms |-> clock] /\ \A p \in 1 .. n : g[p] = h[p]
  BY DEF Hearing, Added
<1>3. clock \in Nat /\ CycleAge \in Nat
  BY CapsAssumption DEF SatInv, SatTypes
<1>4. Timely(h, clock) /\ Working(s.key, cycles, h) /\ Holding(s.key, complete, h, overflow)
  BY DEF SatInv, Hearing
<1>5. QED
  BY <1>1, <1>2, <1>3, <1>4, NotCut

(* What With and Without leave alone. *)
LEMMA WithIs ==
  \A f, k, v : /\ DOMAIN With(f, k, v) = DOMAIN f \cup {k} /\ With(f, k, v)[k] = v
               /\ \A x \in DOMAIN f : x # k => With(f, k, v)[x] = f[x]
  BY DEF With

LEMMA WithoutIs ==
  \A f, k : /\ DOMAIN Without(f, k) = DOMAIN f \ {k}
            /\ \A x \in DOMAIN f : x # k => Without(f, k)[x] = f[x]
  BY DEF Without

LEMMA BeforeIs ==
  ASSUME NEW s
  PROVE  /\ s.part = 1 => LET c == Before(s)[s.key] IN
                          /\ DOMAIN Before(s) = DOMAIN cycles \cup {s.key}
                          /\ c = [total |-> s.total, next |-> 1, count |-> s.count, ms |-> clock, sats |-> <<>>]
                          /\ c.total = s.total /\ c.next = 1 /\ c.count = s.count /\ c.ms = clock
                          /\ c.sats = <<>>
         /\ s.part # 1 => Before(s) = cycles
         /\ \A x \in DOMAIN cycles : x # s.key => x \in DOMAIN Before(s) /\ Before(s)[x] = cycles[x]
<1> DEFINE v == [total |-> s.total, next |-> 1, count |-> s.count, ms |-> clock, sats |-> <<>>]
<1>1. v.total = s.total /\ v.next = 1 /\ v.count = s.count /\ v.ms = clock /\ v.sats = <<>>
  OBVIOUS
<1>2. Before(s) = IF s.part = 1 THEN With(cycles, s.key, v) ELSE cycles
  BY DEF Before
<1>3. v = [total |-> s.total, next |-> 1, count |-> s.count, ms |-> clock, sats |-> <<>>]
  OBVIOUS
<1> HIDE DEF v
<1>4. With(cycles, s.key, v)[s.key] = v /\ DOMAIN With(cycles, s.key, v) = DOMAIN cycles \cup {s.key}
        /\ \A x \in DOMAIN cycles : x # s.key => With(cycles, s.key, v)[x] = cycles[x]
  BY DEF With
<1>5. CASE s.part = 1
  <2>1. Before(s) = With(cycles, s.key, v)
    BY <1>2, <1>5
  <2>2. Before(s)[s.key] = v
    BY <1>4, <2>1
  <2>3. QED
    BY <1>1, <1>3, <1>4, <1>5, <2>1, <2>2
<1>6. CASE s.part # 1
  BY <1>2, <1>6
<1>7. QED
  BY <1>5, <1>6

(* A run that goes on with the sentence is the cycle in progress, which it continues. *)
LEMMA RunContinues ==
  ASSUME SatInv, NEW s \in GsvSentences, NEW g, NEW h, NEW n \in Nat, Hearing(s, g, h, n),
         NEW i \in 1 .. (n + 1), Run(g, i, n + 1)
  PROVE  s.key \in DOMAIN Before(s) /\ Continues(Before(s)[s.key], s)
<1>1. /\ clock \in Nat /\ CycleAge \in Nat
      /\ s.total \in Nat \ {0} /\ s.part \in 1 .. s.total /\ s.count \in Nat
      /\ h \in Seq(Heard) /\ g \in Seq(Heard) /\ Len(h) = n /\ Len(g) = n + 1
      /\ g[n + 1].part = s /\ g[n + 1].ms = clock
      /\ \A p \in 1 .. n : g[p] = h[p]
  BY OfKey
<1>2. Follows(g, i, n + 1)
  BY DEF Run
<1>3. CASE i = n + 1
  <2>1. s.part = 1
    BY <1>1, <1>2, <1>3 DEF Follows
  <2>2. Recent(clock, clock, CycleAge)
    BY <1>1 DEF Recent
  <2>3. QED
    BY <2>1, <2>2, BeforeIs DEF Continues
<1>4. CASE i # n + 1
  <2>1. i \in 1 .. n /\ i \in 1 .. Len(h) /\ n \in i .. n
    BY <1>1, <1>4
  <2>2. Run(h, i, n)
    BY <1>2, <2>1, RunMore DEF Hearing
  <2>3. s.part = n - i + 2 /\ s.total = h[i].part.total /\ s.count = h[i].part.count
          /\ clock - h[i].ms <= CycleAge
    BY <1>1, <1>2, <2>1 DEF Follows
  <2>4. s.part # 1 /\ n - i + 1 < h[i].part.total
    BY <1>1, <2>1, <2>3
  <2>5. s.key \in DOMAIN cycles
    BY <1>1, <2>1, <2>2, <2>4, OfKey DEF Working
  <2>6. PICK j \in 1 .. n : Run(h, j, n) /\ Began(cycles[s.key], h[j]) /\ cycles[s.key].next = n - j + 2
    BY <1>1, <2>5, OfKey DEF Working
  <2>7. j = i
    <3>1. h[n].part.part = n - i + 1
      BY <2>1, <2>2 DEF Run, Follows
    <3>2. h[n].part.part = n - j + 1
      BY <2>6 DEF Run, Follows
    <3>3. QED
      BY <3>1, <3>2
  <2>8. h[i].ms \in Nat /\ h[i].ms <= clock
    <3>1. h[i] \in Heard /\ h[i] # Cut
      BY <1>1, <2>1, <2>2 DEF Run
    <3>2. QED
      BY <3>1, <2>1, Entries, OfKey DEF Timely
  <2>9. Recent(clock, h[i].ms, CycleAge)
    BY <2>3, <2>8 DEF Recent
  <2>10. Continues(cycles[s.key], s)
    BY <2>3, <2>6, <2>7, <2>9 DEF Continues, Began
  <2>11. QED
    BY <2>4, <2>5, <2>10, BeforeIs
<1>5. QED
  BY <1>3, <1>4

(* A sentence that continues the cycle in progress makes it one part longer. *)
LEMMA Extended ==
  ASSUME SatInv, NEW s \in GsvSentences, NEW g, NEW h, NEW n \in Nat, Hearing(s, g, h, n),
         s.key \in DOMAIN Before(s), Continues(Before(s)[s.key], s)
  PROVE  \E i \in 1 .. (n + 1) :
           /\ Run(g, i, n + 1) /\ s.part = n + 2 - i /\ Began(Before(s)[s.key], g[i])
           /\ Before(s)[s.key].sats \o s.sats = Joined(g, i, n + 1)
<1>1. /\ clock \in Nat /\ CycleAge \in Nat
      /\ s.total \in Nat \ {0} /\ s.part \in 1 .. s.total /\ s.count \in Nat
      /\ s.sats \in Seq(Views)
      /\ h \in Seq(Heard) /\ g \in Seq(Heard) /\ Len(h) = n /\ Len(g) = n + 1
      /\ g[n + 1] # Cut /\ g[n + 1].part = s /\ g[n + 1].ms = clock
      /\ \A p \in 1 .. n : g[p] = h[p]
  BY OfKey
<1>2. CASE s.part = 1
  <2>1. PICK i \in 1 .. (n + 1) : i = n + 1
    OBVIOUS
  <2>2. Follows(g, i, i)
    BY <1>1, <1>2, <2>1 DEF Follows
  <2>3. Run(g, i, i)
    BY <1>1, <2>1, <2>2 DEF Run
  <2>4. Began(Before(s)[s.key], g[i])
    BY <1>1, <1>2, <2>1, BeforeIs DEF Began
  <2>5. Joined(g, i, i) = s.sats
    <3>1. Named(g, i, i)
      BY <1>1, <2>1 DEF Named
    <3>2. QED
      BY <1>1, <2>1, <3>1, JoinedOne
  <2>6. Before(s)[s.key].sats \o s.sats = s.sats
    <3>1. Before(s)[s.key].sats = <<>>
      BY <1>2, BeforeIs
    <3>2. <<>> \o s.sats = s.sats
      BY <1>1
    <3>3. QED
      BY <3>1, <3>2
  <2>7. s.part = n + 2 - i
    BY <1>2, <2>1
  <2>8. QED
    BY <2>1, <2>3, <2>4, <2>5, <2>6, <2>7
<1>3. CASE s.part # 1
  <2>1. Before(s) = cycles /\ s.key \in DOMAIN cycles
    BY <1>3, BeforeIs
  <2>2. PICK i \in 1 .. n :
          /\ Run(h, i, n) /\ Began(cycles[s.key], h[i]) /\ cycles[s.key].next = n - i + 2
          /\ cycles[s.key].sats = Joined(h, i, n)
    <3>1. Working(s.key, cycles, h) /\ Len(h) = n
      BY OfKey
    <3>2. s.key \in DOMAIN cycles
      BY <2>1
    <3>3. QED
      BY <3>1, <3>2 DEF Working
  <2>3. /\ cycles[s.key].next = s.part /\ cycles[s.key].total = s.total /\ cycles[s.key].count = s.count
        /\ clock - cycles[s.key].ms <= CycleAge
    BY <2>1 DEF Continues, Recent
  <2>4. g[i] = h[i] /\ i \in 1 .. (n + 1) /\ n \in i .. n /\ n + 1 \in i .. (n + 1)
    BY <1>1
  <2>5. Follows(g, i, n + 1)
    <3>1. s.part = (n + 1) - i + 1
      BY <2>2, <2>3
    <3>2. s.total = g[i].part.total /\ s.count = g[i].part.count /\ clock - g[i].ms <= CycleAge
      BY <2>2, <2>3, <2>4 DEF Began
    <3>3. QED
      BY <1>1, <3>1, <3>2 DEF Follows
  <2>6. Run(g, i, n + 1)
    BY <2>2, <2>5, RunMore DEF Hearing
  <2>7. Joined(g, i, n + 1) = Joined(g, i, n) \o s.sats
    <3>1. Named(g, i, n + 1)
      BY <1>1, <2>4, <2>6, RunNames
    <3>2. i \in Nat /\ i <= n
      OBVIOUS
    <3>3. Joined(g, i, n + 1) = Joined(g, i, n) \o g[n + 1].part.sats
      BY <3>1, <3>2, JoinedMore
    <3>4. QED
      BY <1>1, <3>3
  <2>8. Joined(g, i, n) = Joined(h, i, n)
    BY <2>4, JoinedKept DEF Hearing
  <2>9. s.part = n + 2 - i
    BY <2>2, <2>3
  <2>10. QED
    BY <2>1, <2>2, <2>4, <2>6, <2>7, <2>8, <2>9
<1>4. QED
  BY <1>2, <1>3

-----------------------------------------------------------------------------
(* The cycle in progress with the sentence added *)

Grown(s, c) ==
  /\ s.key \in DOMAIN Before(s) /\ Continues(Before(s)[s.key], s) /\ Consistent(s)
  /\ c = [Before(s)[s.key] EXCEPT !.next = @ + 1, !.sats = @ \o s.sats]

LEMMA BeforeCycle ==
  ASSUME SatInv, NEW s \in GsvSentences, s.key \in DOMAIN Before(s), Continues(Before(s)[s.key], s)
  PROVE  LET b == Before(s)[s.key] IN
         /\ b \in Cycle /\ b.next = s.part /\ b.total = s.total /\ b.count = s.count /\ Filled(b)
<1>1. /\ s.total \in Nat \ {0} /\ s.part \in 1 .. s.total /\ s.count \in Nat /\ clock \in Nat
  BY SentencesAssumption DEF SatInv, SatTypes
<1>2. /\ Before(s)[s.key].next = s.part /\ Before(s)[s.key].total = s.total
      /\ Before(s)[s.key].count = s.count
  BY DEF Continues
<1>3. CASE s.part = 1
  <2> DEFINE v == [total |-> s.total, next |-> 1, count |-> s.count, ms |-> clock, sats |-> <<>>]
  <2>1. <<>> \in Seq(Views) /\ 1 \in Nat /\ s.total \in Nat
    BY <1>1
  <2>2. v \in Cycle
    BY <1>1, <2>1 DEF Cycle
  <2>3. v.sats = <<>> /\ v.next = 1 /\ v.count = s.count
    OBVIOUS
  <2>4. Len(<<>>) = 0
    OBVIOUS
  <2> HIDE DEF v
  <2>5. Filled(v)
    BY <1>1, <2>3, <2>4 DEF Filled
  <2>6. Before(s)[s.key] = v
    BY <1>3, BeforeIs DEF v
  <2>7. QED
    BY <1>2, <2>2, <2>5, <2>6
<1>4. CASE s.part # 1
  <2>1. Before(s) = cycles
    BY <1>4, BeforeIs
  <2>2. cycles[s.key] \in Cycle /\ Filled(cycles[s.key])
    BY <2>1 DEF SatInv, SatTypes, Pending
  <2>3. QED
    BY <1>2, <2>1, <2>2
<1>5. QED
  BY <1>3, <1>4

LEMMA GrownIs ==
  ASSUME SatInv, NEW s \in GsvSentences, NEW c, Grown(s, c)
  PROVE  /\ c \in Cycle /\ c.total = s.total /\ c.count = s.count /\ c.next = s.part + 1
         /\ c.ms = Before(s)[s.key].ms /\ c.sats = Before(s)[s.key].sats \o s.sats
         /\ Filled(c) /\ c.next \in 2 .. (c.total + 1)
         /\ c.next > c.total => Len(c.sats) <= c.count
<1>1. PICK b : b = Before(s)[s.key]
  OBVIOUS
<1>2. b \in Cycle /\ b.next = s.part /\ b.total = s.total /\ b.count = s.count /\ Filled(b)
  BY <1>1, BeforeCycle DEF Grown
<1>3. s.total \in Nat \ {0} /\ s.part \in 1 .. s.total /\ s.count \in Nat /\ s.sats \in Seq(Views)
      /\ s.groups \in Nat /\ Len(s.sats) <= s.groups
  BY SentencesAssumption
<1>4. c = [b EXCEPT !.next = b.next + 1, !.sats = b.sats \o s.sats]
  BY <1>1 DEF Grown
<1>5. b.next \in Nat /\ b.sats \in Seq(Views) /\ b.total \in Nat /\ b.count \in Nat /\ b.ms \in Nat
  BY <1>2 DEF Cycle
<1>6. PICK q : q = b.sats \o s.sats
  OBVIOUS
<1>7. q \in Seq(Views) /\ Len(q) = Len(b.sats) + Len(s.sats)
  <2>1. b.sats \o s.sats \in Seq(Views) /\ Len(b.sats \o s.sats) = Len(b.sats) + Len(s.sats)
    BY <1>3, <1>5
  <2>2. QED
    BY <1>6, <2>1
<1>8. c \in Cycle /\ c.next = b.next + 1 /\ c.sats = q /\ c.total = b.total /\ c.count = b.count /\ c.ms = b.ms
  <2>1. c = [b EXCEPT !.next = b.next + 1, !.sats = q]
    BY <1>4, <1>6
  <2>2. b.next + 1 \in Nat
    BY <1>5
  <2>3. QED
    BY <1>2, <1>7, <2>1, <2>2 DEF Cycle
<1>9. PICK l \in Nat, m \in Nat : l = Len(b.sats) /\ m = Len(s.sats)
  BY <1>3, <1>5
<1>10. l <= IF 4 * (s.part - 1) < s.count THEN 4 * (s.part - 1) ELSE s.count
  BY <1>2, <1>9 DEF Filled
<1>11. m <= IF s.count - 4 * (s.part - 1) < 0 THEN 0
            ELSE IF s.count - 4 * (s.part - 1) > 4 THEN 4 ELSE s.count - 4 * (s.part - 1)
  BY <1>3, <1>9 DEF Grown, Consistent
<1>12. l + m <= IF 4 * s.part < s.count THEN 4 * s.part ELSE s.count
  BY <1>3, <1>10, <1>11
<1>13. Len(c.sats) = l + m
  BY <1>7, <1>8, <1>9
<1>14. Filled(c)
  <2>1. c.next - 1 = s.part /\ c.count = s.count
    BY <1>2, <1>3, <1>8
  <2>2. QED
    BY <1>12, <1>13, <2>1 DEF Filled
<1>15. ASSUME c.next > c.total PROVE Len(c.sats) <= c.count
  <2>1. s.part = s.total
    BY <1>2, <1>3, <1>8, <1>15
  <2>2. s.total = IF s.count = 0 THEN 1 ELSE (s.count + 3) \div 4
    BY DEF Grown, Consistent
  <2>3. s.count <= 4 * s.total
    BY <1>3, <2>2
  <2>4. QED
    BY <1>2, <1>3, <1>8, <1>12, <1>13, <2>1, <2>3
<1>16. c.total = s.total /\ c.count = s.count /\ c.next = s.part + 1
  BY <1>2, <1>8
<1>17. c.next \in 2 .. (c.total + 1)
  BY <1>3, <1>16
<1>18. c.ms = Before(s)[s.key].ms /\ c.sats = Before(s)[s.key].sats \o s.sats
  BY <1>1, <1>6, <1>8
<1>19. c \in Cycle
  BY <1>8
<1>20. QED
  BY <1>14, <1>15, <1>16, <1>17, <1>18, <1>19

LEMMA GrownRun ==
  ASSUME SatInv, NEW s \in GsvSentences, NEW c, Grown(s, c),
         NEW g, NEW h, NEW n \in Nat, Hearing(s, g, h, n)
  PROVE  /\ g \in Seq(Heard) /\ Len(g) = n + 1
         /\ \E i \in 1 .. (n + 1) :
              /\ Run(g, i, n + 1) /\ Began(c, g[i]) /\ s.part = n + 2 - i
              /\ c.next = (n + 1) - i + 2 /\ c.sats = Joined(g, i, n + 1)
         /\ \A j \in 1 .. (n + 1) : Run(g, j, n + 1) => /\ s.part = n + 2 - j
                                                        /\ s.total = g[j].part.total
<1>1. PICK i \in 1 .. (n + 1) :
        /\ Run(g, i, n + 1) /\ s.part = n + 2 - i /\ Began(Before(s)[s.key], g[i])
        /\ Before(s)[s.key].sats \o s.sats = Joined(g, i, n + 1)
  BY Extended DEF Grown
<1>2. g[n + 1].part = s /\ g \in Seq(Heard) /\ Len(g) = n + 1
  BY OfKey
<1>3. ASSUME NEW j \in 1 .. (n + 1), Run(g, j, n + 1)
      PROVE  s.part = n + 2 - j /\ s.total = g[j].part.total
  <2>1. Follows(g, j, n + 1)
    BY <1>3 DEF Run
  <2>2. s.part = (n + 1) - j + 1 /\ s.total = g[j].part.total
    BY <1>2, <2>1 DEF Follows
  <2>3. QED
    BY <2>2
<1>4. Began(c, g[i]) /\ c.sats = Joined(g, i, n + 1) /\ c.next = (n + 1) - i + 2
  <2>1. Before(s)[s.key].total = s.total /\ Before(s)[s.key].count = s.count
    BY BeforeCycle DEF Grown
  <2>2. /\ c.total = s.total /\ c.count = s.count /\ c.next = s.part + 1
        /\ c.ms = Before(s)[s.key].ms /\ c.sats = Before(s)[s.key].sats \o s.sats
    BY GrownIs
  <2>3. Began(c, g[i]) /\ c.sats = Joined(g, i, n + 1)
    BY <1>1, <2>1, <2>2 DEF Began
  <2>4. c.next = (n + 1) - i + 2
    BY <1>1, <2>2
  <2>5. QED
    BY <2>3, <2>4
<1>5. QED
  BY <1>1, <1>2, <1>3, <1>4

(* A part that is not the last. *)
LEMMA PartHeard ==
  ASSUME SatInv, NEW s \in GsvSentences, NEW c, Grown(s, c), ~(c.next > c.total),
         NEW g, NEW h, NEW n \in Nat, Hearing(s, g, h, n),
         NEW now, s.key \in DOMAIN now, now[s.key] = c
  PROVE  Working(s.key, now, g) /\ Holding(s.key, complete, g, overflow)
<1>1. s.part < s.total
  <2>1. c.total = s.total /\ c.next = s.part + 1
    BY GrownIs
  <2>2. s.total \in Nat /\ s.part \in 1 .. s.total
    BY SentencesAssumption
  <2>3. QED
    BY <2>1, <2>2
<1>2. Len(g) = n + 1
  BY GrownRun
<1>3. Working(s.key, now, g)
  <2>1. PICK i \in 1 .. (n + 1) :
          /\ Run(g, i, n + 1) /\ Began(c, g[i])
          /\ c.next = (n + 1) - i + 2 /\ c.sats = Joined(g, i, n + 1)
    BY GrownRun
  <2>2. QED
    BY <1>2, <2>1 DEF Working
<1>4. Holding(s.key, complete, g, overflow)
  <2>1. ASSUME NEW j \in 1 .. (n + 1), CycleAt(g, j) PROVE j \in 1 .. n /\ CycleAt(h, j)
    <3>1. SUFFICES ASSUME ~(j \in 1 .. n /\ CycleAt(h, j)) PROVE FALSE
      OBVIOUS
    <3>2. Run(g, j, n + 1) /\ j + g[j].part.total - 1 = n + 1
      BY <2>1, <3>1, CycleNew DEF Hearing
    <3>3. s.part = n + 2 - j /\ s.total = g[j].part.total
      BY <3>2, GrownRun
    <3>4. s.total \in Nat
      BY SentencesAssumption
    <3>5. QED
      BY <1>1, <3>2, <3>3, <3>4
  <2>2. Holding(s.key, complete, h, overflow)
    BY OfKey
  <2>3. QED
    BY <2>1, <2>2, NoneHolds DEF Hearing
<1>5. QED
  BY <1>3, <1>4

(* The last part. *)
LEMMA WholeHeard ==
  ASSUME SatInv, NEW s \in GsvSentences, NEW c, Grown(s, c), c.next > c.total,
         NEW g, NEW h, NEW n \in Nat, Hearing(s, g, h, n),
         NEW now, s.key \notin DOMAIN now, NEW done, s.key \in DOMAIN done, done[s.key] = c
  PROVE  Working(s.key, now, g) /\ Holding(s.key, done, g, overflow)
<1>1. s.part = s.total /\ s.total \in Nat \ {0}
  <2>1. c.total = s.total /\ c.next = s.part + 1
    BY GrownIs
  <2>2. s.total \in Nat \ {0} /\ s.part \in 1 .. s.total
    BY SentencesAssumption
  <2>3. QED
    BY <2>1, <2>2
<1>2. Len(g) = n + 1 /\ g \in Seq(Heard)
  BY GrownRun
<1>3. PICK i \in 1 .. (n + 1) :
        /\ Run(g, i, n + 1) /\ Began(c, g[i]) /\ s.part = n + 2 - i
        /\ c.sats = Joined(g, i, n + 1)
  BY GrownRun
<1>4. s.total = g[i].part.total /\ g[i] # Cut
  <2>1. s.total = g[i].part.total
    BY <1>3, GrownRun
  <2>2. QED
    BY <1>3, <2>1 DEF Run
<1>5. i + g[i].part.total - 1 = n + 1
  <2>1. i + s.total - 1 = n + 1
    BY <1>1, <1>3
  <2>2. QED
    BY <1>4, <2>1
<1>6. CycleAt(g, i)
  BY <1>2, <1>3, <1>4, <1>5, CycleIsRun
<1>7. ASSUME NEW j \in 1 .. (n + 1), CycleAt(g, j) PROVE j <= i
  <2>1. SUFFICES ASSUME j > i PROVE FALSE
    OBVIOUS
  <2>2. g[j] # Cut /\ Run(g, j, j + g[j].part.total - 1)
    BY <1>2, <1>7, CycleIsRun
  <2>3. g[j] \in Heard
    BY <1>2
  <2>4. j \in j .. (j + g[j].part.total - 1)
    BY <2>2, <2>3, Entries
  <2>5. g[j].part.part = 1
    <3>1. Follows(g, j, j)
      BY <2>2, <2>4 DEF Run
    <3>2. QED
      BY <3>1 DEF Follows
  <2>6. g[j].part.part = j - i + 1
    <3>1. j \in i .. (n + 1)
      BY <2>1
    <3>2. QED
      BY <1>3, <3>1 DEF Run, Follows
  <2>7. QED
    BY <2>1, <2>5, <2>6
<1>8. Holding(s.key, done, g, overflow)
  BY <1>2, <1>3, <1>5, <1>6, <1>7 DEF Holding, Began
<1>9. Working(s.key, now, g)
  <2>1. ASSUME NEW j \in 1 .. (n + 1), Run(g, j, n + 1) PROVE ~((n + 1) - j + 1 < g[j].part.total)
    <3>1. s.part = n + 2 - j /\ s.total = g[j].part.total
      BY <2>1, GrownRun
    <3>2. ~((n + 1) - j + 1 < s.total)
      BY <1>1, <3>1
    <3>3. QED
      BY <3>1, <3>2
  <2>2. QED
    BY <1>2, <2>1 DEF Working
<1>10. QED
  BY <1>8, <1>9

-----------------------------------------------------------------------------
(* What a step does to each key *)

Sound(k, cy, co, h, gone, now) ==
  Timely(h, now) /\ Working(k, cy, h) /\ Holding(k, co, h, gone)

(* Two maps with the same cycle for a key, or none. *)
Same(f, g, k) == (k \in DOMAIN f <=> k \in DOMAIN g) /\ (k \in DOMAIN f => f[k] = g[k])

LEMMA SameSound ==
  ASSUME NEW k, NEW cy, NEW co, NEW h, NEW gone, NEW now, Sound(k, cy, co, h, gone, now),
         NEW cy1, Same(cy1, cy, k), NEW co1, Same(co1, co, k)
  PROVE  Sound(k, cy1, co1, h, gone, now)
<1>1. Working(k, cy1, h)
  BY DEF Sound, Working, Same
<1>2. Holding(k, co1, h, gone)
  BY DEF Sound, Holding, Same
<1>3. QED
  BY <1>1, <1>2 DEF Sound

LEMMA TimelyMore ==
  ASSUME NEW g, NEW h, NEW e, NEW n \in Nat, Added(g, h, e, n), NEW now \in Nat, Timely(h, now),
         e # Cut => Consistent(e.part) /\ e.ms = now
  PROVE  Timely(g, now)
<1>1. Len(h) = n /\ Len(g) = n + 1 /\ g[n + 1] = e /\ \A p \in 1 .. n : g[p] = h[p]
  BY DEF Added
<1>2. \A p \in 1 .. n : g[p] # Cut =>
        /\ Consistent(g[p].part) /\ g[p].ms <= now
        /\ \A q \in 1 .. p : g[q] # Cut => g[q].ms <= g[p].ms
  <2> SUFFICES ASSUME NEW p \in 1 .. n, g[p] # Cut
               PROVE  /\ Consistent(g[p].part) /\ g[p].ms <= now
                      /\ \A q \in 1 .. p : g[q] # Cut => g[q].ms <= g[p].ms
    OBVIOUS
  <2>1. g[p] = h[p] /\ p \in 1 .. Len(h)
    BY <1>1
  <2>2. \A q \in 1 .. p : g[q] = h[q]
    BY <1>1
  <2>3. QED
    BY <2>1, <2>2 DEF Timely
<1>3. e # Cut => \A q \in 1 .. (n + 1) : g[q] # Cut => g[q].ms <= e.ms
  <2> SUFFICES ASSUME e # Cut, NEW q \in 1 .. (n + 1), g[q] # Cut PROVE g[q].ms <= e.ms
    OBVIOUS
  <2>1. CASE q = n + 1
    BY <1>1, <2>1
  <2>2. CASE q # n + 1
    <3>1. q \in 1 .. n
      BY <2>2
    <3>2. QED
      BY <1>2, <3>1
  <2>3. QED
    BY <2>1, <2>2
<1>4. ASSUME NEW p \in 1 .. (n + 1), g[p] # Cut
      PROVE  /\ Consistent(g[p].part) /\ g[p].ms <= now
             /\ \A q \in 1 .. p : g[q] # Cut => g[q].ms <= g[p].ms
  <2>1. CASE p = n + 1
    BY <1>1, <1>3, <1>4, <2>1
  <2>2. CASE p # n + 1
    <3>1. p \in 1 .. n
      BY <2>2
    <3>2. QED
      BY <1>2, <1>4, <3>1
  <2>3. QED
    BY <2>1, <2>2
<1>5. QED
  BY <1>1, <1>4 DEF Timely

(* An entry no run ends with, for a key whose cycle in progress is dropped. *)
LEMMA DeadSound ==
  ASSUME NEW g, NEW h, NEW e, NEW n \in Nat, Added(g, h, e, n), Dead(g, n), NEW now \in Nat,
         e # Cut => Consistent(e.part) /\ e.ms = now,
         NEW k, NEW cy, NEW co, NEW gone, Sound(k, cy, co, h, gone, now),
         NEW cy1, k \notin DOMAIN cy1
  PROVE  Sound(k, cy1, co, g, gone, now)
  BY TimelyMore, DeadHolds, DeadWorks DEF Sound

LEMMA KeySound ==
  ASSUME SatInv, NEW k \in Keys
  PROVE  /\ Sound(k, cycles, complete, heard[k], overflow, clock)
         /\ heard[k] \in Seq(Heard) /\ DOMAIN heard = Keys /\ clock \in Nat
  BY CapsAssumption DEF SatInv, SatTypes, Sound

(* A sentence that is refused ends the cycle in progress. *)
LEMMA RefuseKeeps ==
  ASSUME SatInv, NEW s \in GsvSentences, Refuse(s), clock' = clock,
         ~Consistent(s) \/ ~(s.key \in DOMAIN Before(s) /\ Continues(Before(s)[s.key], s)),
         NEW k \in Keys
  PROVE  /\ Sound(k, cycles', complete', heard'[k], overflow', clock')
         /\ heard'[k] \in Seq(Heard)
<1>1. /\ DOMAIN cycles' = DOMAIN cycles \ {s.key} /\ complete' = complete /\ overflow' = overflow
      /\ \A x \in DOMAIN cycles : x # s.key => cycles'[x] = cycles[x]
  BY WithoutIs DEF Refuse
<1>2. DOMAIN heard = Keys /\ heard[k] \in Seq(Heard) /\ Sound(k, cycles, complete, heard[k], overflow, clock)
        /\ clock \in Nat
  BY KeySound
<1>3. CASE k # s.key
  <2>1. heard'[k] = heard[k]
    BY <1>2, <1>3 DEF Refuse
  <2>2. Same(cycles', cycles, k) /\ Same(complete', complete, k)
    BY <1>1, <1>3 DEF Same
  <2>3. Sound(k, cycles', complete', heard[k], overflow, clock)
    BY <1>2, <2>2, SameSound
  <2>4. QED
    BY <1>1, <1>2, <2>1, <2>3
<1>4. CASE k = s.key
  <2> DEFINE part == [part |-> s, ms |-> clock]
  <2>1. PICK e : e = IF Consistent(s) THEN part ELSE Cut
    OBVIOUS
  <2>2. e \in Heard
    BY <1>2, <2>1 DEF Heard
  <2>3. heard'[k] = Append(heard[k], e)
    BY <1>2, <1>4, <2>1 DEF Refuse
  <2> PICK h : h = heard[k]
    OBVIOUS
  <2> PICK g : g = Append(h, e)
    OBVIOUS
  <2> PICK n \in Nat : n = Len(h)
    BY <1>2
  <2>4. h = heard[k] /\ g = Append(h, e) /\ n = Len(h)
    OBVIOUS
  <2>5. Added(g, h, e, n) /\ g \in Seq(Heard)
    BY <1>2, <2>2, <2>4, Appended DEF Added
  <2>6. Dead(g, n)
    <3>1. CASE e = Cut
      BY <2>5, <3>1, DeadCut
    <3>2. CASE e # Cut
      <4>1. Consistent(s) /\ e = part
        BY <2>1, <3>2
      <4>2. Hearing(s, g, h, n)
        BY <1>4, <2>4, <2>5, <4>1 DEF Hearing
      <4>3. QED
        BY <4>1, <4>2, RunContinues DEF Dead
    <3>3. QED
      BY <3>1, <3>2
  <2>7. e # Cut => Consistent(e.part) /\ e.ms = clock
    BY <2>1
  <2>8. k \notin DOMAIN cycles'
    BY <1>1, <1>4
  <2>9. Sound(k, cycles, complete, h, overflow, clock)
    BY <1>2, <2>4
  <2> HIDE DEF part
  <2>10. Sound(k, cycles', complete, g, overflow, clock)
    BY <1>2, <2>5, <2>6, <2>7, <2>8, <2>9, DeadSound
  <2>11. QED
    BY <1>1, <2>3, <2>4, <2>5, <2>10
<1>5. QED
  BY <1>3, <1>4

(* When a map has grown too large, all keys lose their cycles at once. *)
LEMMA BoundedIs == \A f : Bounded(f) = f \/ Bounded(f) = Nothing
  BY DEF Bounded

LEMMA NothingIs == DOMAIN Nothing = {}
  BY DEF Nothing

LEMMA GivenUp ==
  ASSUME NEW k, NEW h, NEW co, NEW gone \in BOOLEAN, Holding(k, co, h, gone),
         NEW co1, co1 = co \/ co1 = Nothing, NEW gone1, gone1 <=> (gone \/ co1 # co)
  PROVE  Holding(k, co1, h, gone1)
<1>1. CASE co1 = co
  BY <1>1 DEF Holding
<1>2. CASE co1 # co
  BY <1>2, NothingIs DEF Holding
<1>3. QED
  BY <1>1, <1>2

(* The key of the sentence, before the maps are bounded. *)
LEMMA GrownSound ==
  ASSUME SatInv, NEW s \in GsvSentences, NEW c, Grown(s, c),
         NEW now, now = IF c.next > c.total THEN Without(Before(s), s.key) ELSE With(Before(s), s.key, c),
         NEW done, done = IF c.next > c.total THEN With(complete, s.key, c) ELSE complete,
         NEW k \in Keys,
         NEW h, h = IF k = s.key THEN Append(heard[k], [part |-> s, ms |-> clock]) ELSE heard[k]
  PROVE  Sound(k, now, done, h, overflow, clock) /\ h \in Seq(Heard)
<1>1. /\ Sound(k, cycles, complete, heard[k], overflow, clock)
      /\ heard[k] \in Seq(Heard) /\ clock \in Nat
  BY KeySound
<1>2. \A x \in DOMAIN cycles : x # s.key => x \in DOMAIN Before(s) /\ Before(s)[x] = cycles[x]
  BY BeforeIs
<1>3. DOMAIN Before(s) = DOMAIN cycles \cup {s.key}
  BY BeforeIs DEF Grown
<1>4. CASE k # s.key
  <2>1. Same(now, cycles, k)
    <3>1. CASE now = Without(Before(s), s.key)
      BY <1>2, <1>3, <1>4, <3>1 DEF Same, Without
    <3>2. CASE now = With(Before(s), s.key, c)
      BY <1>2, <1>3, <1>4, <3>2 DEF Same, With
    <3>3. QED
      BY <3>1, <3>2
  <2>2. Same(done, complete, k)
    <3>1. CASE done = complete
      BY <3>1 DEF Same
    <3>2. CASE done = With(complete, s.key, c)
      BY <1>4, <3>2 DEF Same, With
    <3>3. QED
      BY <3>1, <3>2
  <2>3. Sound(k, now, done, heard[k], overflow, clock)
    BY <1>1, <2>1, <2>2, SameSound
  <2>4. QED
    BY <1>1, <1>4, <2>3
<1>5. CASE k = s.key
  <2> PICK e : e = [part |-> s, ms |-> clock]
    OBVIOUS
  <2> PICK g : g = heard[k]
    OBVIOUS
  <2> PICK n \in Nat : n = Len(g)
    BY <1>1
  <2>1. e \in Heard /\ e.part = s /\ e.ms = clock
    BY <1>1 DEF Heard
  <2>2. h = Append(g, e)
    BY <1>5
  <2>3. Added(h, g, e, n) /\ h \in Seq(Heard)
    BY <1>1, <2>1, <2>2, Appended DEF Added
  <2>4. Hearing(s, h, g, n)
    BY <1>5, <2>3 DEF Hearing
  <2>5. Timely(h, clock)
    <3>1. Consistent(e.part) /\ e.ms = clock
      BY <2>1 DEF Grown
    <3>2. Timely(g, clock)
      BY <1>1 DEF Sound
    <3>3. QED
      BY <1>1, <2>3, <3>1, <3>2, TimelyMore
  <2>6. Working(s.key, now, h) /\ Holding(s.key, done, h, overflow)
    <3>1. CASE c.next > c.total
      <4>0. now = Without(Before(s), s.key) /\ done = With(complete, s.key, c)
        BY <3>1
      <4>1. s.key \notin DOMAIN now /\ s.key \in DOMAIN done /\ done[s.key] = c
        BY <4>0 DEF With, Without
      <4>2. QED
        BY <2>4, <3>1, <4>1, WholeHeard
    <3>2. CASE ~(c.next > c.total)
      <4>0. now = With(Before(s), s.key, c) /\ done = complete
        BY <3>2
      <4>1. s.key \in DOMAIN now /\ now[s.key] = c /\ done = complete
        BY <4>0 DEF With
      <4>2. QED
        BY <2>4, <3>2, <4>1, PartHeard
    <3>3. QED
      BY <3>1, <3>2
  <2>7. QED
    BY <1>5, <2>3, <2>5, <2>6 DEF Sound
<1>6. QED
  BY <1>4, <1>5

(* A sentence that goes on with its cycle. *)
LEMMA ExtendKeeps ==
  ASSUME SatInv, NEW s \in GsvSentences, Extend(s), clock' = clock,
         Consistent(s), s.key \in DOMAIN Before(s), Continues(Before(s)[s.key], s),
         NEW k \in Keys
  PROVE  /\ Sound(k, cycles', complete', heard'[k], overflow', clock')
         /\ heard'[k] \in Seq(Heard)
<1> PICK c : c = [Before(s)[s.key] EXCEPT !.next = @ + 1, !.sats = @ \o s.sats]
  OBVIOUS
<1> PICK now : now = IF c.next > c.total THEN Without(Before(s), s.key) ELSE With(Before(s), s.key, c)
  OBVIOUS
<1> PICK done : done = IF c.next > c.total THEN With(complete, s.key, c) ELSE complete
  OBVIOUS
<1> PICK h : h = IF k = s.key THEN Append(heard[k], [part |-> s, ms |-> clock]) ELSE heard[k]
  OBVIOUS
<1>1. /\ cycles' = Bounded(now) /\ complete' = Bounded(done)
      /\ overflow' = (overflow \/ complete' # done)
  BY DEF Extend
<1>2. heard'[k] = IF cycles' # now THEN Append(h, Cut) ELSE h
  <2>1. k \in DOMAIN heard
    BY KeySound
  <2>2. QED
    BY <2>1 DEF Extend
<1>3. Sound(k, now, done, h, overflow, clock) /\ h \in Seq(Heard)
  BY GrownSound DEF Grown
<1>4. overflow \in BOOLEAN /\ clock \in Nat
  BY KeySound DEF SatInv, SatTypes
<1>5. Sound(k, now, complete', h, overflow', clock)
  <2>1. Holding(k, complete', h, overflow')
    <3>1. Holding(k, done, h, overflow)
      BY <1>3 DEF Sound
    <3>2. complete' = done \/ complete' = Nothing
      BY <1>1, BoundedIs
    <3>3. overflow' <=> (overflow \/ complete' # done)
      BY <1>1
    <3>4. QED
      BY <1>4, <3>1, <3>2, <3>3, GivenUp
  <2>2. QED
    BY <1>3, <2>1 DEF Sound
<1>6. CASE cycles' = now
  BY <1>2, <1>3, <1>5, <1>6
<1>7. CASE cycles' # now
  <2> PICK g : g = Append(h, Cut)
    OBVIOUS
  <2> PICK n \in Nat : n = Len(h)
    BY <1>3
  <2>1. Cut \in Heard
    BY DEF Heard
  <2>2. Added(g, h, Cut, n) /\ g \in Seq(Heard)
    BY <1>3, <2>1, Appended DEF Added
  <2>3. Dead(g, n)
    BY <2>2, DeadCut
  <2>4. k \notin DOMAIN cycles'
    BY <1>1, <1>7, BoundedIs, NothingIs
  <2>5. Sound(k, cycles', complete', g, overflow', clock)
    BY <1>4, <1>5, <2>2, <2>3, <2>4, DeadSound
  <2>6. heard'[k] = g
    BY <1>2, <1>7
  <2>7. QED
    BY <2>2, <2>5, <2>6
<1>8. QED
  BY <1>6, <1>7

-----------------------------------------------------------------------------
(* The types are kept *)

LEMMA BoundedSound ==
  ASSUME NEW f, IsFiniteSet(DOMAIN f)
  PROVE  /\ Capped(Bounded(f))
         /\ Pending(f) => Pending(Bounded(f))
         /\ Whole(f) => Whole(Bounded(f))
<1>1. IsFiniteSet({}) /\ Cardinality({}) = 0 /\ CycleCap \in Nat /\ Cardinality(DOMAIN f) \in Nat
  BY FS_EmptySet, FS_CardinalityType, CapsAssumption
<1>2. Capped(Nothing) /\ Pending(Nothing) /\ Whole(Nothing)
  BY <1>1, NothingIs DEF Capped, Pending, Whole
<1>3. CASE Cardinality(DOMAIN f) > CycleCap
  BY <1>2, <1>3 DEF Bounded
<1>4. CASE ~(Cardinality(DOMAIN f) > CycleCap)
  BY <1>1, <1>4 DEF Bounded, Capped
<1>5. QED
  BY <1>3, <1>4

LEMMA WithoutSound ==
  ASSUME NEW f, NEW k, Capped(f), Pending(f)
  PROVE  Pending(Without(f, k)) /\ Capped(Without(f, k))
<1>1. PICK D : D = DOMAIN f
  OBVIOUS
<1>2. IsFiniteSet(D) /\ IsFiniteSet(D \ {k}) /\ Cardinality(D \ {k}) <= Cardinality(D)
  <2>1. IsFiniteSet(D)
    BY <1>1 DEF Pending
  <2>2. D \ {k} \in SUBSET D
    OBVIOUS
  <2>3. QED
    BY <2>1, <2>2, FS_Subset
<1>3. Cardinality(D) \in Nat /\ Cardinality(D \ {k}) \in Nat /\ CycleCap \in Nat
  BY <1>2, FS_CardinalityType, CapsAssumption
<1>4. DOMAIN Without(f, k) = D \ {k} /\ \A x \in D \ {k} : Without(f, k)[x] = f[x]
  BY <1>1 DEF Without
<1>5. Capped(Without(f, k))
  BY <1>1, <1>2, <1>3, <1>4 DEF Capped
<1>6. Pending(Without(f, k))
  BY <1>1, <1>2, <1>4 DEF Pending
<1>7. QED
  BY <1>5, <1>6

(* A cycle in progress, or a whole one, is put into its map. *)
LEMMA WithSound ==
  ASSUME NEW f, NEW k \in Keys, NEW c
  PROVE  /\ Pending(f) /\ c \in Cycle /\ Filled(c) /\ c.next \in 2 .. c.total => Pending(With(f, k, c))
         /\ Whole(f) /\ Len(c.sats) <= c.count => Whole(With(f, k, c))
<1>1. PICK D : D = DOMAIN f
  OBVIOUS
<1>2. IsFiniteSet(D) => IsFiniteSet(D \cup {k})
  BY FS_AddElement
<1>3. DOMAIN With(f, k, c) = D \cup {k} /\ \A x \in D \cup {k} : With(f, k, c)[x] = IF x = k THEN c ELSE f[x]
  BY <1>1 DEF With
<1>4. ASSUME Pending(f), c \in Cycle, Filled(c), c.next \in 2 .. c.total PROVE Pending(With(f, k, c))
  BY <1>1, <1>2, <1>3, <1>4 DEF Pending
<1>5. ASSUME Whole(f), Len(c.sats) <= c.count PROVE Whole(With(f, k, c))
  BY <1>1, <1>2, <1>3, <1>5 DEF Whole
<1>6. QED
  BY <1>4, <1>5

(* Part one makes room for its key: all that is pending but its own cycle is sound. *)
LEMMA BeforePending ==
  ASSUME SatInv, NEW s \in GsvSentences, NEW c, Grown(s, c)
  PROVE  /\ Pending(Without(Before(s), s.key))
         /\ c.next \in 2 .. c.total => Pending(With(Before(s), s.key, c))
<1>1. Pending(cycles) /\ Capped(cycles) /\ s.key \in Keys
  BY DEF SatInv, SatTypes, Keys
<1>2. Pending(Without(cycles, s.key))
  BY <1>1, WithoutSound
<1>3. Without(Before(s), s.key) = Without(cycles, s.key)
  <2>1. DOMAIN Before(s) \ {s.key} = DOMAIN cycles \ {s.key}
    BY BeforeIs
  <2>2. \A x \in DOMAIN cycles \ {s.key} : Before(s)[x] = cycles[x]
    BY BeforeIs
  <2>3. QED
    BY <2>1, <2>2 DEF Without
<1>4. With(Before(s), s.key, c) = With(cycles, s.key, c)
  <2>1. DOMAIN Before(s) \cup {s.key} = DOMAIN cycles \cup {s.key}
    BY BeforeIs
  <2>2. \A x \in DOMAIN cycles : x # s.key => Before(s)[x] = cycles[x]
    BY BeforeIs
  <2>3. QED
    BY <2>1, <2>2 DEF With
<1>5. c \in Cycle /\ Filled(c)
  BY GrownIs
<1>6. c.next \in 2 .. c.total => Pending(With(cycles, s.key, c))
  BY <1>1, <1>5, WithSound
<1>7. QED
  BY <1>2, <1>3, <1>4, <1>6

LEMMA ExtendTypes ==
  ASSUME SatInv, NEW s \in GsvSentences, Extend(s),
         Consistent(s), s.key \in DOMAIN Before(s), Continues(Before(s)[s.key], s)
  PROVE  Pending(cycles') /\ Capped(cycles') /\ Whole(complete') /\ Capped(complete')
<1> PICK c : c = [Before(s)[s.key] EXCEPT !.next = @ + 1, !.sats = @ \o s.sats]
  OBVIOUS
<1> PICK now : now = IF c.next > c.total THEN Without(Before(s), s.key) ELSE With(Before(s), s.key, c)
  OBVIOUS
<1> PICK done : done = IF c.next > c.total THEN With(complete, s.key, c) ELSE complete
  OBVIOUS
<1>1. cycles' = Bounded(now) /\ complete' = Bounded(done)
  BY DEF Extend
<1>2. Grown(s, c) /\ s.key \in Keys /\ Whole(complete)
  BY DEF Grown, Keys, SatInv, SatTypes
<1>3. /\ c.next \in 2 .. (c.total + 1) /\ c.total = s.total /\ s.total \in Nat
      /\ c.next > c.total => Len(c.sats) <= c.count
  <2>1. s.total \in Nat
    BY SentencesAssumption
  <2>2. QED
    BY <1>2, <2>1, GrownIs
<1>4. Pending(now)
  <2>1. CASE c.next > c.total
    BY <1>2, <2>1, BeforePending
  <2>2. CASE ~(c.next > c.total)
    <3>1. c.next \in 2 .. c.total
      BY <1>3, <2>2
    <3>2. now = With(Before(s), s.key, c)
      BY <2>2
    <3>3. QED
      BY <1>2, <3>1, <3>2, BeforePending
  <2>3. QED
    BY <2>1, <2>2
<1>5. Whole(done)
  <2>1. CASE c.next > c.total
    <3>1. Len(c.sats) <= c.count /\ done = With(complete, s.key, c)
      BY <1>3, <2>1
    <3>2. QED
      BY <1>2, <3>1, WithSound
  <2>2. CASE ~(c.next > c.total)
    BY <1>2, <2>2
  <2>3. QED
    BY <2>1, <2>2
<1>6. IsFiniteSet(DOMAIN now) /\ IsFiniteSet(DOMAIN done)
  BY <1>4, <1>5 DEF Pending, Whole
<1>7. QED
  BY <1>1, <1>4, <1>5, <1>6, BoundedSound

-----------------------------------------------------------------------------
(* Every step keeps the invariant *)

LEMMA SatInitSound == SatInit => SatInv
<1> SUFFICES ASSUME SatInit PROVE SatInv
  OBVIOUS
<1>1. MaxClock \in Nat /\ MaxSentences \in Nat /\ CycleCap \in Nat /\ IsFiniteSet({}) /\ Cardinality({}) = 0
  BY CapsAssumption, FS_EmptySet
<1>2. heard = [k \in Keys |-> <<>>] /\ cycles = Nothing /\ complete = Nothing
        /\ clock = 0 /\ given = 0 /\ overflow = FALSE
  BY DEF SatInit, Keys
<1>3. <<>> \in Seq(Heard) /\ Len(<<>>) = 0
  OBVIOUS
<1>4. SatTypes
  <2>1. Pending(Nothing) /\ Capped(Nothing) /\ Whole(Nothing)
    BY <1>1, NothingIs DEF Pending, Whole, Capped
  <2>2. heard \in [Keys -> Seq(Heard)]
    BY <1>2, <1>3
  <2>3. clock \in 0 .. MaxClock /\ given \in 0 .. MaxSentences /\ overflow \in BOOLEAN
    <3>1. clock \in 0 .. MaxClock /\ given \in 0 .. MaxSentences
      BY <1>1 DEF SatInit
    <3>2. QED
      BY <1>2, <3>1
  <2>4. QED
    BY <1>2, <2>1, <2>2, <2>3 DEF SatTypes
<1>5. ASSUME NEW k \in Keys
      PROVE  Timely(heard[k], clock) /\ Working(k, cycles, heard[k]) /\ Holding(k, complete, heard[k], overflow)
  <2>1. heard[k] = <<>>
    BY <1>2
  <2>2. QED
    BY <1>2, <1>3, <2>1, NothingIs DEF Timely, Working, Holding
<1>6. QED
  BY <1>4, <1>5 DEF SatInv

LEMMA GsvKeeps ==
  ASSUME SatInv, NEW s \in GsvSentences, Gsv(s)
  PROVE  SatInv'
<1>1. clock' = clock /\ given' = given + 1 /\ given < MaxSentences
  BY DEF Gsv
<1>2. DOMAIN heard = Keys /\ overflow \in BOOLEAN /\ clock \in 0 .. MaxClock /\ given' \in 0 .. MaxSentences
        /\ Pending(cycles) /\ Capped(cycles) /\ Whole(complete) /\ Capped(complete)
  BY <1>1, CapsAssumption DEF SatInv, SatTypes
<1>3. CASE Refuse(s) /\ (~Consistent(s) \/ ~(s.key \in DOMAIN Before(s) /\ Continues(Before(s)[s.key], s)))
  <2>1. \A k \in Keys : /\ Sound(k, cycles', complete', heard'[k], overflow', clock')
                        /\ heard'[k] \in Seq(Heard)
    BY <1>1, <1>3, RefuseKeeps
  <2>2. heard' = [k \in Keys |-> heard'[k]]
    BY <1>2, <1>3 DEF Refuse
  <2>3. Pending(cycles') /\ Capped(cycles')
    <3>1. cycles' = Without(cycles, s.key)
      BY <1>3 DEF Refuse
    <3>2. QED
      BY <1>2, <3>1, WithoutSound
  <2>4. complete' = complete /\ overflow' = overflow
    BY <1>3 DEF Refuse
  <2>5. heard' \in [Keys -> Seq(Heard)]
    BY <2>1, <2>2
  <2>6. SatTypes'
    BY <1>1, <1>2, <2>3, <2>4, <2>5 DEF SatTypes, Pending, Capped, Whole
  <2>7. QED
    BY <2>1, <2>6 DEF SatInv, Sound
<1>4. CASE Extend(s) /\ Consistent(s) /\ s.key \in DOMAIN Before(s) /\ Continues(Before(s)[s.key], s)
  <2>1. \A k \in Keys : /\ Sound(k, cycles', complete', heard'[k], overflow', clock')
                        /\ heard'[k] \in Seq(Heard)
    BY <1>1, <1>4, ExtendKeeps
  <2>2. heard' = [k \in Keys |-> heard'[k]]
    BY <1>2, <1>4 DEF Extend
  <2>3. Pending(cycles') /\ Capped(cycles') /\ Whole(complete') /\ Capped(complete')
    BY <1>4, ExtendTypes
  <2>4. overflow' \in BOOLEAN
    BY <1>2, <1>4 DEF Extend
  <2>5. heard' \in [Keys -> Seq(Heard)]
    BY <2>1, <2>2
  <2>6. SatTypes'
    BY <1>1, <1>2, <2>3, <2>4, <2>5 DEF SatTypes, Pending, Capped, Whole
  <2>7. QED
    BY <2>1, <2>6 DEF SatInv, Sound
<1>5. QED
  BY <1>3, <1>4 DEF Gsv

LEMMA GapKeeps ==
  ASSUME SatInv, Gap
  PROVE  SatInv'
<1>1. /\ cycles' = Nothing /\ complete' = Nothing /\ heard' = [k \in Keys |-> <<>>]
      /\ clock' = clock /\ overflow' = overflow /\ given' = given + 1 /\ given < MaxSentences
  BY DEF Gap, SatInv, SatTypes
<1>2. MaxSentences \in Nat /\ CycleCap \in Nat /\ IsFiniteSet({}) /\ Cardinality({}) = 0
  BY CapsAssumption, FS_EmptySet
<1>3. <<>> \in Seq(Heard) /\ Len(<<>>) = 0
  OBVIOUS
<1>4. Pending(Nothing) /\ Capped(Nothing) /\ Whole(Nothing)
  BY <1>2, NothingIs DEF Pending, Whole, Capped
<1>5. SatTypes'
  <2>1. clock \in 0 .. MaxClock /\ given \in 0 .. MaxSentences /\ overflow \in BOOLEAN
    BY DEF SatInv, SatTypes
  <2>2. heard' \in [Keys -> Seq(Heard)]
    BY <1>1, <1>3
  <2>3. Pending(cycles') /\ Capped(cycles') /\ Whole(complete') /\ Capped(complete')
    BY <1>1, <1>4
  <2>4. given' \in 0 .. MaxSentences
    BY <1>1, <1>2, <2>1
  <2>5. QED
    BY <1>1, <2>1, <2>2, <2>3, <2>4 DEF SatTypes, Pending, Whole, Capped
<1>6. ASSUME NEW k \in Keys
      PROVE  Sound(k, cycles', complete', heard'[k], overflow', clock')
  <2>1. heard'[k] = <<>>
    BY <1>1
  <2>2. QED
    BY <1>1, <1>3, <2>1, NothingIs DEF Sound, Timely, Working, Holding
<1>7. QED
  BY <1>5, <1>6 DEF SatInv, Sound

(* Time only makes what was heard older. *)
LEMMA LaterKeeps ==
  ASSUME SatInv, clock' \in 0 .. MaxClock, clock' >= clock, given' \in 0 .. MaxSentences,
         UNCHANGED <<cycles, complete, heard, overflow>>
  PROVE  SatInv'
<1>1. SatTypes'
  BY DEF SatInv, SatTypes, Pending, Whole, Capped
<1>2. ASSUME NEW k \in Keys PROVE Timely(heard[k], clock')
  <2> PICK h : h = heard[k]
    OBVIOUS
  <2>1. Timely(h, clock) /\ h \in Seq(Heard) /\ clock \in Nat /\ clock' \in Nat
    BY CapsAssumption DEF SatInv, SatTypes
  <2>2. \A p \in 1 .. Len(h) : h[p] # Cut => h[p].ms \in Nat
    <3> SUFFICES ASSUME NEW p \in 1 .. Len(h), h[p] # Cut PROVE h[p].ms \in Nat
      OBVIOUS
    <3>1. h[p] \in Heard
      BY <2>1
    <3>2. QED
      BY <3>1, Entries
  <2>3. QED
    BY <2>1, <2>2 DEF Timely
<1>3. QED
  BY <1>1, <1>2 DEF SatInv, Working, Holding

LEMMA SatNextSound == SatInv /\ [SatNext]_satVars => SatInv'
<1> SUFFICES ASSUME SatInv, [SatNext]_satVars PROVE SatInv'
  OBVIOUS
<1>1. clock \in 0 .. MaxClock /\ given \in 0 .. MaxSentences /\ MaxClock \in Nat /\ MaxSentences \in Nat
  BY CapsAssumption DEF SatInv, SatTypes
<1>2. ASSUME NEW s \in GsvSentences, Gsv(s) PROVE SatInv'
  BY <1>2, GsvKeeps
<1>3. ASSUME NEW s \in GsaSentences, Gsa(s) PROVE SatInv'
  BY <1>1, <1>3, LaterKeeps DEF Gsa
<1>4. CASE Gap
  BY <1>4, GapKeeps
<1>5. CASE Pause
  BY <1>1, <1>5, LaterKeeps DEF Pause
<1>6. CASE UNCHANGED satVars
  BY <1>1, <1>6, LaterKeeps DEF satVars
<1>7. QED
  BY <1>2, <1>3, <1>4, <1>5, <1>6 DEF SatNext

(* What is kept of the satellites used: for every system, its last GSA. *)
Fix == {[system |-> z.system, ms |-> t, sats |-> z.sats] : z \in GsaSentences, t \in Nat}

LastFix(f, i, u) == f[i].system = u /\ \A j \in 1 .. Len(f) : f[j].system = u => j <= i

UsedInv ==
  /\ fixes \in Seq(Fix)
  /\ \A i \in 1 .. Len(fixes) : fixes[i].system \in DOMAIN used /\ fixes[i].ms <= clock
  /\ \A u \in DOMAIN used : \E i \in 1 .. Len(fixes) :
       LastFix(fixes, i, u) /\ used[u].ms = fixes[i].ms /\ used[u].sats = fixes[i].sats

LEMMA GsaKeeps ==
  ASSUME UsedInv, clock \in Nat, NEW s \in GsaSentences, Gsa(s)
  PROVE  UsedInv'
<1> DEFINE e == [system |-> s.system, ms |-> clock, sats |-> s.sats]
<1>1. /\ used' = With(used, s.system, [ms |-> clock, sats |-> s.sats])
      /\ fixes' = Append(fixes, e) /\ clock' = clock
  BY DEF Gsa
<1>2. e \in Fix /\ e.system = s.system /\ e.ms = clock /\ e.sats = s.sats
  BY DEF Fix
<1> HIDE DEF e
<1>3. fixes \in Seq(Fix) /\ Len(fixes) \in Nat
  BY DEF UsedInv
<1>4. PICK n \in Nat : n = Len(fixes)
  BY <1>3
<1>5. /\ fixes' \in Seq(Fix) /\ Len(fixes') = n + 1 /\ fixes'[n + 1] = e
      /\ \A i \in 1 .. n : fixes'[i] = fixes[i]
  BY <1>1, <1>2, <1>3, <1>4
<1>6. /\ DOMAIN used' = DOMAIN used \cup {s.system}
      /\ used'[s.system].ms = clock /\ used'[s.system].sats = s.sats
      /\ \A u \in DOMAIN used : u # s.system => used'[u] = used[u]
  BY <1>1 DEF With
<1>7. ASSUME NEW i \in 1 .. (n + 1)
      PROVE  fixes'[i].system \in DOMAIN used' /\ fixes'[i].ms <= clock
  <2>1. CASE i = n + 1
    BY <1>2, <1>5, <1>6, <2>1
  <2>2. CASE i # n + 1
    <3>1. i \in 1 .. n /\ fixes'[i] = fixes[i]
      BY <1>5, <2>2
    <3>2. QED
      BY <1>4, <1>6, <3>1 DEF UsedInv
  <2>3. QED
    BY <2>1, <2>2
<1>8. ASSUME NEW u \in DOMAIN used'
      PROVE  \E i \in 1 .. (n + 1) :
               /\ fixes'[i].system = u /\ \A j \in 1 .. (n + 1) : fixes'[j].system = u => j <= i
               /\ used'[u].ms = fixes'[i].ms /\ used'[u].sats = fixes'[i].sats
  <2>1. CASE u = s.system
    <3>1. n + 1 \in 1 .. (n + 1) /\ \A j \in 1 .. (n + 1) : j <= n + 1
      OBVIOUS
    <3>2. /\ fixes'[n + 1].system = u
          /\ used'[u].ms = fixes'[n + 1].ms /\ used'[u].sats = fixes'[n + 1].sats
      BY <1>2, <1>5, <1>6, <2>1
    <3>3. QED
      BY <3>1, <3>2
  <2>2. CASE u # s.system
    <3>1. u \in DOMAIN used /\ used'[u] = used[u]
      BY <1>6, <2>2
    <3>2. PICK i \in 1 .. n : LastFix(fixes, i, u) /\ used[u].ms = fixes[i].ms /\ used[u].sats = fixes[i].sats
      BY <1>4, <3>1 DEF UsedInv
    <3>3. i \in 1 .. (n + 1) /\ fixes'[i] = fixes[i]
      BY <1>5
    <3>4. ASSUME NEW j \in 1 .. (n + 1), fixes'[j].system = u PROVE j <= i
      <4>1. j # n + 1
        BY <1>2, <1>5, <2>2, <3>4
      <4>2. j \in 1 .. n /\ fixes'[j] = fixes[j]
        BY <1>5, <4>1
      <4>3. QED
        BY <1>4, <3>2, <3>4, <4>2 DEF LastFix
    <3>5. QED
      BY <3>1, <3>2, <3>3, <3>4 DEF LastFix
  <2>3. QED
    BY <2>1, <2>2
<1>9. PICK f : f = fixes'
  OBVIOUS
<1>10. \A u \in DOMAIN used' : \E i \in 1 .. Len(f) :
         LastFix(f, i, u) /\ used'[u].ms = f[i].ms /\ used'[u].sats = f[i].sats
  BY <1>5, <1>8, <1>9, ZenonT(40) DEF LastFix
<1>11. f \in Seq(Fix) /\ \A i \in 1 .. Len(f) : f[i].system \in DOMAIN used' /\ f[i].ms <= clock'
  BY <1>1, <1>5, <1>7, <1>9
<1>12. QED
  BY <1>9, <1>10, <1>11 DEF UsedInv

LEMMA UsedNext == SatInv /\ UsedInv /\ [SatNext]_satVars => UsedInv'
<1> SUFFICES ASSUME SatInv, UsedInv, [SatNext]_satVars PROVE UsedInv'
  OBVIOUS
<1>1. clock \in Nat
  BY CapsAssumption DEF SatInv, SatTypes
<1>2. ASSUME fixes' = fixes, used' = used, clock' = clock PROVE UsedInv'
  BY <1>2 DEF UsedInv
<1>3. ASSUME NEW s \in GsvSentences, Gsv(s) PROVE UsedInv'
  BY <1>2, <1>3 DEF Gsv
<1>4. ASSUME NEW s \in GsaSentences, Gsa(s) PROVE UsedInv'
  BY <1>1, <1>4, GsaKeeps
<1>5. CASE Gap
  <2>1. fixes' = <<>> /\ used' = Nothing /\ DOMAIN Nothing = {} /\ Len(<<>>) = 0 /\ <<>> \in Seq(Fix)
    BY <1>5, NothingIs DEF Gap
  <2>2. QED
    BY <2>1 DEF UsedInv
<1>6. CASE Pause
  <2>1. fixes' = fixes /\ used' = used /\ clock' = clock + 1
    BY <1>6 DEF Pause
  <2>2. ASSUME NEW i \in 1 .. Len(fixes) PROVE fixes[i].ms <= clock + 1
    <3>1. fixes[i] \in Fix
      BY DEF UsedInv
    <3>2. fixes[i].ms \in Nat /\ fixes[i].ms <= clock
      BY <3>1 DEF UsedInv, Fix
    <3>3. QED
      BY <1>1, <3>2
  <2>3. QED
    BY <2>1, <2>2 DEF UsedInv
<1>7. CASE UNCHANGED satVars
  BY <1>2, <1>7 DEF satVars
<1>8. QED
  BY <1>3, <1>4, <1>5, <1>6, <1>7 DEF SatNext

LEMMA SatInvariant == SatSpec => [](SatInv /\ UsedInv)
<1>1. SatInit => UsedInv
  <2> SUFFICES ASSUME SatInit PROVE UsedInv
    OBVIOUS
  <2>1. fixes = <<>> /\ used = Nothing /\ DOMAIN Nothing = {} /\ Len(<<>>) = 0 /\ <<>> \in Seq(Fix)
    BY NothingIs DEF SatInit
  <2>2. QED
    BY <2>1 DEF UsedInv
<1>2. QED
  BY SatInitSound, SatNextSound, UsedNext, <1>1, PTL DEF SatSpec

-----------------------------------------------------------------------------
(* What is named by a run is named by one of its parts *)

LEMMA Elements ==
  ASSUME NEW s \in Seq(Views), NEW t \in Seq(Views), NEW q, q = s \o t, NEW x \in Range(q)
  PROVE  x \in Range(s) \/ x \in Range(t)
<1>1. /\ q \in Seq(Views) /\ Len(q) = Len(s) + Len(t)
      /\ \A i \in 1 .. Len(q) : q[i] = IF i <= Len(s) THEN s[i] ELSE t[i - Len(s)]
  <2>1. /\ s \o t \in Seq(Views) /\ Len(s \o t) = Len(s) + Len(t)
        /\ \A i \in 1 .. Len(s) + Len(t) : (s \o t)[i] = IF i <= Len(s) THEN s[i] ELSE t[i - Len(s)]
    BY ConcatProperties
  <2>2. QED
    BY <2>1
<1>2. DOMAIN q = 1 .. Len(q) /\ DOMAIN s = 1 .. Len(s) /\ DOMAIN t = 1 .. Len(t)
        /\ Len(s) \in Nat /\ Len(t) \in Nat
  BY <1>1
<1>3. PICK i \in 1 .. Len(q) : x = q[i]
  BY <1>2 DEF Range
<1>4. CASE i <= Len(s)
  <2>1. i \in 1 .. Len(s)
    BY <1>2, <1>4
  <2>2. x = s[i]
    BY <1>1, <1>3, <1>4
  <2>3. QED
    BY <1>2, <2>1, <2>2 DEF Range
<1>5. CASE ~(i <= Len(s))
  <2>1. PICK j \in 1 .. Len(t) : j = i - Len(s)
    BY <1>1, <1>2, <1>5
  <2>2. x = t[j]
    BY <1>1, <1>3, <1>5, <2>1
  <2>3. QED
    BY <1>2, <2>2 DEF Range
<1>6. QED
  BY <1>4, <1>5

LEMMA JoinedSequence ==
  ASSUME NEW h, NEW i \in Nat, NEW m \in Nat, i <= m, Named(h, i, m)
  PROVE  Joined(h, i, m) \in Seq(Views)
<1> DEFINE T == {l \in Nat : l \in i .. m /\ Joined(h, i, l) \notin Seq(Views)}
<1>1. SUFFICES ASSUME T # {} PROVE FALSE
  <2>1. m \in i .. m
    OBVIOUS
  <2>2. QED
    BY <1>1, <2>1
<1>2. PICK l \in T : \A r \in T : l <= r
  BY <1>1, LeastNumber
<1>3. l \in i .. m /\ Joined(h, i, l) \notin Seq(Views) /\ h[l].part.sats \in Seq(Views)
  BY DEF Named
<1>4. CASE l = i
  <2>1. Named(h, i, i)
    BY <1>3, <1>4 DEF Named
  <2>2. QED
    BY <1>3, <1>4, <2>1, JoinedOne
<1>5. CASE l # i
  <2> PICK r : r = l - 1
    OBVIOUS
  <2>1. r \in Nat /\ r \in i .. m /\ i <= r /\ l = r + 1 /\ ~(l <= r)
    BY <1>3, <1>5
  <2>2. Joined(h, i, r) \in Seq(Views)
    BY <1>2, <2>1
  <2>3. Named(h, i, r + 1)
    BY <1>3, <2>1 DEF Named
  <2>4. Joined(h, i, l) = Joined(h, i, r) \o h[l].part.sats
    <3>1. Joined(h, i, r + 1) = Joined(h, i, r) \o h[r + 1].part.sats
      BY <2>1, <2>3, JoinedMore, Zenon
    <3>2. QED
      BY <2>1, <3>1, Zenon
  <2> PICK a, b : a = Joined(h, i, r) /\ b = h[l].part.sats
    OBVIOUS
  <2>5. a \o b \in Seq(Views)
    BY <1>3, <2>2
  <2>6. QED
    BY <1>3, <2>4, <2>5
<1>6. QED
  BY <1>4, <1>5

LEMMA JoinedFrom ==
  ASSUME NEW h, NEW i \in Nat, NEW m \in Nat, i <= m, Named(h, i, m), NEW x \in Range(Joined(h, i, m))
  PROVE  \E p \in i .. m : x \in Range(h[p].part.sats)
<1> DEFINE T == {l \in Nat : l \in i .. m /\ x \in Range(Joined(h, i, l))}
<1>1. T # {}
  <2>1. m \in T
    OBVIOUS
  <2>2. QED
    BY <2>1
<1>2. PICK l \in T : \A r \in T : l <= r
  BY <1>1, LeastNumber
<1>3. l \in i .. m /\ x \in Range(Joined(h, i, l)) /\ h[l].part.sats \in Seq(Views)
  BY DEF Named
<1>4. CASE l = i
  <2>1. Named(h, i, i)
    BY <1>3, <1>4 DEF Named
  <2>2. QED
    BY <1>3, <1>4, <2>1, JoinedOne
<1>5. CASE l # i
  <2> PICK r : r = l - 1
    OBVIOUS
  <2>1. r \in Nat /\ r \in i .. m /\ i <= r /\ l = r + 1 /\ ~(l <= r)
    BY <1>3, <1>5
  <2>2. x \notin Range(Joined(h, i, r))
    BY <1>2, <2>1
  <2>3. Named(h, i, r + 1) /\ Named(h, i, r)
    BY <1>3, <2>1 DEF Named
  <2>4. Joined(h, i, l) = Joined(h, i, r) \o h[l].part.sats
    <3>1. Joined(h, i, r + 1) = Joined(h, i, r) \o h[r + 1].part.sats
      BY <2>1, <2>3, JoinedMore, Zenon
    <3>2. QED
      BY <2>1, <3>1, Zenon
  <2>5. Joined(h, i, r) \in Seq(Views)
    BY <2>1, <2>3, JoinedSequence
  <2>6. x \in Range(h[l].part.sats)
    BY <1>3, <2>2, <2>4, <2>5, Elements
  <2>7. QED
    BY <1>3, <2>6
<1>6. QED
  BY <1>4, <1>5

(* A complete cycle that is kept, in the history. *)
LEMMA Kept ==
  ASSUME SatInv, NEW k \in DOMAIN complete
  PROVE  \E i \in 1 .. Len(heard[k]), m \in Nat :
           /\ k \in Keys /\ i <= m /\ m <= Len(heard[k]) /\ m = i + heard[k][i].part.total - 1
           /\ CycleAt(heard[k], i) /\ \A j \in 1 .. Len(heard[k]) : CycleAt(heard[k], j) => j <= i
           /\ Run(heard[k], i, m) /\ Named(heard[k], i, m)
           /\ complete[k].ms = heard[k][i].ms /\ complete[k].sats = Joined(heard[k], i, m)
<1>1. k \in Keys
  BY DEF SatInv, SatTypes, Whole
<1> PICK h : h = heard[k]
  OBVIOUS
<1>2. h \in Seq(Heard) /\ Holding(k, complete, h, overflow)
  BY <1>1 DEF SatInv, SatTypes
<1>3. PICK i \in 1 .. Len(h) :
        /\ CycleAt(h, i) /\ \A j \in 1 .. Len(h) : CycleAt(h, j) => j <= i
        /\ complete[k].ms = h[i].ms /\ complete[k].sats = Joined(h, i, i + h[i].part.total - 1)
  BY <1>2 DEF Holding
<1>4. h[i] # Cut /\ i + h[i].part.total - 1 <= Len(h) /\ Run(h, i, i + h[i].part.total - 1)
  BY <1>2, <1>3, CycleIsRun
<1>5. PICK m \in Nat : m = i + h[i].part.total - 1 /\ i <= m
  <2>1. h[i] \in Heard
    BY <1>2
  <2>2. h[i].part.total \in Nat \ {0}
    BY <1>4, <2>1, Entries
  <2>3. QED
    BY <2>2
<1>6. m \in i .. Len(h)
  BY <1>2, <1>4, <1>5
<1>7. Named(h, i, m)
  BY <1>2, <1>4, <1>5, <1>6, RunNames
<1>8. QED
  BY <1>1, <1>3, <1>4, <1>5, <1>7

-----------------------------------------------------------------------------
(* The theorems *)

(* No map outgrows its cap, a cycle in progress waits for one of its parts, and a    *)
(* complete one has at most as many satellites as its sentences said.                    *)
THEOREM SatelliteTypes == SatSpec => []SatTypeOK
<1>1. SatInv => SatTypeOK
  BY DEF SatInv, SatTypes, SatTypeOK, Pending, Whole, Capped
<1>2. QED
  BY <1>1, SatInvariant, PTL

(* Whatever is lost, repeated, late or damaged, the complete cycle kept for a key is *)
(* the last whole run of parts heard since the last gap, and never a mixture; and      *)
(* one heard is kept unless the cap gave all of them up.                                  *)
THEOREM KeptCyclesWhole == SatSpec => []CyclesAreWholeRuns
<1>1. ASSUME SatInv PROVE CyclesAreWholeRuns
  <2> SUFFICES ASSUME NEW k \in DOMAIN heard
               PROVE  LET h == heard[k]
                          W == {i \in DOMAIN h : CycleAt(h, i)}
                      IN  /\ k \in DOMAIN complete =>
                               \E i \in W :
                                 /\ \A j \in W : j <= i
                                 /\ complete[k].ms = h[i].ms
                                 /\ complete[k].sats =
                                      FlattenSeq([j \in 1 .. h[i].part.total |-> h[i + j - 1].part.sats])
                          /\ W # {} /\ ~overflow => k \in DOMAIN complete
    BY DEF CyclesAreWholeRuns
  <2> PICK h : h = heard[k]
    OBVIOUS
  <2> DEFINE W == {i \in DOMAIN h : CycleAt(h, i)}
  <2>1. k \in Keys /\ h \in Seq(Heard) /\ DOMAIN h = 1 .. Len(h) /\ Holding(k, complete, h, overflow)
    BY <1>1 DEF SatInv, SatTypes
  <2>2. ASSUME k \in DOMAIN complete
        PROVE  \E i \in W :
                 /\ \A j \in W : j <= i
                 /\ complete[k].ms = h[i].ms
                 /\ complete[k].sats = FlattenSeq([j \in 1 .. h[i].part.total |-> h[i + j - 1].part.sats])
    <3>1. PICK i \in 1 .. Len(h), m \in Nat :
            /\ i <= m /\ m = i + h[i].part.total - 1
            /\ CycleAt(h, i) /\ \A j \in 1 .. Len(h) : CycleAt(h, j) => j <= i
            /\ Run(h, i, m)
            /\ complete[k].ms = h[i].ms /\ complete[k].sats = Joined(h, i, m)
      BY <1>1, <2>2, Kept
    <3>2. m - i + 1 = h[i].part.total
      <4>1. h[i] \in Heard /\ h[i] # Cut
        BY <2>1, <3>1 DEF Run
      <4>2. h[i].part.total \in Nat
        BY <4>1, Entries
      <4>3. QED
        BY <3>1, <4>2
    <3>3. Joined(h, i, m) = FlattenSeq([j \in 1 .. h[i].part.total |-> h[i + j - 1].part.sats])
      BY <3>2 DEF Joined
    <3>4. QED
      BY <2>1, <3>1, <3>3
  <2>3. W # {} /\ ~overflow => k \in DOMAIN complete
    BY <2>1 DEF Holding
  <2>4. QED
    BY <2>2, <2>3
<1>2. QED
  BY <1>1, SatInvariant, PTL

(* Every satellite shown was heard since the last gap and within ShownAge; and it is *)
(* shown as used exactly if the last GSA of its own system since the last gap is of     *)
(* that time and names it.                                                                *)
THEOREM ShownSatellitesRecent == SatSpec => []ShownIsRecent
<1>1. ASSUME SatInv, UsedInv PROVE ShownIsRecent
  <2> SUFFICES ASSUME NEW x \in Satellites(clock)
               PROVE  /\ \E k \in DOMAIN heard : \E i \in DOMAIN heard[k] :
                           /\ heard[k][i] # Cut /\ clock - heard[k][i].ms <= ShownAge
                           /\ x.sat \in Range(heard[k][i].part.sats)
                      /\ x.used <=> \E i \in DOMAIN fixes :
                           /\ fixes[i].system = x.sat.system
                           /\ \A j \in DOMAIN fixes : fixes[j].system = x.sat.system => j <= i
                           /\ clock - fixes[i].ms <= ShownAge /\ x.sat.prn \in fixes[i].sats
    BY Zenon DEF ShownIsRecent
  <2> DEFINE Used(y) == IsUsed(y, clock)
         Recently == {k \in DOMAIN complete : Recent(clock, complete[k].ms, ShownAge)}
         All == UNION {Range(complete[k].sats) : k \in Recently}
  <2>1. PICK y \in All : x = [sat |-> y, used |-> Used(y)]
    <3>1. x \in {[sat |-> y, used |-> Used(y)] : y \in All}
      BY Zenon DEF Satellites
    <3> HIDE DEF Used, All
    <3>2. QED
      BY <3>1
  <2>2. PICK k \in DOMAIN complete : Recent(clock, complete[k].ms, ShownAge) /\ y \in Range(complete[k].sats)
    OBVIOUS
  <2>3. x.sat = y /\ x.used = Used(y)
    <3>1. \A v : [sat |-> y, used |-> v].sat = y /\ [sat |-> y, used |-> v].used = v
      OBVIOUS
    <3> HIDE DEF Used, All
    <3>2. QED
      BY <2>1, <3>1, Zenon
  <2> PICK h : h = heard[k]
    OBVIOUS
  <2>4. PICK i \in 1 .. Len(h), m \in Nat :
          /\ k \in Keys /\ i <= m /\ m <= Len(h) /\ Run(h, i, m) /\ Named(h, i, m)
          /\ complete[k].ms = h[i].ms /\ complete[k].sats = Joined(h, i, m)
    BY <1>1, Kept
  <2>5. DOMAIN heard = Keys /\ h \in Seq(Heard) /\ DOMAIN h = 1 .. Len(h) /\ clock \in Nat /\ Timely(h, clock)
    BY <1>1, <2>4, CapsAssumption DEF SatInv, SatTypes
  <2>6. PICK p \in i .. m : y \in Range(h[p].part.sats)
    BY <2>2, <2>4, JoinedFrom
  <2>7. p \in 1 .. Len(h) /\ i \in 1 .. p /\ h[p] # Cut /\ h[i] # Cut
    BY <2>4 DEF Run, Follows
  <2>8. h[i].ms <= h[p].ms /\ clock - h[i].ms <= ShownAge /\ h[i].ms \in Nat /\ h[p].ms \in Nat
    <3>1. h[i] \in Heard /\ h[p] \in Heard
      BY <2>5, <2>7
    <3>2. h[i].ms \in Nat /\ h[p].ms \in Nat
      BY <2>7, <3>1, Entries
    <3>3. h[i].ms <= h[p].ms
      BY <2>5, <2>7 DEF Timely
    <3>4. clock - h[i].ms <= ShownAge
      BY <2>2, <2>4 DEF Recent
    <3>5. QED
      BY <3>2, <3>3, <3>4
  <2>9. clock - h[p].ms <= ShownAge
    <3>1. clock \in Nat /\ ShownAge \in Nat
      BY <2>5, CapsAssumption
    <3>2. \A a, b, c, d \in Nat : a <= b /\ c - a <= d => c - b <= d
      OBVIOUS
    <3>3. QED
      BY <2>8, <3>1, <3>2, Zenon
  <2>10. x.used <=> \E j \in DOMAIN fixes :
           /\ fixes[j].system = x.sat.system
           /\ \A l \in DOMAIN fixes : fixes[l].system = x.sat.system => l <= j
           /\ clock - fixes[j].ms <= ShownAge /\ x.sat.prn \in fixes[j].sats
    <3> PICK u : u = y.system
      OBVIOUS
    <3>1. DOMAIN fixes = 1 .. Len(fixes) /\ Len(fixes) \in Nat
      BY <1>1 DEF UsedInv
    <3>2. ASSUME IsUsed(y, clock)
          PROVE  \E j \in DOMAIN fixes : /\ LastFix(fixes, j, u) /\ clock - fixes[j].ms <= ShownAge
                                         /\ y.prn \in fixes[j].sats
      <4>1. u \in DOMAIN used /\ clock - used[u].ms <= ShownAge /\ y.prn \in used[u].sats
        BY <3>2 DEF IsUsed, Recent
      <4>2. PICK j \in 1 .. Len(fixes) : LastFix(fixes, j, u) /\ used[u].ms = fixes[j].ms /\ used[u].sats = fixes[j].sats
        BY <1>1, <4>1 DEF UsedInv
      <4>3. QED
        BY <3>1, <4>1, <4>2
    <3>3. ASSUME NEW j \in DOMAIN fixes, LastFix(fixes, j, u), clock - fixes[j].ms <= ShownAge,
                 y.prn \in fixes[j].sats
          PROVE  IsUsed(y, clock)
      <4>1. u \in DOMAIN used /\ fixes[j].ms <= clock /\ fixes[j].ms \in Nat /\ j \in 1 .. Len(fixes)
        <5>1. fixes[j] \in Fix /\ j \in 1 .. Len(fixes)
          BY <1>1, <3>1 DEF UsedInv
        <5>2. fixes[j].ms \in Nat
          BY <5>1 DEF Fix
        <5>3. QED
          BY <1>1, <3>3, <5>1, <5>2 DEF UsedInv, LastFix
      <4>2. PICK l \in 1 .. Len(fixes) : LastFix(fixes, l, u) /\ used[u].ms = fixes[l].ms /\ used[u].sats = fixes[l].sats
        BY <1>1, <4>1 DEF UsedInv
      <4>3. l = j
        <5>1. l <= j /\ j <= l /\ l \in Int /\ j \in Int
          BY <3>3, <4>1, <4>2 DEF LastFix
        <5>2. QED
          BY <5>1
      <4>4. Recent(clock, used[u].ms, ShownAge) /\ y.prn \in used[u].sats
        BY <2>5, <3>3, <4>1, <4>2, <4>3 DEF Recent
      <4>5. QED
        BY <4>1, <4>4 DEF IsUsed
    <3>4. x.sat.system = u /\ x.sat.prn = y.prn
      BY <2>3
    <3>5. x.used = IsUsed(y, clock)
      BY <2>3, Zenon
    <3>6. (\E j \in DOMAIN fixes : /\ LastFix(fixes, j, u) /\ clock - fixes[j].ms <= ShownAge
                                   /\ y.prn \in fixes[j].sats)
          <=> \E j \in DOMAIN fixes :
                /\ fixes[j].system = x.sat.system
                /\ \A l \in DOMAIN fixes : fixes[l].system = x.sat.system => l <= j
                /\ clock - fixes[j].ms <= ShownAge /\ x.sat.prn \in fixes[j].sats
      BY <3>1, <3>4 DEF LastFix
    <3>7. IsUsed(y, clock) <=> \E j \in DOMAIN fixes : /\ LastFix(fixes, j, u)
                                                     /\ clock - fixes[j].ms <= ShownAge
                                                     /\ y.prn \in fixes[j].sats
      BY <3>2, <3>3
    <3>8. QED
      BY <3>5, <3>6, <3>7, Zenon
  <2>11. QED
    BY <2>3, <2>4, <2>5, <2>6, <2>7, <2>9, <2>10
<1>2. QED
  BY <1>1, SatInvariant, PTL
=============================================================================
