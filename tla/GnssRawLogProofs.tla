-------------------------- MODULE GnssRawLogProofs --------------------------
(***************************************************************************)
(* GnssRawLog for every number of records kept and answered: the reader's  *)
(* cursor and session say exactly where what it has read ends (ReadUpTo),  *)
(* and the damaged original bytes that are accepted lack their head only.  *)
(***************************************************************************)
EXTENDS GnssRawLog, SequenceTheorems, WellFoundedInduction, TLAPS

Entry == [session : Nat, sequence : Nat]

LogTypes ==
  /\ log \in {"raw", "text"} /\ run \in Nat \ {0} /\ newest \in Nat
  /\ cursor \in Nat /\ session \in 0 .. run
  /\ entries \in Seq(Entry)

(* The records read are of sessions up to the reader's, and of its own session up *)
(* to its cursor, which is not ahead of the Agent. The raw reader ends at them.    *)
ReadUpTo ==
  /\ session = run => cursor <= newest
  /\ session = 0 => entries = <<>>
  /\ \A i \in 1 .. Len(entries) : entries[i].session # 0 =>
       /\ entries[i].session \in 1 .. session
       /\ entries[i].session = session => entries[i].sequence <= cursor
  /\ log = "raw" /\ entries # <<>> /\ entries[Len(entries)].session # 0 =>
       entries[Len(entries)] = [session |-> session, sequence |-> cursor]

(* The two halves of LostOnlyAtHeads. *)
InOrder ==
  \A i, j \in 1 .. Len(entries) :
    i < j /\ entries[i].session = entries[j].session /\ entries[i].session # 0 =>
      entries[i].sequence < entries[j].sequence
NoHole ==
  log = "raw" =>
    \A i \in 2 .. Len(entries) :
      entries[i].session # 0 /\ entries[i - 1].session # 0 =>
        /\ entries[i].session = entries[i - 1].session
        /\ entries[i].sequence = entries[i - 1].sequence + 1

IInv == LogTypes /\ ReadUpTo /\ InOrder /\ NoHole

-----------------------------------------------------------------------------
(* Numbers and sequences *)

LEMMA LeastNumber ==
  ASSUME NEW T \in SUBSET Nat, T # {}
  PROVE  \E n \in T : \A m \in T : n <= m
<1>1. PICK n \in T : \A m \in T : <<m, n>> \notin OpToRel(<, Nat)
  BY NatLessThanWellFounded, WFMin
<1>2. \A m \in T : ~(m < n)
  BY <1>1 DEF OpToRel
<1>3. QED
  BY <1>2

(* A sequence that grows at every step is ordered. *)
LEMMA Growing ==
  ASSUME NEW s \in Seq(Nat), \A k \in 2 .. Len(s) : s[k] > s[k - 1],
         NEW i \in 1 .. Len(s), NEW j \in 1 .. Len(s), i < j
  PROVE  s[i] < s[j]
<1> DEFINE T == {k \in (i + 1) .. Len(s) : ~(s[i] < s[k])}
<1>1. \A k \in 1 .. Len(s) : s[k] \in Nat
  OBVIOUS
<1>2. Len(s) \in Nat
  OBVIOUS
<1>3. SUFFICES ASSUME T # {} PROVE FALSE
  <2>1. j \in (i + 1) .. Len(s)
    BY <1>2
  <2>2. QED
    BY <1>3, <2>1
<1>4. T \in SUBSET Nat
  BY <1>2
<1>5. PICK n \in T : \A m \in T : n <= m
  BY <1>3, <1>4, LeastNumber
<1>6. n \in (i + 1) .. Len(s) /\ ~(s[i] < s[n]) /\ n \in 2 .. Len(s) /\ n - 1 \in 1 .. Len(s)
  BY <1>2
<1> HIDE DEF T
<1>7. s[n] > s[n - 1] /\ s[n] \in Nat /\ s[n - 1] \in Nat /\ s[i] \in Nat
  BY <1>1, <1>6
<1>8. CASE n - 1 = i
  BY <1>6, <1>7, <1>8
<1>9. CASE n - 1 # i
  <2>1. n - 1 \in (i + 1) .. Len(s) /\ ~(n <= n - 1)
    BY <1>2, <1>6, <1>9
  <2>2. n - 1 \notin T
    BY <1>5, <2>1
  <2>3. s[i] < s[n - 1]
    BY <2>1, <2>2 DEF T
  <2>4. PICK a \in Nat, b \in Nat, c \in Nat : a = s[i] /\ b = s[n - 1] /\ c = s[n]
    BY <1>7
  <2>5. a < b /\ b < c /\ ~(a < c)
    BY <1>6, <1>7, <2>3, <2>4
  <2>6. QED
    BY <2>5
<1>10. QED
  BY <1>8, <1>9

LEMMA Removed ==
  ASSUME NEW s \in Seq(Nat), NEW i \in 1 .. Len(s)
  PROVE  /\ RemoveAt(s, i) \in Seq(Nat) /\ Len(RemoveAt(s, i)) = Len(s) - 1
         /\ \A k \in 1 .. (Len(s) - 1) : RemoveAt(s, i)[k] = IF k < i THEN s[k] ELSE s[k + 1]
<1> DEFINE x == SubSeq(s, 1, i - 1)
           y == SubSeq(s, i + 1, Len(s))
<1>1. Len(s) \in Nat
  OBVIOUS
<1>2. x \in Seq(Nat) /\ Len(x) = i - 1 /\ \A k \in 1 .. (i - 1) : x[k] = s[k]
  BY <1>1
<1>3. y \in Seq(Nat) /\ Len(y) = Len(s) - i /\ \A k \in 1 .. (Len(s) - i) : y[k] = s[k + i]
  BY <1>1
<1>4. RemoveAt(s, i) = x \o y
  BY DEF RemoveAt
<1> HIDE DEF x, y
<1>5. /\ x \o y \in Seq(Nat) /\ Len(x \o y) = Len(x) + Len(y)
      /\ \A k \in 1 .. (Len(x) + Len(y)) :
           (x \o y)[k] = IF k <= Len(x) THEN x[k] ELSE y[k - Len(x)]
  BY <1>2, <1>3, ConcatProperties
<1>6. \A k \in 1 .. (Len(s) - 1) : (x \o y)[k] = IF k < i THEN s[k] ELSE s[k + 1]
  <2> TAKE k \in 1 .. (Len(s) - 1)
  <2>0. k \in 1 .. (Len(x) + Len(y)) /\ (k <= Len(x) <=> k < i)
    BY <1>1, <1>2, <1>3
  <2>1. CASE k < i
    <3>1. (x \o y)[k] = x[k] /\ k \in 1 .. (i - 1)
      BY <1>5, <2>0, <2>1
    <3>2. QED
      BY <1>2, <2>1, <3>1
  <2>2. CASE ~(k < i)
    <3>1. k - (i - 1) \in 1 .. (Len(s) - i) /\ (k - (i - 1)) + i = k + 1
      BY <1>1, <2>2
    <3>2. (x \o y)[k] = y[k - (i - 1)]
      BY <1>2, <1>5, <2>0, <2>2
    <3>3. y[k - (i - 1)] = s[k + 1]
      BY <1>3, <3>1
    <3>4. QED
      BY <2>2, <3>2, <3>3
  <2>3. QED
    BY <2>1, <2>2
<1>7. Len(x \o y) = Len(s) - 1
  BY <1>1, <1>2, <1>3, <1>5
<1>8. QED
  BY <1>4, <1>5, <1>6, <1>7

LEMMA CutOff ==
  ASSUME NEW s \in Seq(Nat), NEW n \in 1 .. Len(s)
  PROVE  /\ SubSeq(s, n + 1, Len(s)) \in Seq(Nat) /\ Len(SubSeq(s, n + 1, Len(s))) = Len(s) - n
         /\ \A k \in 1 .. (Len(s) - n) : SubSeq(s, n + 1, Len(s))[k] = s[k + n]
<1> DEFINE x == SubSeq(s, n + 1, Len(s))
<1>1. Len(s) \in Nat /\ n \in Nat /\ n <= Len(s) /\ \A i \in 1 .. Len(s) : s[i] \in Nat
  OBVIOUS
<1>2. n + 1 \in Int /\ Len(s) \in Int /\ \A i \in (n + 1) .. Len(s) : s[i] \in Nat
  BY <1>1
<1>3. /\ x \in Seq(Nat)
      /\ Len(x) = (IF n + 1 <= Len(s) THEN Len(s) - (n + 1) + 1 ELSE 0)
      /\ \A k \in 1 .. (Len(s) - (n + 1) + 1) : x[k] = s[(n + 1) + k - 1]
  BY <1>2, SubSeqProperties
<1> HIDE DEF x
<1>4. Len(x) = Len(s) - n
  BY <1>1, <1>3
<1>5. \A k \in 1 .. (Len(s) - n) : x[k] = s[k + n]
  <2> TAKE k \in 1 .. (Len(s) - n)
  <2>1. k \in 1 .. (Len(s) - (n + 1) + 1) /\ (n + 1) + k - 1 = k + n
    BY <1>1
  <2>2. QED
    BY <1>3, <2>1
<1>6. QED
  BY <1>3, <1>4, <1>5 DEF x

LEMMA Inserted ==
  ASSUME NEW s \in Seq(Nat), NEW i \in 1 .. Len(s)
  PROVE  /\ InsertAt(s, i, s[i]) \in Seq(Nat) /\ Len(InsertAt(s, i, s[i])) = Len(s) + 1
         /\ InsertAt(s, i, s[i])[i] = s[i] /\ InsertAt(s, i, s[i])[i + 1] = s[i]
<1> DEFINE x == SubSeq(s, 1, i - 1)
           y == SubSeq(s, i, Len(s))
           z == x \o <<s[i]>>
<1>1. Len(s) \in Nat /\ s[i] \in Nat
  OBVIOUS
<1>2. x \in Seq(Nat) /\ Len(x) = i - 1
  BY <1>1
<1>3. y \in Seq(Nat) /\ Len(y) = Len(s) - i + 1 /\ y[1] = s[i]
  BY <1>1
<1>4. InsertAt(s, i, s[i]) = z \o y
  BY DEF InsertAt
<1> HIDE DEF x, y
<1>5. z \in Seq(Nat) /\ Len(z) = i /\ z[i] = s[i]
  BY <1>1, <1>2
<1> HIDE DEF z
<1>6. /\ z \o y \in Seq(Nat) /\ Len(z \o y) = Len(z) + Len(y)
      /\ \A k \in 1 .. (Len(z) + Len(y)) :
           (z \o y)[k] = IF k <= Len(z) THEN z[k] ELSE y[k - Len(z)]
  BY <1>3, <1>5, ConcatProperties
<1>7. /\ Len(z \o y) = Len(s) + 1
      /\ i \in 1 .. (Len(z) + Len(y)) /\ i + 1 \in 1 .. (Len(z) + Len(y))
      /\ i <= Len(z) /\ ~(i + 1 <= Len(z)) /\ (i + 1) - Len(z) = 1
  BY <1>1, <1>3, <1>5, <1>6
<1>8. (z \o y)[i] = z[i] /\ (z \o y)[i + 1] = y[1]
  BY <1>6, <1>7
<1>9. QED
  BY <1>3, <1>4, <1>5, <1>6, <1>7, <1>8
-----------------------------------------------------------------------------
(* The Agent's answer *)

From  == IF session = run THEN cursor ELSE 0
First == IF From + 1 >= Oldest THEN From + 1 ELSE Oldest
End   == IF newest < First + PerAnswer THEN newest ELSE First + PerAnswer - 1

(* The records asked for, those kept and those answered with. *)
LEMMA Pieces ==
  ASSUME LogTypes, ReadUpTo
  PROVE  /\ From \in Nat /\ Oldest \in Nat \ {0} /\ First \in Nat \ {0} /\ End \in Nat
         /\ From + 1 <= First /\ Oldest <= First /\ First - 1 <= End /\ End <= newest
<1>1. From \in Nat /\ From <= newest
  BY DEF LogTypes, ReadUpTo, From
<1>2. Kept \in Nat \ {0} /\ PerAnswer \in Nat \ {0} /\ newest \in Nat
  BY LogAssumption DEF LogTypes
<1>3. Oldest \in Nat \ {0} /\ Oldest <= newest + 1
  BY <1>2 DEF Oldest
<1>4. First \in Nat \ {0} /\ From + 1 <= First /\ Oldest <= First /\ First <= newest + 1
  BY <1>1, <1>2, <1>3 DEF First
<1>5. End \in Nat /\ First - 1 <= End /\ End <= newest
  BY <1>2, <1>4 DEF End
<1>6. QED
  BY <1>1, <1>3, <1>4, <1>5

LEMMA AnswerIs ==
  ASSUME LogTypes, ReadUpTo
  PROVE  Answer = [session |-> run, cursor |-> End, oldest |-> Oldest, newest |-> newest,
                   more |-> End < newest,
                   gap |-> First > From + 1 \/ session \notin {0, run},
                   records |-> [i \in 1 .. (End - First + 1) |-> First + i - 1]]
<1>1. (IF session = run /\ cursor <= newest THEN cursor ELSE 0) = From
  BY DEF ReadUpTo, From
<1>2. (IF End < From THEN From ELSE End) = End
  BY Pieces
<1>3. QED
  BY <1>1, <1>2 DEF Answer, First, End

(* Its records are numbered without a hole, up to its cursor. *)
LEMMA AnswerRecords ==
  ASSUME LogTypes, ReadUpTo
  PROVE  /\ Answer.records \in Seq(Nat) /\ Len(Answer.records) = End - First + 1
         /\ DOMAIN Answer.records = 1 .. Len(Answer.records)
         /\ \A i \in 1 .. Len(Answer.records) :
              /\ Answer.records[i] = First + i - 1
              /\ Answer.records[i] \in First .. End
         /\ Answer.cursor = End /\ Answer.session = run
<1> DEFINE r == [i \in 1 .. (End - First + 1) |-> First + i - 1]
<1>1. First \in Nat \ {0} /\ End \in Nat /\ End - First + 1 \in Nat
  BY Pieces
<1>2. r \in [1 .. (End - First + 1) -> Nat]
  BY <1>1
<1>3. r \in Seq(Nat) /\ Len(r) = End - First + 1
  BY <1>1, <1>2
<1>4. \A i \in 1 .. (End - First + 1) : r[i] = First + i - 1 /\ r[i] \in First .. End
  BY <1>1
<1>5. Answer.records = r /\ Answer.cursor = End /\ Answer.session = run
  BY AnswerIs
<1> HIDE DEF r
<1>6. DOMAIN r = 1 .. Len(r)
  BY <1>2, <1>3
<1>7. QED
  BY <1>3, <1>4, <1>5, <1>6

(* The answer as the Agent gives it is accepted. *)
LEMMA Honest ==
  ASSUME LogTypes, ReadUpTo
  PROVE  HonestAccepted
<1>1. /\ Answer.session = run /\ Answer.cursor = End /\ Answer.oldest = Oldest
      /\ Answer.newest = newest /\ Answer.more = (End < newest)
  BY AnswerIs
<1>2. HeadFits(Answer)
  BY <1>1, Pieces DEF HeadFits, LogTypes
<1> DEFINE r == Answer.records
<1>3. /\ DOMAIN r = 1 .. Len(r) /\ Len(r) = End - First + 1 /\ r \in Seq(Nat)
      /\ \A i \in 1 .. Len(r) : r[i] = First + i - 1 /\ r[i] \in First .. End
  BY AnswerRecords
<1> HIDE DEF r
<1>4. \A i \in DOMAIN r : r[i] \in Oldest .. End /\ r[i] > 0 /\ r[i] <= End
  BY <1>3, Pieces
<1>5. \A i \in DOMAIN r : i > 1 => r[i] = r[i - 1] + 1 /\ r[i] > r[i - 1]
  <2> SUFFICES ASSUME NEW i \in DOMAIN r, i > 1
               PROVE  r[i] = r[i - 1] + 1 /\ r[i] > r[i - 1]
    OBVIOUS
  <2>1. i \in 1 .. Len(r) /\ i - 1 \in 1 .. Len(r) /\ Len(r) \in Nat
    BY <1>3
  <2>2. r[i] = First + i - 1 /\ r[i - 1] = First + (i - 1) - 1
    BY <1>3, <2>1
  <2>3. First \in Int /\ i \in Int
    BY <2>1, Pieces
  <2>4. PICK a \in Int, b \in Int : a = r[i] /\ b = r[i - 1] /\ a = First + i - 1
                                     /\ b = First + (i - 1) - 1
    BY <2>2, <2>3
  <2>5. a = b + 1 /\ a > b
    BY <2>3, <2>4
  <2>6. QED
    BY <2>4, <2>5
<1>6. r # <<>> => Last(r) = End
  <2> SUFFICES ASSUME r # <<>> PROVE r[Len(r)] = End
    BY DEF Last
  <2>0. r \in Seq(Nat)
    BY <1>3
  <2>1. Len(r) \in 1 .. Len(r)
    BY <2>0
  <2>2. r[Len(r)] = First + Len(r) - 1
    BY <1>3, <2>1
  <2>3. QED
    BY <1>3, <2>2, Pieces
<1>7. RecordsFit(Answer) /\ AcceptsText(Answer)
  BY <1>1, <1>4, <1>5, <1>6 DEF RecordsFit, AcceptsText, r
<1>8. QED
  BY <1>2, <1>7 DEF HonestAccepted, Accepts, AcceptsRaw
-----------------------------------------------------------------------------
(* Damaged answers *)

(* Records that are accepted grow, up to the cursor of their answer. *)
LEMMA AcceptedGrows ==
  ASSUME NEW b, Accepts(b), b.records \in Seq(Nat)
  PROVE  \A k \in 1 .. Len(b.records) :
           /\ b.records[k] <= b.cursor
           /\ k > 1 => b.records[k] > b.records[k - 1]
<1> DEFINE r == b.records
<1>1. DOMAIN r = 1 .. Len(r) /\ \A k \in 1 .. Len(r) : r[k] \in Nat
  OBVIOUS
<1>2. SUFFICES ASSUME NEW k \in 1 .. Len(r)
               PROVE  r[k] <= b.cursor /\ (k > 1 => r[k] > r[k - 1])
  OBVIOUS
<1>3. CASE log = "raw"
  <2>1. r[k] \in b.oldest .. b.cursor /\ (k > 1 => r[k] = r[k - 1] + 1)
    BY <1>1, <1>3 DEF Accepts, AcceptsRaw, RecordsFit
  <2>2. k > 1 => r[k - 1] \in Nat
    BY <1>1
  <2>3. QED
    BY <2>1, <2>2
<1>4. CASE log # "raw"
  BY <1>1, <1>4 DEF Accepts, AcceptsText
<1>5. QED
  BY <1>3, <1>4

(* The ways in which an answer arrives. *)
LEMMA Arrivals ==
  ASSUME NEW b \in {Answer} \cup Damaged(Answer)
  PROVE  \/ b = Answer
         \/ \E i \in 2 .. Len(Answer.records) :
              b = [Answer EXCEPT !.records = RemoveAt(Answer.records, i)]
         \/ \E n \in DOMAIN Answer.records :
              b = [Answer EXCEPT !.records = SubSeq(Answer.records, n + 1, Len(Answer.records))]
         \/ b = [Answer EXCEPT !.gap = FALSE]
         \/ \E i \in DOMAIN Answer.records :
              b = [Answer EXCEPT !.records = InsertAt(Answer.records, i, Answer.records[i])]
         \/ b = [Answer EXCEPT !.records = Append(Answer.records, Answer.cursor + 1)]
         \/ /\ Len(Answer.records) > 1
            /\ b = [Answer EXCEPT !.records = Reverse(Answer.records)]
         \/ /\ log # "text"
            /\ b \in {[Answer EXCEPT !.oldest = 0], [Answer EXCEPT !.session = 0],
                      [Answer EXCEPT !.cursor = Answer.newest + 1],
                      [Answer EXCEPT !.more = ~Answer.more]}
BY DEF Damaged

(* With other records an answer keeps its session, cursor and gap. *)
LEMMA WithRecords ==
  ASSUME LogTypes, ReadUpTo, NEW x
  PROVE  /\ [Answer EXCEPT !.records = x].session = run
         /\ [Answer EXCEPT !.records = x].cursor = End
         /\ [Answer EXCEPT !.records = x].gap = Answer.gap
         /\ [Answer EXCEPT !.records = x].records = x
BY AnswerIs

(* One record missing: the sentences that are left are in order, the original *)
(* bytes are refused.                                                             *)
LEMMA OneMissing ==
  ASSUME LogTypes, ReadUpTo, NEW i \in 2 .. Len(Answer.records), NEW b,
         b = [Answer EXCEPT !.records = RemoveAt(Answer.records, i)], Accepts(b)
  PROVE  /\ log # "raw"
         /\ b.session = run /\ b.cursor = End /\ b.gap = Answer.gap
         /\ b.records \in Seq(Nat)
         /\ \A k \in 1 .. Len(b.records) : b.records[k] \in First .. End
<1> DEFINE s == Answer.records
           x == RemoveAt(s, i)
<1>1. /\ s \in Seq(Nat) /\ Len(s) = End - First + 1 /\ i \in 1 .. Len(s) /\ Len(s) \in Nat
      /\ \A k \in 1 .. Len(s) : s[k] = First + k - 1 /\ s[k] \in First .. End
  BY AnswerRecords
<1>2. /\ x \in Seq(Nat) /\ Len(x) = Len(s) - 1
      /\ \A k \in 1 .. (Len(s) - 1) : x[k] = IF k < i THEN s[k] ELSE s[k + 1]
  BY <1>1, Removed
<1>3. b.session = run /\ b.cursor = End /\ b.gap = Answer.gap /\ b.records = x
  BY WithRecords
<1>4. i \in 2 .. Len(s)
  OBVIOUS
<1> HIDE DEF s, x
<1>5. First \in Nat /\ End \in Nat
  BY Pieces
<1>6. Len(s) \in Nat /\ Len(x) = Len(s) - 1 /\ i \in 1 .. Len(s)
  BY <1>1, <1>2
<1>7. \A k \in 1 .. Len(x) : x[k] \in First .. End
  <2> SUFFICES ASSUME NEW k \in 1 .. Len(x) PROVE x[k] \in First .. End
    OBVIOUS
  <2>1. k \in 1 .. Len(s) /\ k + 1 \in 1 .. Len(s) /\ k \in 1 .. (Len(s) - 1)
    BY <1>6
  <2>2. s[k] \in First .. End /\ s[k + 1] \in First .. End
    BY <1>1, <2>1
  <2>3. QED
    BY <1>2, <2>1, <2>2
<1>8. ASSUME log = "raw" PROVE FALSE
  <2>1. DOMAIN x = 1 .. Len(x)
    BY <1>2
  <2>2. /\ \A k \in 1 .. Len(x) : k > 1 => x[k] = x[k - 1] + 1
        /\ x # <<>> => x[Len(x)] = End
    BY <1>3, <1>8, <2>1 DEF Accepts, AcceptsRaw, RecordsFit, Last
  <2>3. i - 1 \in 1 .. (Len(s) - 1) /\ i - 1 < i /\ i - 1 \in 1 .. Len(s)
    BY <1>1, <1>4
  <2>4. x[i - 1] = s[i - 1] /\ s[i - 1] = First + (i - 1) - 1
    BY <1>1, <1>2, <2>3
  <2>5. CASE i < Len(s)
    <3>1. i \in 1 .. (Len(s) - 1) /\ i + 1 \in 1 .. Len(s) /\ ~(i < i) /\ i > 1 /\ i \in 1 .. Len(x)
      BY <1>4, <1>6, <2>5
    <3>2. x[i] = s[i + 1] /\ s[i + 1] = First + (i + 1) - 1
      BY <1>1, <1>2, <3>1
    <3>3. x[i] = x[i - 1] + 1
      BY <2>2, <3>1
    <3>4. First + (i + 1) - 1 = (First + (i - 1) - 1) + 1
      BY <2>4, <3>2, <3>3
    <3>5. QED
      BY <1>5, <3>1, <3>4
  <2>6. CASE ~(i < Len(s))
    <3>1. i = Len(s) /\ Len(x) = i - 1 /\ Len(x) \in 1 .. Len(x)
      BY <1>4, <1>6, <2>6
    <3>2. x # <<>>
      BY <3>1
    <3>3. First + (i - 1) - 1 = End
      BY <2>2, <2>4, <3>1, <3>2
    <3>4. QED
      BY <1>1, <1>5, <3>1, <3>3
  <2>7. QED
    BY <2>5, <2>6
<1>9. QED
  BY <1>2, <1>3, <1>7, <1>8

(* A record repeated, one too many, or records out of place: refused. *)
LEMMA Misplaced ==
  ASSUME LogTypes, ReadUpTo, NEW b, Accepts(b)
  PROVE  /\ \A i \in DOMAIN Answer.records :
              b # [Answer EXCEPT !.records = InsertAt(Answer.records, i, Answer.records[i])]
         /\ b # [Answer EXCEPT !.records = Append(Answer.records, Answer.cursor + 1)]
         /\ Len(Answer.records) > 1 => b # [Answer EXCEPT !.records = Reverse(Answer.records)]
<1> DEFINE s == Answer.records
<1>1. /\ s \in Seq(Nat) /\ Len(s) \in Nat /\ DOMAIN s = 1 .. Len(s)
      /\ \A k \in 1 .. Len(s) : s[k] = First + k - 1 /\ s[k] \in Nat
      /\ Answer.cursor = End
  BY AnswerRecords
<1>2. First \in Nat /\ End \in Nat
  BY Pieces
<1>3. ASSUME NEW i \in DOMAIN s, b = [Answer EXCEPT !.records = InsertAt(s, i, s[i])]
      PROVE  FALSE
  <2> DEFINE x == InsertAt(s, i, s[i])
  <2>1. i \in 1 .. Len(s)
    BY <1>1
  <2>2. x \in Seq(Nat) /\ Len(x) = Len(s) + 1 /\ x[i] = s[i] /\ x[i + 1] = s[i]
    BY <1>1, <2>1, Inserted
  <2>3. b.records = x
    BY <1>3, WithRecords
  <2> HIDE DEF x, s
  <2>4. Len(s) \in Nat /\ Len(x) = Len(s) + 1
    BY <1>1, <2>2
  <2>5. i + 1 \in 1 .. Len(x) /\ i + 1 > 1 /\ (i + 1) - 1 = i
    BY <2>1, <2>4
  <2>6. x[i + 1] > x[i]
    BY <2>2, <2>3, <2>5, AcceptedGrows
  <2>7. s[i] \in Nat
    BY <1>1, <2>1
  <2>8. QED
    BY <2>2, <2>6, <2>7
<1>4. ASSUME b = [Answer EXCEPT !.records = Append(s, Answer.cursor + 1)]
      PROVE  FALSE
  <2> DEFINE x == Append(s, End + 1)
  <2> HIDE DEF s
  <2>1. x \in Seq(Nat) /\ Len(x) = Len(s) + 1 /\ x[Len(s) + 1] = End + 1
    BY <1>1, <1>2
  <2>2. b.records = x /\ b.cursor = End
    BY <1>1, <1>4, WithRecords
  <2> HIDE DEF x
  <2>3. Len(s) + 1 \in 1 .. Len(x)
    BY <1>1, <2>1
  <2>4. x[Len(s) + 1] <= End
    BY <2>1, <2>2, <2>3, AcceptedGrows
  <2>5. QED
    BY <1>2, <2>1, <2>4
<1>5. ASSUME Len(s) > 1, b = [Answer EXCEPT !.records = Reverse(s)]
      PROVE  FALSE
  <2> DEFINE x == Reverse(s)
  <2> HIDE DEF s
  <2>1. /\ x = [k \in 1 .. Len(s) |-> s[(Len(s) - k) + 1]]
        /\ \A k \in 1 .. Len(s) : (Len(s) - k) + 1 \in 1 .. Len(s)
    BY <1>1 DEF Reverse
  <2>2. x \in [1 .. Len(s) -> Nat]
    BY <1>1, <2>1
  <2>3. x \in Seq(Nat) /\ Len(x) = Len(s)
    BY <1>1, <2>2
  <2>4. 1 \in 1 .. Len(s) /\ 2 \in 1 .. Len(s) /\ Len(s) - 1 \in 1 .. Len(s)
        /\ (Len(s) - 1) + 1 = Len(s) /\ (Len(s) - 2) + 1 = Len(s) - 1 /\ Len(s) \in 1 .. Len(s)
    BY <1>1, <1>5
  <2>5. x[1] = s[Len(s)] /\ x[2] = s[Len(s) - 1]
    BY <2>1, <2>4
  <2>6. s[Len(s)] = First + Len(s) - 1 /\ s[Len(s) - 1] = First + (Len(s) - 1) - 1
    BY <1>1, <2>4
  <2>7. b.records = x
    BY <1>5, WithRecords
  <2> HIDE DEF x
  <2>8. x[2] > x[1]
    <3>1. 2 \in 1 .. Len(x) /\ 2 > 1 /\ 2 - 1 = 1
      BY <2>3, <2>4
    <3>2. QED
      BY <2>3, <2>7, <3>1, AcceptedGrows
  <2>9. QED
    BY <1>1, <1>2, <2>5, <2>6, <2>8
<1>6. QED
  BY <1>3, <1>4, <1>5
(* A number of the head wrong: the reader of the original bytes refuses it. *)
LEMMA WrongHead ==
  ASSUME LogTypes, ReadUpTo, log # "text", NEW b, Accepts(b)
  PROVE  b \notin {[Answer EXCEPT !.oldest = 0], [Answer EXCEPT !.session = 0],
                   [Answer EXCEPT !.cursor = Answer.newest + 1],
                   [Answer EXCEPT !.more = ~Answer.more]}
<1>1. HeadFits(b)
  BY DEF Accepts, AcceptsRaw, LogTypes
<1>2. newest \in Nat
  BY DEF LogTypes
<1>3. /\ [Answer EXCEPT !.oldest = 0].oldest = 0
      /\ [Answer EXCEPT !.session = 0].session = 0
      /\ [Answer EXCEPT !.cursor = Answer.newest + 1].cursor = newest + 1
      /\ [Answer EXCEPT !.cursor = Answer.newest + 1].newest = newest
      /\ Answer.more = (End < newest)
      /\ \A v : /\ [Answer EXCEPT !.more = v].cursor = End
                /\ [Answer EXCEPT !.more = v].newest = newest
                /\ [Answer EXCEPT !.more = v].more = v
  BY AnswerIs
<1>4. ~(newest + 1 <= newest)
  BY <1>2
<1>5. b # [Answer EXCEPT !.oldest = 0] /\ b # [Answer EXCEPT !.session = 0]
  BY <1>1, <1>3 DEF HeadFits
<1>6. b # [Answer EXCEPT !.cursor = Answer.newest + 1]
  BY <1>1, <1>3, <1>4 DEF HeadFits
<1>7. b # [Answer EXCEPT !.more = ~Answer.more]
  <2> SUFFICES ASSUME b = [Answer EXCEPT !.more = ~Answer.more] PROVE FALSE
    OBVIOUS
  <2>1. b.more = (b.cursor < b.newest)
    BY <1>1 DEF HeadFits
  <2>2. b.more = ~Answer.more /\ b.cursor = End /\ b.newest = newest
    BY <1>3, Zenon
  <2>3. (End < newest) = ~(End < newest)
    BY <1>3, <2>1, <2>2, Zenon
  <2>4. QED
    BY <2>3
<1>8. QED
  BY <1>5, <1>6, <1>7

(* The first n records cut off: what is left is the end of the answer. *)
LEMMA FirstMissing ==
  ASSUME LogTypes, ReadUpTo, NEW n \in DOMAIN Answer.records, NEW b,
         b = [Answer EXCEPT !.records = SubSeq(Answer.records, n + 1, Len(Answer.records))]
  PROVE  /\ b.session = run /\ b.cursor = End
         /\ b.records \in Seq(Nat)
         /\ \A k \in 1 .. Len(b.records) :
              b.records[k] = End - Len(b.records) + k /\ b.records[k] \in First .. End
         /\ Beheaded(b)
<1> DEFINE s == Answer.records
           x == SubSeq(s, n + 1, Len(s))
<1>1. /\ s \in Seq(Nat) /\ Len(s) \in Nat /\ Len(s) = End - First + 1 /\ DOMAIN s = 1 .. Len(s)
      /\ \A k \in 1 .. Len(s) : s[k] = First + k - 1 /\ s[k] \in First .. End
  BY AnswerRecords
<1>2. b.session = run /\ b.cursor = End /\ b.records = x
  BY WithRecords
<1>3. n \in 1 .. Len(s)
  BY <1>1
<1>8. First \in Nat /\ End \in Nat
  BY Pieces
<1>10. s = Answer.records
  OBVIOUS
<1> HIDE DEF s
<1>4. /\ x \in Seq(Nat) /\ Len(x) = Len(s) - n
      /\ \A k \in 1 .. (Len(s) - n) : x[k] = s[k + n]
  BY <1>1, <1>3, CutOff
<1> HIDE DEF x
<1>9. s # <<>> /\ (x = <<>> \/ Head(x) # Head(s)) => Beheaded(b)
  BY <1>2, <1>10, Zenon DEF Beheaded
<1>5. Beheaded(b)
  <2>1. s # <<>> /\ 1 \in 1 .. Len(s)
    BY <1>1, <1>3
  <2>2. CASE n = Len(s)
    <3>1. x = <<>>
      BY <1>1, <1>4, <2>2, EmptySeq
    <3>2. QED
      BY <1>9, <2>1, <3>1
  <2>3. CASE n # Len(s)
    <3>1. 1 \in 1 .. (Len(s) - n) /\ 1 + n \in 1 .. Len(s)
      BY <1>1, <1>3, <2>3
    <3>2. x[1] = s[1 + n] /\ s[1 + n] = First + (1 + n) - 1 /\ s[1] = First + 1 - 1
      BY <1>1, <1>4, <2>1, <3>1
    <3>3. First + (1 + n) - 1 # First + 1 - 1
      BY <1>3, <1>8
    <3>4. Head(x) = x[1] /\ Head(s) = s[1]
      BY DEF Head
    <3>5. QED
      BY <1>9, <2>1, <3>2, <3>3, <3>4
  <2>4. QED
    BY <2>2, <2>3
<1>6. ASSUME NEW k \in 1 .. Len(x)
      PROVE  x[k] = End - Len(x) + k /\ x[k] \in First .. End
  <2>1. k \in 1 .. (Len(s) - n) /\ k + n \in 1 .. Len(s)
    BY <1>1, <1>3, <1>4
  <2>2. x[k] = s[k + n] /\ s[k + n] = First + (k + n) - 1 /\ s[k + n] \in First .. End
    BY <1>1, <1>4, <2>1
  <2>3. Len(s) = End - First + 1 /\ Len(x) = Len(s) - n
    BY <1>1, <1>4
  <2>4. PICK l \in Nat, m \in Int : l = Len(s) /\ m = Len(x)
    BY <1>1, <2>3
  <2>5. l = End - First + 1 /\ m = l - n
    BY <2>3, <2>4
  <2>6. First + (k + n) - 1 = End - m + k
    <3>1. n \in Int /\ k \in Int
      BY <1>3
    <3>2. QED
      BY <1>8, <2>5, <3>1, SMTT(60)
  <2>7. QED
    BY <2>2, <2>4, <2>6
<1>7. QED
  BY <1>2, <1>4, <1>5, <1>6

(* What is accepted: of the Agent's original bytes the end of its answer, marked if *)
(* it is not all of it; of the sentences perhaps less, in order.                       *)
LEMMA Accepted ==
  ASSUME LogTypes, ReadUpTo, NEW b \in {Answer} \cup Damaged(Answer), Accepts(b)
  PROVE  /\ b.session = run /\ b.cursor = End
         /\ b.records \in Seq(Nat)
         /\ \A k \in 1 .. Len(b.records) : b.records[k] \in First .. End
         /\ \A i, j \in 1 .. Len(b.records) : i < j => b.records[i] < b.records[j]
         /\ log = "raw" =>
              /\ \A k \in 1 .. Len(b.records) : b.records[k] = End - Len(b.records) + k
              /\ Len(b.records) = End - First + 1 \/ Beheaded(b)
<1>1. ASSUME NEW r, r = Answer.records, b.records = r, b.session = run, b.cursor = End
      PROVE  /\ b.records \in Seq(Nat)
             /\ \A k \in 1 .. Len(b.records) : b.records[k] \in First .. End
             /\ \A k \in 1 .. Len(b.records) : b.records[k] = End - Len(b.records) + k
             /\ Len(b.records) = End - First + 1
  <2>1. /\ r \in Seq(Nat) /\ Len(r) = End - First + 1
        /\ \A k \in 1 .. Len(r) : r[k] = First + k - 1 /\ r[k] \in First .. End
    BY <1>1, AnswerRecords
  <2>2. \A k \in 1 .. Len(r) : r[k] = End - Len(r) + k
    BY <2>1, Pieces
  <2>3. QED
    BY <1>1, <2>1, <2>2
<1>2. /\ b.session = run /\ b.cursor = End
      /\ b.records \in Seq(Nat)
      /\ \A k \in 1 .. Len(b.records) : b.records[k] \in First .. End
      /\ log = "raw" =>
           /\ \A k \in 1 .. Len(b.records) : b.records[k] = End - Len(b.records) + k
           /\ Len(b.records) = End - First + 1 \/ Beheaded(b)
  <2>1. CASE b = Answer
    <3>1. b.records = Answer.records /\ b.session = run /\ b.cursor = End
      BY <2>1, AnswerRecords
    <3>2. QED
      BY <1>1, <3>1
  <2>2. CASE b = [Answer EXCEPT !.gap = FALSE]
    <3>1. b.records = Answer.records /\ b.session = run /\ b.cursor = End
      BY <2>2, AnswerIs
    <3>2. QED
      BY <1>1, <3>1
  <2>3. CASE \E i \in 2 .. Len(Answer.records) :
               b = [Answer EXCEPT !.records = RemoveAt(Answer.records, i)]
    BY <2>3, OneMissing
  <2>4. CASE \E n \in DOMAIN Answer.records :
               b = [Answer EXCEPT !.records = SubSeq(Answer.records, n + 1, Len(Answer.records))]
    BY <2>4, FirstMissing
  <2>5. CASE \/ \E i \in DOMAIN Answer.records :
                  b = [Answer EXCEPT !.records = InsertAt(Answer.records, i, Answer.records[i])]
             \/ b = [Answer EXCEPT !.records = Append(Answer.records, Answer.cursor + 1)]
             \/ /\ Len(Answer.records) > 1
                /\ b = [Answer EXCEPT !.records = Reverse(Answer.records)]
    BY <2>5, Misplaced
  <2>6. CASE /\ log # "text"
             /\ b \in {[Answer EXCEPT !.oldest = 0], [Answer EXCEPT !.session = 0],
                       [Answer EXCEPT !.cursor = Answer.newest + 1],
                       [Answer EXCEPT !.more = ~Answer.more]}
    BY <2>6, WrongHead
  <2>7. QED
    BY <2>1, <2>2, <2>3, <2>4, <2>5, <2>6, Arrivals
<1>3. \A k \in 2 .. Len(b.records) : b.records[k] > b.records[k - 1]
  <2> SUFFICES ASSUME NEW k \in 2 .. Len(b.records)
               PROVE  b.records[k] > b.records[k - 1]
    OBVIOUS
  <2>1. k \in 1 .. Len(b.records) /\ k > 1
    BY <1>2
  <2>2. QED
    BY <1>2, <2>1, AcceptedGrows
<1>4. \A i, j \in 1 .. Len(b.records) : i < j => b.records[i] < b.records[j]
  BY <1>2, <1>3, Growing
<1>5. QED
  BY <1>1, <1>2, <1>4
-----------------------------------------------------------------------------
(* A query *)

(* Every entry after a query is one that was there, the mark of a gap, or a record *)
(* of the answer.                                                                       *)
LEMMA Places ==
  ASSUME NEW n \in Nat, NEW p \in {0, 1}, NEW l \in Nat, NEW k \in 1 .. (n + p + l)
  PROVE  \/ k \in 1 .. n
         \/ p = 1 /\ k = n + 1
         \/ \E i \in 1 .. l : k = n + p + i
<1>1. k > n + p => k - (n + p) \in 1 .. l /\ k = n + p + (k - (n + p))
  OBVIOUS
<1>2. QED
  BY <1>1
LEMMA QueryPreserves ==
  ASSUME IInv, Query
  PROVE  IInv'
<1> USE DEF IInv
<1>1. PICK b \in {Answer} \cup Damaged(Answer) :
        /\ Accepts(b)
        /\ cursor' = b.cursor /\ session' = b.session
        /\ entries' = entries \o (IF b.gap THEN <<Lost>> ELSE IF Beheaded(b) THEN <<Headless>> ELSE <<>>)
                              \o [i \in DOMAIN b.records |-> [session |-> run, sequence |-> b.records[i]]]
  BY DEF Query
<1>2. log' = log /\ run' = run /\ newest' = newest
  BY DEF Query
<1>3. run \in Nat \ {0} /\ newest \in Nat /\ cursor \in Nat /\ session \in 0 .. run
      /\ entries \in Seq(Entry)
  BY DEF LogTypes
<1>4. PICK r \in Seq(Nat) : r = b.records
  BY <1>1, Accepted
<1>5. PICK q \in Seq(Entry) :
        q = IF b.gap THEN <<Lost>> ELSE IF Beheaded(b) THEN <<Headless>> ELSE <<>>
  <2>1. Lost \in Entry /\ Headless \in Entry
    BY DEF Lost, Headless, Entry
  <2>2. <<>> \in Seq(Entry) /\ <<Lost>> \in Seq(Entry) /\ <<Headless>> \in Seq(Entry)
    BY <2>1
  <2>3. QED
    BY <2>2
<1>6. PICK f : f = entries'
  OBVIOUS
<1>7. PICK e \in Seq(Entry) : e = entries
  BY <1>3
<1>8. PICK n \in Nat, p \in {0, 1}, l \in Nat :
        /\ n = Len(e) /\ p = Len(q) /\ l = Len(r)
        /\ p = 0 => ~b.gap /\ ~Beheaded(b)
        /\ p = 1 => q[1].session = 0
  <2>1. Len(e) \in Nat /\ Len(r) \in Nat
    OBVIOUS
  <2>2. /\ Len(<<>>) = 0 /\ Len(<<Lost>>) = 1 /\ Len(<<Headless>>) = 1
        /\ <<Lost>>[1] = Lost /\ <<Headless>>[1] = Headless
        /\ Lost.session = 0 /\ Headless.session = 0
    BY DEF Lost, Headless
  <2>3. Len(q) \in {0, 1} /\ (Len(q) = 0 => ~b.gap /\ ~Beheaded(b)) /\ (Len(q) = 1 => q[1].session = 0)
    <3>1. CASE b.gap
      BY <1>5, <2>2, <3>1
    <3>2. CASE ~b.gap /\ Beheaded(b)
      BY <1>5, <2>2, <3>2
    <3>3. CASE ~b.gap /\ ~Beheaded(b)
      BY <1>5, <2>2, <3>3
    <3>4. QED
      BY <3>1, <3>2, <3>3
  <2>4. QED
    BY <2>1, <2>3
(* what the answer is *)
<1>9. /\ cursor' = End /\ session' = run
      /\ \A k \in 1 .. l : r[k] \in First .. End
      /\ \A i, j \in 1 .. l : i < j => r[i] < r[j]
  BY <1>1, <1>4, <1>8, Accepted
<1>10. p = 0 => ~(First > From + 1) /\ session \in {0, run}
  <2> SUFFICES ASSUME p = 0 PROVE ~(First > From + 1) /\ session \in {0, run}
    OBVIOUS
  <2>1. Answer.gap = (First > From + 1 \/ session \notin {0, run})
    BY AnswerIs
  <2>2. ~Answer.gap
    BY <1>8 DEF Beheaded
  <2>3. QED
    BY <2>1, <2>2, Zenon
<1>11. log = "raw" => (\A k \in 1 .. l : r[k] = End - l + k) /\ (p = 0 => l = End - First + 1)
  BY <1>1, <1>4, <1>8, Accepted
<1>12. /\ From \in Nat /\ First \in Nat \ {0} /\ End \in Nat
       /\ From + 1 <= First /\ First - 1 <= End /\ End <= newest
  BY Pieces
(* what has been read *)
<1>13. /\ f \in Seq(Entry) /\ Len(f) = n + p + l
       /\ \A k \in 1 .. n : f[k] = e[k]
       /\ p = 1 => f[n + 1].session = 0
       /\ \A i \in 1 .. l : f[n + p + i] = [session |-> run, sequence |-> r[i]]
  <2> DEFINE t == [i \in DOMAIN r |-> [session |-> run, sequence |-> r[i]]]
             d == e \o q
  <2>1. DOMAIN r = 1 .. l /\ \A i \in 1 .. l : r[i] \in Nat
    BY <1>8
  <2>2. \A i \in 1 .. l : t[i] = [session |-> run, sequence |-> r[i]]
    BY <2>1
  <2>3. t \in [1 .. l -> Entry]
    BY <1>3, <2>1 DEF Entry
  <2>4. t \in Seq(Entry) /\ Len(t) = l
    BY <2>3
  <2>5. /\ d \in Seq(Entry) /\ Len(d) = Len(e) + Len(q)
        /\ \A i \in 1 .. (Len(e) + Len(q)) : d[i] = IF i <= Len(e) THEN e[i] ELSE q[i - Len(e)]
    BY ConcatProperties
  <2>6. f = d \o t
    BY <1>1, <1>4, <1>5, <1>6, <1>7
  <2> HIDE DEF t, d
  <2>7. /\ f \in Seq(Entry) /\ Len(f) = Len(d) + Len(t)
        /\ \A i \in 1 .. (Len(d) + Len(t)) : f[i] = IF i <= Len(d) THEN d[i] ELSE t[i - Len(d)]
    <3>1. d \in Seq(Entry) /\ t \in Seq(Entry)
      BY <2>4, <2>5, Zenon
    <3>2. /\ d \o t \in Seq(Entry) /\ Len(d \o t) = Len(d) + Len(t)
          /\ \A i \in 1 .. (Len(d) + Len(t)) :
               (d \o t)[i] = IF i <= Len(d) THEN d[i] ELSE t[i - Len(d)]
      BY <3>1, ConcatProperties, Zenon
    <3>3. QED
      BY <2>6, <3>2, Zenon
  <2>8. n = Len(e) /\ p = Len(q) /\ Len(d) = n + p /\ (p = 1 => q[1].session = 0)
    BY <1>8, <2>5
  <2>9. Len(f) = n + p + l
    BY <2>4, <2>7, <2>8
  <2>10. ASSUME NEW k \in 1 .. n PROVE f[k] = e[k]
    <3>1. k \in 1 .. (n + p + l) /\ k \in 1 .. (n + p) /\ k <= n + p /\ k <= n
      OBVIOUS
    <3>2. f[k] = d[k] /\ d[k] = e[k]
      BY <2>4, <2>5, <2>7, <2>8, <3>1
    <3>3. QED
      BY <3>2
  <2>11. ASSUME p = 1 PROVE f[n + 1].session = 0
    <3>1. PICK k \in Nat : k = n + 1
      OBVIOUS
    <3>2. /\ k \in 1 .. (n + p + l) /\ k \in 1 .. (n + p) /\ k <= n + p /\ ~(k <= n)
          /\ k - n = 1
      BY <2>11, <3>1
    <3>3. f[k] = d[k]
      BY <2>4, <2>7, <2>8, <3>2
    <3>4. d[k] = q[k - n]
      BY <2>5, <2>8, <3>2
    <3>5. f[k].session = 0
      BY <2>8, <2>11, <3>2, <3>3, <3>4
    <3>6. QED
      BY <3>1, <3>5
  <2>12. ASSUME NEW i \in 1 .. l PROVE f[n + p + i] = [session |-> run, sequence |-> r[i]]
    <3>1. PICK k \in Nat : k = n + p + i
      OBVIOUS
    <3>2. k \in 1 .. (n + p + l) /\ ~(k <= n + p) /\ k - (n + p) = i
      BY <3>1
    <3>3. f[k] = t[k - (n + p)]
      BY <2>4, <2>7, <2>8, <3>2
    <3>4. f[k] = [session |-> run, sequence |-> r[i]]
      BY <2>2, <3>2, <3>3
    <3>5. QED
      BY <3>1, <3>4
  <2>13. QED
    BY <2>7, <2>9, <2>10, <2>11, <2>12
<1>14. \A k \in 1 .. (n + p + l) : \/ k \in 1 .. n
                                   \/ p = 1 /\ k = n + 1
                                   \/ \E i \in 1 .. l : k = n + p + i
  BY Places
<1>15. \A k \in 1 .. n : e[k].session # 0 =>
         e[k].session \in 1 .. run /\ (e[k].session = run => session = run /\ e[k].sequence <= From)
  <2> SUFFICES ASSUME NEW k \in 1 .. n, e[k].session # 0
               PROVE  e[k].session \in 1 .. run
                      /\ (e[k].session = run => session = run /\ e[k].sequence <= From)
    OBVIOUS
  <2>1. e[k].session \in 1 .. session /\ (e[k].session = session => e[k].sequence <= cursor)
    BY <1>7, <1>8 DEF ReadUpTo
  <2>2. e[k].session \in 1 .. run /\ (e[k].session = run => session = run)
    BY <1>3, <2>1
  <2>3. session = run => From = cursor
    BY DEF From
  <2>4. QED
    BY <2>1, <2>2, <2>3
<1>16. \A i \in 1 .. l : [session |-> run, sequence |-> r[i]].session # 0
  BY <1>3
(* ReadUpTo *)
<1>17. \A k \in 1 .. Len(f) : f[k].session # 0 =>
         f[k].session \in 1 .. run /\ (f[k].session = run => f[k].sequence <= End)
  <2> SUFFICES ASSUME NEW k \in 1 .. (n + p + l), f[k].session # 0
               PROVE  f[k].session \in 1 .. run /\ (f[k].session = run => f[k].sequence <= End)
    BY <1>13
  <2>1. CASE k \in 1 .. n
    <3>1. f[k] = e[k] /\ e[k] \in Entry
      BY <1>7, <1>8, <1>13, <2>1
    <3>2. e[k].session \in 1 .. run /\ (e[k].session = run => e[k].sequence <= From)
      BY <1>15, <2>1, <3>1
    <3>3. e[k].sequence \in Nat /\ From <= End
      BY <1>12, <3>1 DEF Entry
    <3>4. QED
      BY <1>12, <3>1, <3>2, <3>3
  <2>2. CASE p = 1 /\ k = n + 1
    BY <1>13, <2>2
  <2>3. ASSUME NEW i \in 1 .. l, k = n + p + i
        PROVE  f[k].session \in 1 .. run /\ (f[k].session = run => f[k].sequence <= End)
    <3>1. f[k] = [session |-> run, sequence |-> r[i]] /\ r[i] \in First .. End
      BY <1>9, <1>13, <2>3
    <3>2. QED
      BY <1>3, <1>12, <3>1
  <2>4. QED
    BY <1>14, <2>1, <2>2, <2>3
<1>18. ASSUME log = "raw", f # <<>>, f[Len(f)].session # 0
       PROVE  f[Len(f)] = [session |-> run, sequence |-> End]
  <2>1. CASE l > 0
    <3>1. l \in 1 .. l /\ Len(f) = n + p + l
      BY <1>13, <2>1
    <3>2. f[Len(f)] = [session |-> run, sequence |-> r[l]]
      BY <1>13, <3>1
    <3>3. r[l] = End - l + l
      BY <1>11, <1>18, <3>1
    <3>4. r[l] = End
      BY <1>12, <3>3
    <3>5. QED
      BY <3>2, <3>4
  <2>2. CASE l = 0
    <3>1. p = 0
      BY <1>13, <1>18, <2>2
    <3>2. Len(f) = n /\ n # 0
      <4>1. Len(f) = n
        BY <1>13, <2>2, <3>1
      <4>2. Len(f) # 0
        BY <1>13, <1>18, EmptySeq
      <4>3. QED
        BY <4>1, <4>2
    <3>3. n \in 1 .. n /\ f[n] = e[n] /\ e # <<>>
      BY <1>8, <1>13, <3>2
    <3>4. e[n] = [session |-> session, sequence |-> cursor] /\ session # 0
      BY <1>7, <1>8, <1>18, <3>2, <3>3 DEF ReadUpTo
    <3>5. session = run /\ From = cursor /\ First = From + 1 /\ End = First - 1
      BY <1>8, <1>10, <1>11, <1>12, <1>18, <2>2, <3>1, <3>4 DEF From
    <3>6. End = cursor
      BY <1>3, <3>5
    <3>7. QED
      BY <3>2, <3>3, <3>4, <3>5, <3>6
  <2>3. QED
    BY <2>1, <2>2
<1>19. ReadUpTo'
  <2>1. session' = run' => cursor' <= newest'
    BY <1>2, <1>9, <1>12
  <2>2. session' # 0
    BY <1>3, <1>9
  <2>3. QED
    BY <1>2, <1>6, <1>9, <1>17, <1>18, <2>1, <2>2 DEF ReadUpTo
<1>20. LogTypes'
  BY <1>2, <1>3, <1>6, <1>9, <1>12, <1>13 DEF LogTypes<1>21. \A i, j \in 1 .. Len(f) : i < j /\ f[i].session = f[j].session /\ f[i].session # 0 =>
         f[i].sequence < f[j].sequence
  <2> SUFFICES ASSUME NEW i \in 1 .. (n + p + l), NEW j \in 1 .. (n + p + l),
                      i < j, f[i].session = f[j].session, f[i].session # 0
               PROVE  f[i].sequence < f[j].sequence
    BY <1>13
  <2>1. CASE i \in 1 .. n
    <3>1. f[i] = e[i] /\ e[i] \in Entry /\ e[i].sequence \in Nat
      <4>1. f[i] = e[i]
        BY <1>13, <2>1
      <4>2. e[i] \in Entry
        BY <1>8, <2>1
      <4>3. QED
        BY <4>1, <4>2 DEF Entry
    <3>2. /\ e[i].session \in 1 .. run
          /\ e[i].session = run => e[i].sequence <= From
      BY <1>15, <2>1, <3>1
    <3>3. CASE j \in 1 .. n
      <4>1. f[j] = e[j]
        BY <1>13, <3>3
      <4>2. e[i].sequence < e[j].sequence
        BY <1>7, <1>8, <2>1, <3>1, <3>3, <4>1 DEF InOrder
      <4>3. QED
        BY <3>1, <4>1, <4>2
    <3>4. CASE p = 1 /\ j = n + 1
      BY <1>3, <1>13, <1>16, <3>1, <3>2, <3>4
    <3>5. ASSUME NEW y \in 1 .. l, j = n + p + y
          PROVE  f[i].sequence < f[j].sequence
      <4>1. f[j] = [session |-> run, sequence |-> r[y]] /\ r[y] \in First .. End
        BY <1>9, <1>13, <3>5
      <4>2. e[i].sequence <= From
        <5>1. f[j].session = run
          BY <4>1
        <5>2. QED
          BY <3>1, <3>2, <5>1, Zenon
      <4>3. e[i].sequence < r[y]
        BY <1>12, <3>1, <4>1, <4>2, SMTT(40)
      <4>4. QED
        BY <3>1, <4>1, <4>3
    <3>6. QED
      BY <1>14, <3>3, <3>4, <3>5
  <2>2. CASE p = 1 /\ i = n + 1
    BY <1>13, <2>2
  <2>3. ASSUME NEW x \in 1 .. l, i = n + p + x
        PROVE  f[i].sequence < f[j].sequence
    <3>1. j \notin 1 .. n /\ ~(p = 1 /\ j = n + 1)
      BY <2>3
    <3>2. PICK y \in 1 .. l : j = n + p + y
      BY <1>14, <3>1
    <3>3. x < y
      BY <2>3, <3>2
    <3>4. f[i].sequence = r[x] /\ f[j].sequence = r[y]
      <4>1. f[i] = [session |-> run, sequence |-> r[x]] /\ f[j] = [session |-> run, sequence |-> r[y]]
        BY <1>13, <2>3, <3>2
      <4>2. QED
        BY <4>1
    <3>5. QED
      BY <1>9, <3>3, <3>4
  <2>4. QED
    BY <1>14, <2>1, <2>2, <2>3
<1>22. ASSUME log = "raw", NEW i \in 2 .. Len(f), f[i].session # 0, f[i - 1].session # 0
       PROVE  f[i].session = f[i - 1].session /\ f[i].sequence = f[i - 1].sequence + 1
  <2>1. i \in 1 .. (n + p + l) /\ i \in 2 .. (n + p + l)
    BY <1>13, <1>22
  <2>2. CASE i \in 1 .. n
    <3>1. i - 1 \in 1 .. n /\ i \in 2 .. n
      BY <2>1, <2>2
    <3>2. f[i] = e[i] /\ f[i - 1] = e[i - 1]
      BY <1>13, <2>2, <3>1
    <3>3. QED
      BY <1>7, <1>8, <1>22, <3>1, <3>2 DEF NoHole
  <2>3. CASE p = 1 /\ i = n + 1
    BY <1>13, <1>22, <2>3
  <2>4. ASSUME NEW x \in 1 .. l, i = n + p + x
        PROVE  f[i].session = f[i - 1].session /\ f[i].sequence = f[i - 1].sequence + 1
    <3>1. f[i] = [session |-> run, sequence |-> r[x]] /\ r[x] = End - l + x
      BY <1>11, <1>13, <1>22, <2>4
    <3>2. CASE x = 1
      <4>1. p = 0
        <5>1. p = 1 => i - 1 = n + 1
          BY <2>4, <3>2
        <5>2. QED
          BY <1>13, <1>22, <5>1
      <4>2. i - 1 = n /\ n \in 1 .. n
        BY <2>1, <2>4, <3>2, <4>1
      <4>3. f[i - 1] = e[n] /\ e # <<>>
        BY <1>8, <1>13, <4>2
      <4>4. e[n] = [session |-> session, sequence |-> cursor] /\ session # 0
        BY <1>7, <1>8, <1>22, <4>3 DEF ReadUpTo
      <4>5. session = run /\ From = cursor /\ First = From + 1
        BY <1>8, <1>10, <1>12, <4>1, <4>4, SMTT(40) DEF From
      <4>6. r[x] = cursor + 1
        <5>1. l = End - First + 1 /\ r[x] = End - l + 1
          BY <1>11, <1>22, <3>1, <3>2, <4>1
        <5>2. QED
          BY <1>3, <1>12, <4>5, <5>1
      <4>7. QED
        BY <3>1, <4>3, <4>4, <4>5, <4>6
    <3>3. CASE x # 1
      <4>1. x - 1 \in 1 .. l /\ i - 1 = n + p + (x - 1)
        BY <2>4, <3>3
      <4>2. f[i - 1] = [session |-> run, sequence |-> r[x - 1]] /\ r[x - 1] = End - l + (x - 1)
        BY <1>11, <1>13, <1>22, <4>1
      <4>3. End - l + x = (End - l + (x - 1)) + 1
        BY <1>12
      <4>4. QED
        BY <3>1, <4>2, <4>3
    <3>4. QED
      BY <3>2, <3>3
  <2>5. QED
    BY <1>14, <2>1, <2>2, <2>3, <2>4
<1>23. InOrder' /\ NoHole'
  BY <1>2, <1>6, <1>21, <1>22 DEF InOrder, NoHole
<1>24. QED
  BY <1>19, <1>20, <1>23

-----------------------------------------------------------------------------
(* The specification *)

LEMMA RawInvariant == RawSpec => []IInv
<1>1. RawInit => IInv
  <2> SUFFICES ASSUME RawInit PROVE IInv
    OBVIOUS
  <2>1. entries = <<>> /\ Len(entries) = 0 /\ run = 1 /\ newest = 0 /\ cursor = 0 /\ session = 0
    BY DEF RawInit
  <2>2. log \in {"raw", "text"}
    BY LogAssumption DEF RawInit
  <2>3. <<>> \in Seq(Entry)
    OBVIOUS
  <2>4. QED
    BY <2>1, <2>2, <2>3 DEF IInv, LogTypes, ReadUpTo, InOrder, NoHole
<1>2. IInv /\ [RawNext]_rawVars => IInv'
  <2> SUFFICES ASSUME IInv, [RawNext]_rawVars PROVE IInv'
    OBVIOUS
  <2>1. CASE Query
    BY <2>1, QueryPreserves
  <2>2. CASE Record
    <3>1. newest' = newest + 1 /\ log' = log /\ run' = run /\ cursor' = cursor
          /\ session' = session /\ entries' = entries
      BY <2>2 DEF Record
    <3>2. LogTypes'
      BY <3>1 DEF IInv, LogTypes
    <3>3. ReadUpTo'
      BY <3>1 DEF IInv, LogTypes, ReadUpTo
    <3>4. QED
      BY <3>1, <3>2, <3>3 DEF IInv, InOrder, NoHole
  <2>3. CASE Restart
    <3>1. run' = run + 1 /\ newest' = 0 /\ log' = log /\ cursor' = cursor
          /\ session' = session /\ entries' = entries
      BY <2>3 DEF Restart
    <3>2. LogTypes'
      BY <3>1 DEF IInv, LogTypes
    <3>3. session' # run'
      BY <3>1 DEF IInv, LogTypes
    <3>4. ReadUpTo'
      BY <3>1, <3>3 DEF IInv, ReadUpTo
    <3>5. QED
      BY <3>1, <3>2, <3>4 DEF IInv, InOrder, NoHole
  <2>4. CASE UNCHANGED rawVars
    BY <2>4 DEF IInv, LogTypes, ReadUpTo, InOrder, NoHole, rawVars
  <2>5. QED
    BY <2>1, <2>2, <2>3, <2>4 DEF RawNext
<1>3. QED
  BY <1>1, <1>2, PTL DEF RawSpec

(* The Agent's answers are accepted by parseGnssRaw and parseGnssObservations, *)
(* however many records it keeps and answers with, whatever it has overwritten,    *)
(* after any number of restarts.                                                        *)
THEOREM HonestAnswersAccepted == RawSpec => []HonestAccepted
<1>1. IInv => HonestAccepted
  BY Honest DEF IInv
<1>2. QED
  BY <1>1, RawInvariant, PTL

(* Nothing read twice or out of order within a session, and no hole in the *)
(* original bytes that no gap announces, for every log and whatever is damaged. *)
THEOREM LossesAreAtHeads == RawSpec => []LostOnlyAtHeads
<1>1. IInv => LostOnlyAtHeads
  <2> SUFFICES ASSUME IInv PROVE LostOnlyAtHeads
    OBVIOUS
  <2>1. DOMAIN entries = 1 .. Len(entries)
    BY DEF IInv, LogTypes
  <2>2. QED
    BY <2>1 DEF IInv, InOrder, NoHole, LostOnlyAtHeads
<1>2. QED
  BY <1>1, RawInvariant, PTL
=============================================================================
