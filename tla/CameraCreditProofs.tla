------------------------- MODULE CameraCreditProofs -------------------------
(***************************************************************************)
(* Flow control end to end, for every number of slots, window and length   *)
(* of the run, as long as no piece arrives for a slot that its frame's     *)
(* metadata leaves out.  CreditInv relates the four places a frame can be  *)
(* in: the Agent's books, the link, the assembler, the acknowledgements.   *)
(***************************************************************************)
EXTENDS CameraCredit, CameraAssemblerProofs, SequenceTheorems

(* The inverse of Id. *)
Number(f) == (f - FirstId) % IdModulus

Message == {MetaMessage(f, m) : f \in FrameIds, m \in Metas} \cup {ChunkMessage(c) : c \in Chunk}

(* Frames the Agent waits for and the host has not acknowledged. *)
Owed == {f \in FrameIds : Number(f) \in outstanding /\ f \notin Range(acks)}

(* Frames with a running timer. *)
Working == {f \in FrameIds : frames[f].started}

(* Frames the assembler knows of. *)
Seen == Working \cup Range(settledOrder) \cup ({newestFrameId} \ {None})

(* More may arrive of the frame. *)
ToCome(f) == (sending /\ f = Id(Current)) \/ \E k \in 1 .. Len(link) : link[k].frame = f

CreditTypes ==
  /\ opened \in 0 .. MaxFrames
  /\ outstanding \subseteq 0 .. (opened - 1) /\ Cardinality(outstanding) <= Window
  /\ acks \in Seq(FrameIds)
  /\ link \in Seq(Message)
  /\ sending => opened > 0
  /\ slots \in Metas
  /\ passed \in [Cameras -> 0 .. ImageChunks]

(* Frames reach the assembler in the order in which they were opened. *)
InOrder ==
  /\ \A k \in 1 .. Len(link) : Number(link[k].frame) < opened
  /\ \A j, k \in 1 .. Len(link) : j < k => Number(link[j].frame) <= Number(link[k].frame)
  /\ \A f \in Seen : /\ Number(f) < opened
                     /\ \A k \in 1 .. Len(link) : Number(f) <= Number(link[k].frame)

(* Whatever the assembler may settle is owed to the Agent, and only frames on the *)
(* timer can be settled.                                                          *)
Timed(fr) == fr.started \/ (~fr.overdue /\ Pending(fr) = {})
WorkOwed == Working \subseteq Owed /\ \A f \in FrameIds : Timed(frames[f])

(* A frame acknowledged before its last message has arrived is still in the settled *)
(* history, and stays there even if all frames in progress are settled after it.     *)
Remembered ==
  \A f \in FrameIds : ToCome(f) /\ f \notin Owed =>
    \E k \in 1 .. Len(settledOrder) :
      settledOrder[k] = f /\ Len(settledOrder) - k + Cardinality(Working) < Window

-----------------------------------------------------------------------------
(* Frame numbers and frame ids *)

(* Ids and numbers below the modulus correspond. *)
LEMMA NumberFacts ==
  /\ \A f \in FrameIds : Number(f) \in 0 .. (IdModulus - 1) /\ Id(Number(f)) = f
  /\ \A n \in 0 .. (IdModulus - 1) : Id(n) \in FrameIds /\ Number(Id(n)) = n
<1> USE IdAssumption, CreditAssumption
<1>1. ASSUME NEW f \in FrameIds
      PROVE  Number(f) \in 0 .. (IdModulus - 1) /\ Id(Number(f)) = f
  <2>1. f \in 0 .. (IdModulus - 1) /\ FirstId \in 0 .. (IdModulus - 1)
    BY DEF FrameIds
  <2>2. CASE f >= FirstId
    <3>1. Number(f) = f - FirstId
      BY <2>1, <2>2 DEF Number
    <3>2. (FirstId + (f - FirstId)) % IdModulus = f
      BY <2>1, <2>2
    <3>3. QED
      BY <2>1, <2>2, <3>1, <3>2 DEF Id
  <2>3. CASE f < FirstId
    <3>1. Number(f) = f - FirstId + IdModulus
      BY <2>1, <2>3 DEF Number
    <3>2. (FirstId + (f - FirstId + IdModulus)) % IdModulus = f
      BY <2>1, <2>3
    <3>3. QED
      BY <2>1, <2>3, <3>1, <3>2 DEF Id
  <2>4. QED
    BY <2>1, <2>2, <2>3
<1>2. ASSUME NEW n \in 0 .. (IdModulus - 1)
      PROVE  Id(n) \in FrameIds /\ Number(Id(n)) = n
  <2>1. FirstId \in 0 .. (IdModulus - 1)
    BY DEF FrameIds
  <2>2. CASE FirstId + n < IdModulus
    <3>1. Id(n) = FirstId + n
      BY <2>1, <2>2 DEF Id
    <3>2. (FirstId + n - FirstId) % IdModulus = n
      BY <2>1
    <3>3. QED
      BY <2>1, <2>2, <3>1, <3>2 DEF Number, FrameIds
  <2>3. CASE FirstId + n >= IdModulus
    <3>1. Id(n) = FirstId + n - IdModulus
      BY <2>1, <2>3 DEF Id
    <3>2. (FirstId + n - IdModulus - FirstId) % IdModulus = n
      BY <2>1, <2>3
    <3>3. QED
      BY <2>1, <2>3, <3>1, <3>2 DEF Number, FrameIds
  <2>4. QED
    BY <2>1, <2>2, <2>3
<1>3. QED
  BY <1>1, <1>2

(* Of two frames of the run, the newer id belongs to the one opened later. *)
LEMMA NewerIsLater ==
  ASSUME NEW f \in FrameIds, NEW g \in FrameIds,
         Number(f) < MaxFrames, Number(g) < MaxFrames
  PROVE  FrameIdIsNewer(f, g) <=> Number(g) < Number(f)
<1> DEFINE a == Number(f)
           b == Number(g)
<1> USE IdAssumption, CreditAssumption
<1>1. /\ a \in 0 .. (IdModulus - 1) /\ b \in 0 .. (IdModulus - 1)
      /\ 2 * a < IdModulus /\ 2 * b < IdModulus /\ f = Id(a) /\ g = Id(b)
      /\ FirstId \in 0 .. (IdModulus - 1)
  BY NumberFacts DEF FrameIds
<1> HIDE DEF a, b
<1>2. /\ f = FirstId + a \/ f = FirstId + a - IdModulus
      /\ g = FirstId + b \/ g = FirstId + b - IdModulus
  BY <1>1 DEF Id
<1>3. f - g \in {a - b, a - b - IdModulus, a - b + IdModulus}
  BY <1>1, <1>2
<1>4. (f - g) % IdModulus = IF b <= a THEN a - b ELSE a - b + IdModulus
  <2>1. f \in 0 .. (IdModulus - 1) /\ g \in 0 .. (IdModulus - 1)
    BY DEF FrameIds
  <2>2. f - g \in - (IdModulus - 1) .. (IdModulus - 1)
    BY <2>1
  <2>3. CASE f - g >= 0
    <3>1. (f - g) % IdModulus = f - g
      BY <2>1, <2>3
    <3>2. QED
      BY <1>1, <1>3, <2>2, <2>3, <3>1
  <2>4. CASE f - g < 0
    <3>1. (f - g) % IdModulus = f - g + IdModulus
      BY <2>1, <2>4
    <3>2. QED
      BY <1>1, <1>3, <2>2, <2>4, <3>1
  <2>5. QED
    BY <2>1, <2>3, <2>4
<1>5. QED
  BY <1>1, <1>4 DEF FrameIdIsNewer, a, b

-----------------------------------------------------------------------------
(* The settled history *)

(* The history h has the frames S more than the history old: they are its youngest *)
(* entries, and the others are as many places deeper, unless that is too deep.      *)
Remembers(old, h, S) ==
  /\ h \in Seq(FrameIds) /\ Range(h) \subseteq Range(old) \cup S
  /\ \A k \in 1 .. Len(old) :
       Len(old) - k + Cardinality(S) < HistorySize =>
         \E j \in 1 .. Len(h) : h[j] = old[k] /\ Len(h) - j = Len(old) - k + Cardinality(S)
  /\ Cardinality(S) <= HistorySize =>
       \A f \in S : \E j \in 1 .. Len(h) : h[j] = f /\ Len(h) - j < Cardinality(S)

(* The elements of a sequence are its entries. *)
LEMMA RangeFacts ==
  ASSUME NEW T, NEW s \in Seq(T)
  PROVE  /\ Len(s) \in Nat /\ DOMAIN s = 1 .. Len(s)
         /\ \A x : x \in Range(s) <=> \E k \in 1 .. Len(s) : s[k] = x
         /\ Range(s) \subseteq T
BY DEF Range

LEMMA RecentKeeps ==
  ASSUME NEW s \in Seq(FrameIds), NEW k \in 1 .. Len(s), Len(s) - k < HistorySize
  PROVE  \E j \in 1 .. Len(Recent(s)) :
           Recent(s)[j] = s[k] /\ Len(Recent(s)) - j = Len(s) - k
<1> DEFINE d == IF Len(s) > HistorySize THEN Len(s) - HistorySize ELSE 0
           r == Recent(s)
<1>0. Len(s) \in Nat /\ HistorySize \in Nat /\ (d = 0 \/ d = Len(s) - HistorySize) /\ d \in Nat
      /\ (d = 0 => Len(s) <= HistorySize)
  BY LimitsAssumption
<1>1. /\ r \in Seq(FrameIds) /\ Len(r) = Len(s) - d
      /\ \A j \in 1 .. Len(r) : r[j] = s[j + d]
  BY RecentFacts
<1> HIDE DEF r, d
<1>2. k - d \in 1 .. Len(r) /\ (k - d) + d = k
  BY <1>0, <1>1
<1>3. r[k - d] = s[k] /\ Len(r) - (k - d) = Len(s) - k
  BY <1>0, <1>1, <1>2
<1>4. QED
  BY <1>2, <1>3 DEF r

LEMMA RecentRange ==
  ASSUME NEW s \in Seq(FrameIds)
  PROVE  Recent(s) \in Seq(FrameIds) /\ Range(Recent(s)) \subseteq Range(s)
<1> DEFINE d == IF Len(s) > HistorySize THEN Len(s) - HistorySize ELSE 0
           r == Recent(s)
<1>1. /\ r \in Seq(FrameIds)
      /\ \A k \in 1 .. Len(r) : r[k] = s[k + d] /\ k + d \in 1 .. Len(s)
  BY RecentFacts
<1> HIDE DEF d, r
<1>2. \A k \in 1 .. Len(r) : r[k] \in Range(s)
  BY <1>1, RangeFacts
<1>3. Range(r) \subseteq Range(s)
  BY <1>1, <1>2, RangeFacts
<1>4. QED
  BY <1>1, <1>3 DEF r

(* Finite sets of frame ids have a cardinality. *)
LEMMA FrameSetFinite ==
  ASSUME NEW S \in SUBSET FrameIds
  PROVE  IsFiniteSet(S) /\ Cardinality(S) \in Nat
BY FrameIdFacts, FS_Subset, FS_CardinalityType


LEMMA AscendingFacts ==
  ASSUME NEW S \in SUBSET FrameIds, NEW ids \in Ascending(S)
  PROVE  /\ ids \in Seq(FrameIds) /\ Len(ids) = Cardinality(S)
         /\ Range(ids) = S /\ IsInjective(ids)
<1> DEFINE n == Cardinality(S)
<1>1. /\ ids \in [1 .. n -> S] /\ Range(ids) = S
      /\ \A i, j \in 1 .. n : i < j => ids[i] < ids[j]
  BY DEF Ascending
<1>2. n \in Nat /\ S \subseteq Int
  BY FrameSetFinite, FrameIdFacts
<1> HIDE DEF n
<1>3. ids \in Seq(FrameIds) /\ Len(ids) = n /\ DOMAIN ids = 1 .. n
  <2>1. ids \in [1 .. n -> FrameIds]
    BY <1>1
  <2>2. QED
    BY <1>2, <2>1
<1>4. ASSUME NEW i \in 1 .. n, NEW j \in 1 .. n, ids[i] = ids[j]
      PROVE  i = j
  <2>1. ids[i] \in Int /\ ids[j] \in Int
    BY <1>1, <1>2
  <2>2. ~(i < j) /\ ~(j < i)
    BY <1>1, <1>4, <2>1
  <2>3. QED
    BY <2>2
<1>5. QED
  BY <1>1, <1>3, <1>4 DEF IsInjective, n

(* Frames that are not in the history enter it once. *)
LEMMA RetiredRemembered ==
  ASSUME HistoryType, NEW S \in SUBSET FrameIds, S \cap Range(settledOrder) = {},
         NEW h \in HistoriesAfter(S)
  PROVE  Settles(S) = S /\ Remembers(settledOrder, h, S)
<1> DEFINE n == Cardinality(S)
           old == settledOrder
<1>1. Settles(S) = S
  BY DEF Settles
<1>2. PICK ids \in Ascending(S) : h = Recent(old \o ids)
  BY <1>1 DEF HistoriesAfter
<1>3. ids \in Seq(FrameIds) /\ Len(ids) = n /\ Range(ids) = S /\ n \in Nat
  BY AscendingFacts, FrameSetFinite
<1>4. old \in Seq(FrameIds) /\ Len(old) \in Nat /\ HistorySize \in Nat
  BY LimitsAssumption DEF HistoryType
<1> HIDE DEF old, n
<1> DEFINE s == old \o ids
<1>5. /\ s \in Seq(FrameIds) /\ Len(s) = Len(old) + n
      /\ \A k \in 1 .. Len(old) : k \in 1 .. Len(s) /\ s[k] = old[k]
      /\ \A k \in 1 .. n : Len(old) + k \in 1 .. Len(s) /\ s[Len(old) + k] = ids[k]
  BY <1>3, <1>4
<1>6. \A k \in 1 .. Len(s) : \/ k \in 1 .. Len(old)
                             \/ k - Len(old) \in 1 .. n /\ s[k] = ids[k - Len(old)]
  BY <1>3, <1>4
<1> HIDE DEF s
<1>7. h \in Seq(FrameIds) /\ Range(h) \subseteq Range(s)
  <2>1. h = Recent(s)
    BY <1>2 DEF s
  <2>2. QED
    BY <1>5, <2>1, RecentRange
<1>8. Range(s) \subseteq Range(old) \cup S
  <2>1. \A k \in 1 .. Len(old) : old[k] \in Range(old)
    BY <1>4, RangeFacts
  <2>2. \A k \in 1 .. n : ids[k] \in Range(ids)
    BY <1>3, RangeFacts
  <2>3. \A k \in 1 .. Len(s) : s[k] \in Range(old) \cup S
    BY <1>3, <1>5, <1>6, <2>1, <2>2
  <2>4. QED
    BY <1>5, <2>3, RangeFacts
<1>9. ASSUME NEW k \in 1 .. Len(old), Len(old) - k + n < HistorySize
      PROVE  \E j \in 1 .. Len(h) : h[j] = old[k] /\ Len(h) - j = Len(old) - k + n
  <2>1. k \in 1 .. Len(s) /\ s[k] = old[k] /\ Len(s) - k = Len(old) - k + n
    BY <1>3, <1>4, <1>5
  <2>2. QED
    BY <1>2, <1>5, <1>9, <2>1, RecentKeeps DEF s
<1>10. ASSUME n <= HistorySize, NEW f \in S
       PROVE  \E j \in 1 .. Len(h) : h[j] = f /\ Len(h) - j < n
  <2>1. PICK i \in 1 .. n : ids[i] = f
    BY <1>3, <1>10, RangeFacts
  <2>2. /\ Len(old) + i \in 1 .. Len(s) /\ s[Len(old) + i] = f
        /\ Len(s) - (Len(old) + i) = n - i
    BY <1>3, <1>4, <1>5, <2>1
  <2>3. n - i < HistorySize /\ n - i < n
    BY <1>3, <1>4, <1>10
  <2>4. PICK j \in 1 .. Len(h) : h[j] = f /\ Len(h) - j = n - i
    BY <1>2, <1>5, <2>2, <2>3, RecentKeeps, ZenonT(40) DEF s
  <2>5. QED
    BY <2>3, <2>4
<1>11. QED
  BY <1>1, <1>7, <1>8, <1>9, <1>10 DEF Remembers, old, n

(* One more frame after them. *)
LEMMA AppendedRemembered ==
  ASSUME NEW old \in Seq(FrameIds), NEW S \in SUBSET FrameIds, NEW h, Remembers(old, h, S),
         NEW f \in FrameIds, f \notin S
  PROVE  Remembers(old, Recent(Append(h, f)), S \cup {f})
<1> DEFINE n == Cardinality(S)
           s == Append(h, f)
           r == Recent(s)
<1>1. n \in Nat /\ Cardinality(S \cup {f}) = n + 1
  BY FrameSetFinite, FS_AddElement
<1>2. /\ h \in Seq(FrameIds) /\ s \in Seq(FrameIds) /\ Len(s) = Len(h) + 1 /\ Len(h) \in Nat
      /\ \A k \in 1 .. Len(h) : k \in 1 .. Len(s) /\ s[k] = h[k]
      /\ s[Len(s)] = f /\ Len(s) \in 1 .. Len(s) /\ Len(old) \in Nat /\ HistorySize \in Nat \ {0}
      /\ \A k \in 1 .. Len(s) : k \in 1 .. Len(h) \/ s[k] = f
  BY LimitsAssumption DEF Remembers
<1> HIDE DEF s
<1>3. r \in Seq(FrameIds) /\ Range(r) \subseteq Range(s)
  BY <1>2, RecentRange
<1>4. Range(r) \subseteq Range(old) \cup (S \cup {f})
  <2>1. \A k \in 1 .. Len(s) : s[k] \in Range(h) \cup {f}
    BY <1>2, RangeFacts
  <2>2. Range(r) \subseteq Range(h) \cup {f}
    BY <1>2, <1>3, <2>1, RangeFacts
  <2>3. QED
    BY <2>2 DEF Remembers
<1>8. /\ \A k \in 1 .. Len(old) :
           Len(old) - k + n < HistorySize =>
             \E j \in 1 .. Len(h) : h[j] = old[k] /\ Len(h) - j = Len(old) - k + n
      /\ n <= HistorySize => \A g \in S : \E j \in 1 .. Len(h) : h[j] = g /\ Len(h) - j < n
  BY DEF Remembers
<1> HIDE DEF n, r
<1>5. ASSUME NEW k \in 1 .. Len(old), Len(old) - k + (n + 1) < HistorySize
      PROVE  \E j \in 1 .. Len(r) : r[j] = old[k] /\ Len(r) - j = Len(old) - k + (n + 1)
  <2>1. PICK i \in 1 .. Len(h) : h[i] = old[k] /\ Len(h) - i = Len(old) - k + n
    BY <1>1, <1>2, <1>5, <1>8
  <2>2. i \in 1 .. Len(s) /\ s[i] = old[k] /\ Len(s) - i = Len(old) - k + (n + 1)
    BY <1>1, <1>2, <2>1, SMTT(30)
  <2>3. QED
    <3>1. Len(s) - i < HistorySize
      BY <1>5, <2>2
    <3>2. PICK j \in 1 .. Len(r) : r[j] = s[i] /\ Len(r) - j = Len(s) - i
      BY <1>2, <2>2, <3>1, RecentKeeps DEF r
    <3>3. QED
      BY <2>2, <3>2
<1>6. ASSUME n + 1 <= HistorySize, NEW g \in S \cup {f}
      PROVE  \E j \in 1 .. Len(r) : r[j] = g /\ Len(r) - j < n + 1
  <2>1. PICK i \in 1 .. Len(s) : s[i] = g /\ Len(s) - i < n + 1
    <3>1. CASE g = f
      BY <1>1, <1>2, <3>1
    <3>2. CASE g \in S
      <4>1. PICK i \in 1 .. Len(h) : h[i] = g /\ Len(h) - i < n
        BY <1>1, <1>2, <1>6, <1>8, <3>2
      <4>2. QED
        BY <1>1, <1>2, <4>1
    <3>3. QED
      BY <1>6, <3>1, <3>2
  <2>2. Len(s) - i < HistorySize
    BY <1>1, <1>2, <1>6, <2>1
  <2>3. PICK j \in 1 .. Len(r) : r[j] = s[i] /\ Len(r) - j = Len(s) - i
    BY <1>2, <2>2, RecentKeeps DEF r
  <2>4. QED
    BY <2>1, <2>3
<1>7. Remembers(old, r, S \cup {f})
  <2> DEFINE T == S \cup {f}
  <2>1. Cardinality(T) = n + 1 /\ Range(r) \subseteq Range(old) \cup T
    BY <1>1, <1>4
  <2>2. n + 1 <= HistorySize =>
          \A g \in T : \E j \in 1 .. Len(r) : r[j] = g /\ Len(r) - j < n + 1
    BY <1>6
  <2> HIDE DEF T
  <2>3. Remembers(old, r, T)
    BY <1>3, <1>5, <2>1, <2>2 DEF Remembers
  <2>4. QED
    BY <2>3 DEF T
<1>9. QED
  BY <1>7 DEF r, s

(* Nothing settled. *)
LEMMA NothingForgotten ==
  ASSUME NEW old \in Seq(FrameIds)
  PROVE  Remembers(old, old, {})
<1>1. Cardinality({}) = 0
  BY FS_EmptySet
<1>2. \A k \in 1 .. Len(old) : Len(old) - k + 0 = Len(old) - k
  OBVIOUS
<1>3. QED
  BY <1>1, <1>2 DEF Remembers

-----------------------------------------------------------------------------
(* What one call of the host settles. S are the frames it settles, G holds the *)
(* frame of the message it handles; d messages leave the link.                  *)
Settling(S, G) ==
  /\ S \subseteq Working /\ Working' \cap S = {}
  /\ Working' \ Working \subseteq G \ Range(settledOrder')
  /\ Remembers(settledOrder, settledOrder', S)
  /\ newestFrameId' \in {newestFrameId} \cup G
  /\ \E x \in Seq(FrameIds) : IsInjective(x) /\ Range(x) = S /\ acks' = acks \o x

Taking(d, G) ==
  /\ d \in {0, 1} /\ G \in SUBSET FrameIds
  /\ link' \in Seq(Message) /\ Len(link') = Len(link) - d
  /\ \A k \in 1 .. Len(link') : link'[k] = link[k + d]
  /\ G # {} => d = 1 /\ link # <<>> /\ G = {link[1].frame}

LEMMA RemainingCardinality ==
  ASSUME NEW A \in SUBSET FrameIds, NEW B \in SUBSET A, NEW C \in SUBSET (A \ B)
  PROVE  Cardinality(C) + Cardinality(B) <= Cardinality(A)
<1>1. /\ IsFiniteSet(A) /\ IsFiniteSet(A \ B) /\ A \cap B = B
      /\ Cardinality(A) \in Nat /\ Cardinality(B) \in Nat /\ Cardinality(C) \in Nat
  BY FrameSetFinite
<1>2. Cardinality(A \ B) = Cardinality(A) - Cardinality(B)
  BY <1>1, FS_Difference
<1>3. Cardinality(C) <= Cardinality(A \ B)
  BY <1>1, FS_Subset
<1>4. QED
  BY <1>1, <1>2, <1>3

(* No more frames are owed than the Agent's window allows. *)
LEMMA OwedWithinWindow ==
  ASSUME CreditTypes
  PROVE  Cardinality(Owed) <= Window
<1>1. /\ Owed \in SUBSET FrameIds /\ IsFiniteSet(Owed) /\ Cardinality(Owed) \in Nat
      /\ Window \in Nat /\ opened \in Int
  BY FrameSetFinite, CreditAssumption DEF Owed, CreditTypes
<1>2. IsFiniteSet(outstanding) /\ Cardinality(outstanding) \in Nat
  <2>1. IsFiniteSet(0 .. (opened - 1)) /\ outstanding \in SUBSET (0 .. (opened - 1))
    <3>1. opened - 1 \in Int /\ 0 \in Int
      BY <1>1
    <3>2. IsFiniteSet(0 .. (opened - 1))
      BY <3>1, FS_Interval
    <3>3. QED
      BY <3>2 DEF CreditTypes
  <2>2. IsFiniteSet(outstanding)
    BY <2>1, FS_Subset
  <2>3. QED
    BY <2>2, FS_CardinalityType
<1>3. Cardinality(outstanding) <= Window
  BY DEF CreditTypes
<1>4. CASE Cardinality(outstanding) < Cardinality(Owed)
  <2> DEFINE numbers == [f \in Owed |-> Number(f)]
  <2>1. numbers \in [Owed -> outstanding] /\ \A f \in Owed : numbers[f] = Number(f)
    BY DEF Owed
  <2> HIDE DEF numbers
  <2>2. PICK f, g \in Owed : f # g /\ numbers[f] = numbers[g]
    BY <1>1, <1>2, <1>4, <2>1, FS_PigeonHole
  <2>3. Number(f) = Number(g) /\ f \in FrameIds /\ g \in FrameIds
    BY <1>1, <2>1, <2>2
  <2>4. QED
    BY <2>2, <2>3, NumberFacts
<1>5. QED
  BY <1>1, <1>2, <1>3, <1>4

(* Frames in progress or in the history have ids; the message at hand is no older *)
(* than any of them and no younger than what is to come.                          *)
LEMMA SeenFacts ==
  ASSUME CreditTypes, InOrder, HistoryType, NEW f \in FrameIds, ToCome(f),
         NEW G, NEW d, Taking(d, G), NEW g \in G,
         f \in Working \cup Range(settledOrder)
  PROVE  f = g
<1>1. g \in FrameIds /\ g = link[1].frame /\ Len(link) \in Nat /\ 1 \in 1 .. Len(link)
      /\ Number(g) \in Int /\ Number(f) \in Int /\ opened \in Nat /\ Number(g) < opened
  <2>1. link # <<>> /\ G = {link[1].frame} /\ G \in SUBSET FrameIds /\ link \in Seq(Message)
    BY DEF Taking, CreditTypes
  <2>2. 1 \in 1 .. Len(link) /\ Len(link) \in Nat
    BY <2>1
  <2>3. QED
    BY <2>1, <2>2, NumberFacts DEF InOrder, CreditTypes
<1>2. Number(f) <= Number(g)
  BY <1>1 DEF InOrder, Seen
<1>3. Number(g) <= Number(f)
  <2>1. CASE sending /\ f = Id(Current)
    <3>1. opened - 1 \in 0 .. (IdModulus - 1)
      BY <2>1, IdAssumption, CreditAssumption DEF CreditTypes
    <3>2. Number(f) = opened - 1
      BY <2>1, <3>1, NumberFacts DEF Current
    <3>3. QED
      BY <1>1, <3>2
  <2>2. ASSUME NEW k \in 1 .. Len(link), link[k].frame = f
        PROVE  Number(g) <= Number(f)
    <3>1. k = 1 \/ 1 < k
      BY <1>1
    <3>2. QED
      BY <1>1, <2>2, <3>1 DEF InOrder
  <2>3. QED
    BY <2>1, <2>2 DEF ToCome
<1>4. Number(f) = Number(g)
  BY <1>1, <1>2, <1>3
<1>5. QED
  BY <1>1, <1>4, NumberFacts

(* What is on the link was on it before. *)
LEMMA ToComeBefore ==
  ASSUME CreditTypes, NEW G, NEW d, Taking(d, G), UNCHANGED <<opened, sending>>,
         NEW f, ToCome(f)'
  PROVE  ToCome(f)
<1>1. /\ Len(link) \in Nat /\ d \in {0, 1} /\ Len(link') = Len(link) - d
      /\ \A k \in 1 .. Len(link') : link'[k] = link[k + d]
  BY DEF CreditTypes, Taking
<1>2. \A k \in 1 .. Len(link') : k + d \in 1 .. Len(link)
  BY <1>1
<1>3. QED
  BY <1>1, <1>2 DEF ToCome, Current

(* Of a frame acknowledged whose messages are still arriving, and of the frames the *)
(* call settles, the history keeps the entry.                                        *)
LEMMA StillRemembered ==
  ASSUME CreditTypes, WorkOwed, Remembered, HistoryType, NEW S, NEW G, Settling(S, G)
  PROVE  /\ S \subseteq Range(settledOrder') /\ Cardinality(S) <= HistorySize
         /\ \A f \in FrameIds : ToCome(f) /\ f \notin Owed =>
              /\ f \in Range(settledOrder) /\ f \in Range(settledOrder')
              /\ \E j \in 1 .. Len(settledOrder') :
                   /\ settledOrder'[j] = f
                   /\ Len(settledOrder') - j + Cardinality(Working) < Window + Cardinality(S)
<1>1. /\ Working \in SUBSET FrameIds /\ Owed \in SUBSET FrameIds /\ S \in SUBSET Working
      /\ Working \in SUBSET Owed
  BY DEF Working, Owed, WorkOwed, Settling
<1>2. /\ IsFiniteSet(Owed) /\ IsFiniteSet(Working) /\ Cardinality(S) \in Nat
      /\ Cardinality(Working) \in Nat /\ Cardinality(Owed) \in Nat
  BY <1>1, FrameSetFinite
<1>3. Cardinality(S) <= Cardinality(Working) /\ Cardinality(Working) <= Cardinality(Owed)
  BY <1>1, <1>2, FS_Subset
<1>4. /\ Cardinality(Owed) <= Window /\ Window <= HistorySize
      /\ Window \in Nat /\ HistorySize \in Nat
  BY OwedWithinWindow, CreditAssumption, LimitsAssumption
<1>5. /\ settledOrder \in Seq(FrameIds) /\ settledOrder' \in Seq(FrameIds)
      /\ Cardinality(S) <= HistorySize
      /\ \A k \in 1 .. Len(settledOrder) :
           Len(settledOrder) - k + Cardinality(S) < HistorySize =>
             \E j \in 1 .. Len(settledOrder') :
               /\ settledOrder'[j] = settledOrder[k]
               /\ Len(settledOrder') - j = Len(settledOrder) - k + Cardinality(S)
      /\ \A f \in S : \E j \in 1 .. Len(settledOrder') : settledOrder'[j] = f
  BY <1>2, <1>3, <1>4 DEF HistoryType, Settling, Remembers
<1>6. Len(settledOrder) \in Nat /\ Len(settledOrder') \in Nat
  BY <1>5
<1>7. S \subseteq Range(settledOrder')
  BY <1>5, RangeFacts
<1>8. ASSUME NEW f \in FrameIds, ToCome(f), f \notin Owed
      PROVE  /\ f \in Range(settledOrder)
             /\ \E j \in 1 .. Len(settledOrder') :
                  /\ settledOrder'[j] = f
                  /\ Len(settledOrder') - j + Cardinality(Working) < Window + Cardinality(S)
  <2>1. PICK k \in 1 .. Len(settledOrder) :
          settledOrder[k] = f /\ Len(settledOrder) - k + Cardinality(Working) < Window
    BY <1>8 DEF Remembered
  <2>2. Len(settledOrder) - k + Cardinality(S) < HistorySize
    BY <1>2, <1>3, <1>4, <1>6, <2>1
  <2>3. PICK j \in 1 .. Len(settledOrder') :
          /\ settledOrder'[j] = f
          /\ Len(settledOrder') - j = Len(settledOrder) - k + Cardinality(S)
    BY <1>5, <2>1, <2>2
  <2>4. Len(settledOrder') - j + Cardinality(Working) < Window + Cardinality(S)
    BY <1>2, <1>4, <1>6, <2>1, <2>3
  <2>5. QED
    BY <1>5, <2>1, <2>3, <2>4, RangeFacts
<1>9. QED
  BY <1>5, <1>7, <1>8, RangeFacts

(* The acknowledgements of a call are those of the frames it settles. *)
LEMMA SettledAcks ==
  ASSUME CreditTypes, AcksMatchCredit, WorkOwed, NEW S, NEW G, Settling(S, G),
         outstanding' = outstanding
  PROVE  /\ acks' \in Seq(FrameIds) /\ AcksMatchCredit'
         /\ Range(acks') = Range(acks) \cup S /\ Owed' = Owed \ S
<1>1. PICK x \in Seq(FrameIds) : IsInjective(x) /\ Range(x) = S /\ acks' = acks \o x
  BY DEF Settling
<1>2. /\ acks \in Seq(FrameIds) /\ acks' \in Seq(FrameIds)
      /\ Len(acks) \in Nat /\ Len(x) \in Nat /\ Len(acks') = Len(acks) + Len(x)
      /\ \A k \in 1 .. Len(acks) : acks'[k] = acks[k]
      /\ \A k \in 1 .. Len(x) : acks'[Len(acks) + k] = x[k]
      /\ \A k \in 1 .. Len(acks') :
           k \in 1 .. Len(acks) \/ (k - Len(acks) \in 1 .. Len(x) /\ k > Len(acks)
                                     /\ acks'[k] = x[k - Len(acks)])
  BY <1>1 DEF CreditTypes
<1>3. S \subseteq Owed /\ \A f \in S : Number(f) \in outstanding /\ f \notin Range(acks)
                                      /\ f \in FrameIds
  BY DEF Settling, WorkOwed, Owed
<1>4. Range(acks') = Range(acks) \cup S
  <2>1. \A k \in 1 .. Len(acks) : k \in 1 .. Len(acks')
    BY <1>2
  <2>2. \A k \in 1 .. Len(x) : Len(acks) + k \in 1 .. Len(acks')
    BY <1>2
  <2>3. ASSUME NEW f \in Range(acks) \cup S
        PROVE  f \in Range(acks')
    <3>1. CASE f \in Range(acks)
      BY <1>2, <2>1, <3>1, RangeFacts
    <3>2. CASE f \in S
      <4>1. PICK k \in 1 .. Len(x) : x[k] = f
        BY <1>1, <3>2, RangeFacts
      <4>2. acks'[Len(acks) + k] = f /\ Len(acks) + k \in 1 .. Len(acks')
        BY <1>2, <2>2, <4>1
      <4>3. QED
        BY <1>2, <4>2, RangeFacts
    <3>3. QED
      BY <2>3, <3>1, <3>2
  <2>4. ASSUME NEW f \in Range(acks')
        PROVE  f \in Range(acks) \cup S
    <3>1. PICK k \in 1 .. Len(acks') : acks'[k] = f
      BY <1>2, RangeFacts
    <3>2. CASE k \in 1 .. Len(acks)
      BY <1>2, <3>1, <3>2, RangeFacts
    <3>3. CASE k - Len(acks) \in 1 .. Len(x) /\ acks'[k] = x[k - Len(acks)]
      BY <1>1, <3>1, <3>3, RangeFacts
    <3>4. QED
      BY <1>2, <3>2, <3>3
  <2>5. QED
    BY <2>3, <2>4
<1>5. IsInjective(acks')
  <2>1. DOMAIN acks = 1 .. Len(acks) /\ DOMAIN acks' = 1 .. Len(acks') /\ DOMAIN x = 1 .. Len(x)
    BY <1>1, <1>2, RangeFacts
  <2>2. /\ \A i, j \in 1 .. Len(acks) : acks[i] = acks[j] => i = j
        /\ \A i, j \in 1 .. Len(x) : x[i] = x[j] => i = j
    BY <1>1, <2>1 DEF AcksMatchCredit, IsInjective
  <2>3. \A i \in 1 .. Len(acks), j \in 1 .. Len(x) : acks[i] # x[j]
    BY <1>1, <1>2, <1>3, RangeFacts
  <2>4. ASSUME NEW i \in 1 .. Len(acks'), NEW j \in 1 .. Len(acks'), acks'[i] = acks'[j]
        PROVE  i = j
    <3>1. CASE i \in 1 .. Len(acks) /\ j \in 1 .. Len(acks)
      BY <1>2, <2>2, <2>4, <3>1
    <3>2. CASE i \notin 1 .. Len(acks) /\ j \notin 1 .. Len(acks)
      <4>1. /\ i - Len(acks) \in 1 .. Len(x) /\ acks'[i] = x[i - Len(acks)]
            /\ j - Len(acks) \in 1 .. Len(x) /\ acks'[j] = x[j - Len(acks)]
        BY <1>2, <3>2
      <4>2. i - Len(acks) = j - Len(acks)
        BY <2>2, <2>4, <4>1
      <4>3. QED
        BY <1>2, <4>2
    <3>3. CASE i \in 1 .. Len(acks) /\ j \notin 1 .. Len(acks)
      BY <1>2, <2>3, <2>4, <3>3
    <3>4. CASE i \notin 1 .. Len(acks) /\ j \in 1 .. Len(acks)
      BY <1>2, <2>3, <2>4, <3>4
    <3>5. QED
      BY <3>1, <3>2, <3>3, <3>4
  <2>5. QED
    BY <2>1, <2>4 DEF IsInjective
<1>6. \A k \in 1 .. Len(acks') : \E n \in outstanding' : Id(n) = acks'[k]
  <2> TAKE k \in 1 .. Len(acks')
  <2>1. acks'[k] \in Range(acks) \cup S
    BY <1>2, <1>4, RangeFacts
  <2>2. CASE acks'[k] \in Range(acks)
    <3>1. PICK i \in 1 .. Len(acks) : acks[i] = acks'[k]
      BY <1>2, <2>2, RangeFacts
    <3>2. QED
      BY <3>1 DEF AcksMatchCredit
  <2>3. CASE acks'[k] \in S
    BY <1>3, <2>3, NumberFacts
  <2>4. QED
    BY <2>1, <2>2, <2>3
<1>7. Owed' = Owed \ S
  BY <1>4 DEF Owed
<1>8. QED
  BY <1>2, <1>4, <1>5, <1>6, <1>7 DEF AcksMatchCredit

(* The order of arrival, the books and the history stay sound. *)
LEMMA HostKeeps ==
  ASSUME CreditTypes, AcksMatchCredit, InOrder, WorkOwed, Remembered, HistoryType,
         SettledFrameReleased, newestFrameId \in FrameIds \cup {None},
         NEW S, NEW G, NEW d, Settling(S, G), Taking(d, G), UNCHANGED agentVars
  PROVE  /\ CreditTypes' /\ AcksMatchCredit' /\ InOrder' /\ Remembered'
         /\ Working' \subseteq Owed'
<1>1. UNCHANGED <<opened, outstanding, sending, passed, slots>>
  BY DEF agentVars
<1>2. /\ acks' \in Seq(FrameIds) /\ AcksMatchCredit'
      /\ Range(acks') = Range(acks) \cup S /\ Owed' = Owed \ S
  BY <1>1, SettledAcks
<1>3. CreditTypes'
  BY <1>1, <1>2 DEF CreditTypes, Taking
<1>4. /\ S \subseteq Range(settledOrder') /\ Cardinality(S) <= HistorySize
      /\ \A f \in FrameIds : ToCome(f) /\ f \notin Owed =>
           /\ f \in Range(settledOrder) /\ f \in Range(settledOrder')
           /\ \E j \in 1 .. Len(settledOrder') :
                /\ settledOrder'[j] = f
                /\ Len(settledOrder') - j + Cardinality(Working) < Window + Cardinality(S)
  BY StillRemembered
<1>5. /\ S \subseteq Working /\ Working' \cap S = {}
      /\ Working' \ Working \subseteq G \ Range(settledOrder')
      /\ Working \subseteq Owed /\ Owed \subseteq FrameIds /\ Working \subseteq FrameIds
      /\ Working' \subseteq FrameIds
  BY DEF Settling, WorkOwed, Owed, Working
<1>6. \A g \in G : ToCome(g) /\ g \in FrameIds
  <2>1. link # <<>> => 1 \in 1 .. Len(link)
    BY DEF CreditTypes
  <2>2. QED
    BY <2>1 DEF Taking, ToCome
<1>7. Working' \subseteq Owed'
  BY <1>2, <1>4, <1>5, <1>6
<1>8. \A f \in Working' \cup Range(settledOrder') \cup ({newestFrameId'} \ {None}) : f \in Seen \cup G
  <2>1. Range(settledOrder') \subseteq Range(settledOrder) \cup S
    BY DEF Settling, Remembers
  <2>2. QED
    BY <1>5, <2>1 DEF Seen, Settling
<1>9. /\ Len(link) \in Nat /\ d \in {0, 1} /\ Len(link') = Len(link) - d
      /\ \A k \in 1 .. Len(link') : link'[k] = link[k + d] /\ k + d \in 1 .. Len(link)
  BY DEF CreditTypes, Taking
<1>10. InOrder'
  <2>1. \A k \in 1 .. Len(link') : Number(link'[k].frame) < opened'
    BY <1>1, <1>9 DEF InOrder
  <2>2. ASSUME NEW j \in 1 .. Len(link'), NEW k \in 1 .. Len(link'), j < k
        PROVE  Number(link'[j].frame) <= Number(link'[k].frame)
    BY <1>9, <2>2, SMTT(30) DEF InOrder
  <2>3. ASSUME NEW f \in Seen'
        PROVE  /\ Number(f) < opened'
               /\ \A k \in 1 .. Len(link') : Number(f) <= Number(link'[k].frame)
    <3>1. CASE f \in Seen
      BY <1>1, <1>9, <3>1 DEF InOrder
    <3>2. CASE f \in G
      <4>1. d = 1 /\ f = link[1].frame /\ 1 \in 1 .. Len(link)
        BY <1>9, <3>2 DEF Taking, CreditTypes
      <4>2. \A k \in 1 .. Len(link') : 1 < k + d
        BY <4>1
      <4>3. QED
        BY <1>1, <1>9, <4>1, <4>2 DEF InOrder
    <3>3. QED
      BY <1>8, <2>3, <3>1, <3>2 DEF Seen
  <2>4. QED
    BY <2>1, <2>2, <2>3 DEF InOrder
<1>11. Remembered'
  <2> SUFFICES ASSUME NEW f \in FrameIds, ToCome(f)', f \notin Owed'
               PROVE  \E k \in 1 .. Len(settledOrder') :
                        /\ settledOrder'[k] = f
                        /\ Len(settledOrder') - k + Cardinality(Working') < Window
    BY DEF Remembered
  <2>1. ToCome(f)
    BY <1>1, ToComeBefore
  <2>2. f \notin Owed \/ f \in S
    BY <1>2
  <2>3. f \in Working \cup Range(settledOrder) /\ f \in Range(settledOrder')
    BY <1>4, <1>5, <2>1, <2>2
  <2>4. \A g \in G : g = f
    BY <2>1, <2>3, SeenFacts
  <2>5. Working' \subseteq Working \ S
    BY <1>5, <2>3, <2>4
  <2>6. Cardinality(Working') + Cardinality(S) <= Cardinality(Working)
    BY <1>5, <2>5, RemainingCardinality
  <2>7. /\ Cardinality(Working') \in Nat /\ Cardinality(S) \in Nat
        /\ Cardinality(Working) \in Nat /\ Window \in Nat
        /\ settledOrder' \in Seq(FrameIds)
    BY <1>5, FrameSetFinite, CreditAssumption DEF Settling, Remembers
  <2>8. CASE f \notin Owed
    <3>1. PICK j \in 1 .. Len(settledOrder') :
            /\ settledOrder'[j] = f
            /\ Len(settledOrder') - j + Cardinality(Working) < Window + Cardinality(S)
      BY <1>4, <2>1, <2>8
    <3>2. QED
      BY <2>6, <2>7, <3>1
  <2>9. CASE f \in S
    <3>1. PICK j \in 1 .. Len(settledOrder') :
            settledOrder'[j] = f /\ Len(settledOrder') - j < Cardinality(S)
      BY <1>4, <2>9 DEF Settling, Remembers
    <3>2. Cardinality(Working) <= Window
      <4>1. Cardinality(Working) <= Cardinality(Owed) /\ Cardinality(Owed) \in Nat
        BY <1>5, FrameSetFinite, FS_Subset
      <4>2. QED
        BY <2>7, <4>1, OwedWithinWindow
    <3>3. QED
      BY <2>6, <2>7, <3>1, <3>2
  <2>10. QED
    BY <2>2, <2>8, <2>9
<1>12. QED
  BY <1>2, <1>3, <1>7, <1>10, <1>11

-----------------------------------------------------------------------------
(* Lanes: the pieces of one slot of one frame, on the link and in the assembler *)

(* The slots a metadata record declares. *)
Declared(m) == IF m.trusted THEN m.populated ELSE Cameras

IsPiece(m, f, c) == m.chunk # None /\ m.frame = f /\ m.chunk.camera = c /\ m.chunk.image # None
OnLink(f, c) == {k \in 1 .. Len(link) : IsPiece(link[k], f, c)}
Fills(f, c) == OnLink(f, c) # {} \/ frames[f].pending[c] # <<>> \/ frames[f].ready[c] # <<>>

(* The metadata of the frame that is kept or may still arrive. *)
MetasOf(f) ==
  ({frames[f].metadata} \cup {link[k].meta : k \in {j \in 1 .. Len(link) : link[j].frame = f}})
    \ {None}

(* Pieces exist for declared slots only. *)
LanesDeclared ==
  /\ \A f \in FrameIds, c \in Cameras : Fills(f, c) => \A m \in MetasOf(f) : c \in Declared(m)
  /\ opened > 0 =>
       /\ \A m \in MetasOf(Id(Current)) : m = slots
       /\ \A c \in Cameras : Fills(Id(Current), c) => c \in Declared(slots)

(* The pieces of a lane arrive in order and once: behind a whole image nothing comes. *)
LanesOrdered ==
  \A f \in FrameIds, c \in Cameras :
    /\ \A j, k \in OnLink(f, c) : j < k => link[j].chunk.offset < link[k].chunk.offset
    /\ (opened > 0 /\ f = Id(Current)) => \A k \in OnLink(f, c) : link[k].chunk.offset < passed[c]
    /\ frames[f].ready[c] # <<>> =>
         /\ frames[f].pending[c] = <<>> /\ OnLink(f, c) = {}
         /\ (opened > 0 /\ f = Id(Current)) => passed[c] = ImageChunks

(* The first message is the last piece of the lane. *)
Ends(f, c) == link # <<>> /\ IsPiece(link[1], f, c) /\ link[1].chunk.offset = ImageChunks - 1

(* A frame record the host may leave for f: nothing in it that was not in it before *)
(* or in its messages, and no piece in a slot that is ready.                         *)
Moves(d, f, fr) ==
  /\ fr.metadata \in MetasOf(f) \cup {None}
  /\ Timed(fr)
  /\ \A c \in Cameras :
       /\ fr.pending[c] # <<>> \/ fr.ready[c] # <<>> => Fills(f, c)
       /\ fr.ready[c] # <<>> =>
            fr.pending[c] = <<>> /\ (frames[f].ready[c] # <<>> \/ (d = 1 /\ Ends(f, c)))

LEMMA MessageFacts ==
  ASSUME NEW m \in Message
  PROVE  /\ m.frame \in FrameIds
         /\ m.chunk # None => m.chunk \in Chunk /\ m.frame = m.chunk.frame /\ m.meta = None
         /\ m.chunk = None => m.meta \in Metas
<1>1. CASE m \in {MetaMessage(f, x) : f \in FrameIds, x \in Metas}
  BY <1>1 DEF MetaMessage
<1>2. CASE m \in {ChunkMessage(c) : c \in Chunk}
  <2>1. PICK c \in Chunk : m = ChunkMessage(c)
    BY <1>2
  <2>2. m.chunk = c /\ m.frame = c.frame /\ m.meta = None
    BY <2>1 DEF ChunkMessage
  <2>3. c # None
    BY NoneAssumption
  <2>4. QED
    BY <2>2, <2>3, ChunkFacts
<1>3. QED
  BY <1>1, <1>2 DEF Message

LEMMA PieceFacts ==
  ASSUME NEW m \in Message, NEW f, NEW c, IsPiece(m, f, c)
  PROVE  /\ m.chunk.offset \in 0 .. (ImageChunks - 1) /\ m.meta = None
         /\ m.chunk.camera \in Cameras /\ m.chunk.image \in Images
<1>1. m.chunk \in Chunk /\ m.meta = None /\ m.chunk.image # None
  BY MessageFacts DEF IsPiece
<1>2. QED
  BY <1>1 DEF Chunk

(* Lanes stay declared and in order when the host moves on. *)
LEMMA LanesKept ==
  ASSUME CreditTypes, LanesDeclared, LanesOrdered, NEW G, NEW d, Taking(d, G),
         UNCHANGED agentVars, \A f \in FrameIds : Moves(d, f, frames'[f])
  PROVE  LanesDeclared' /\ LanesOrdered' /\ \A f \in FrameIds : Timed(frames'[f])
<1>1. UNCHANGED <<opened, passed, slots>>
  BY DEF agentVars
<1>2. /\ Len(link) \in Nat /\ d \in {0, 1} /\ Len(link') = Len(link) - d
      /\ \A k \in 1 .. Len(link') : link'[k] = link[k + d] /\ k + d \in 1 .. Len(link)
      /\ \A k \in 1 .. Len(link) : link[k] \in Message
  BY DEF CreditTypes, Taking
<1>3. \A f, c : \A k \in OnLink(f, c)' : k + d \in OnLink(f, c) /\ link'[k] = link[k + d]
  BY <1>2 DEF OnLink
<1>4. \A f \in FrameIds, c \in Cameras : Fills(f, c)' => Fills(f, c)
  BY <1>3 DEF Fills, Moves
<1>5. \A f \in FrameIds : MetasOf(f)' \subseteq MetasOf(f)
  <2> SUFFICES ASSUME NEW f \in FrameIds, NEW m \in MetasOf(f)' PROVE m \in MetasOf(f)
    OBVIOUS
  <2>1. m # None
    BY DEF MetasOf
  <2>2. CASE m = frames'[f].metadata
    BY <2>1, <2>2 DEF Moves
  <2>3. CASE m # frames'[f].metadata
    <3>1. PICK k \in 1 .. Len(link') : link'[k].frame = f /\ m = link'[k].meta
      BY <2>3 DEF MetasOf
    <3>2. QED
      BY <1>2, <2>1, <3>1 DEF MetasOf
  <2>4. QED
    BY <2>2, <2>3
<1>6. opened > 0 => Id(Current) \in FrameIds
  <2>1. opened > 0 => opened - 1 \in 0 .. (IdModulus - 1)
    BY IdAssumption, CreditAssumption DEF CreditTypes
  <2>2. QED
    BY <2>1, NumberFacts DEF Current
<1>7. LanesDeclared'
  <2>1. \A f \in FrameIds, c \in Cameras : Fills(f, c)' => \A m \in MetasOf(f)' : c \in Declared(m)
    BY <1>4, <1>5 DEF LanesDeclared
  <2>2. Id(Current)' = Id(Current)
    BY <1>1 DEF Id, Current
  <2>3. opened > 0 => /\ \A m \in MetasOf(Id(Current))' : m = slots
                      /\ \A c \in Cameras : Fills(Id(Current), c)' => c \in Declared(slots)
    BY <1>1, <1>4, <1>5, <1>6, <2>2 DEF LanesDeclared
  <2>4. QED
    BY <1>1, <2>1, <2>2, <2>3 DEF LanesDeclared
<1>8. ASSUME NEW f \in FrameIds, NEW c \in Cameras
      PROVE  /\ \A j, k \in OnLink(f, c)' :
                  j < k => link'[j].chunk.offset < link'[k].chunk.offset
             /\ (opened' > 0 /\ f = Id(Current)') =>
                  \A k \in OnLink(f, c)' : link'[k].chunk.offset < passed'[c]
             /\ frames'[f].ready[c] # <<>> =>
                  /\ frames'[f].pending[c] = <<>> /\ OnLink(f, c)' = {}
                  /\ (opened' > 0 /\ f = Id(Current)') => passed'[c] = ImageChunks
  <2>1. Id(Current)' = Id(Current) /\ opened' = opened /\ passed' = passed
    BY <1>1 DEF Id, Current
  <2>2. \A j, k \in OnLink(f, c)' : j < k => link'[j].chunk.offset < link'[k].chunk.offset
    <3> TAKE j \in OnLink(f, c)', k \in OnLink(f, c)'
    <3>1. j \in Int /\ k \in Int
      BY DEF OnLink
    <3>2. j < k => j + d < k + d
      BY <1>2, <3>1
    <3>3. QED
      BY <1>3, <3>2 DEF LanesOrdered
  <2>3. (opened > 0 /\ f = Id(Current)) =>
          \A k \in OnLink(f, c)' : link'[k].chunk.offset < passed[c]
    BY <1>3 DEF LanesOrdered
  <2>4. ASSUME frames'[f].ready[c] # <<>>
        PROVE  /\ frames'[f].pending[c] = <<>> /\ OnLink(f, c)' = {}
               /\ (opened > 0 /\ f = Id(Current)) => passed[c] = ImageChunks
    <3>1. /\ frames'[f].pending[c] = <<>>
          /\ frames[f].ready[c] # <<>> \/ (d = 1 /\ Ends(f, c))
      BY <2>4 DEF Moves
    <3>2. CASE frames[f].ready[c] # <<>>
      BY <1>3, <3>1, <3>2 DEF LanesOrdered
    <3>3. CASE d = 1 /\ Ends(f, c)
      <4>1. 1 \in OnLink(f, c) /\ link[1].chunk.offset = ImageChunks - 1
        <5>1. link # <<>> => 1 \in 1 .. Len(link)
          BY DEF CreditTypes
        <5>2. QED
          BY <3>3, <5>1 DEF Ends, OnLink
      <4>2. ASSUME NEW k \in OnLink(f, c)' PROVE FALSE
        <5>1. k + d \in OnLink(f, c) /\ 1 < k + d /\ k + d \in 1 .. Len(link)
              /\ IsPiece(link[k + d], f, c)
          BY <1>2, <1>3, <3>3 DEF OnLink
        <5>2. link[1].chunk.offset < link[k + d].chunk.offset
          BY <4>1, <5>1 DEF LanesOrdered
        <5>3. link[k + d].chunk.offset \in 0 .. (ImageChunks - 1)
          BY <1>2, <5>1, PieceFacts
        <5>4. QED
          BY <4>1, <5>2, <5>3, ChunksAssumption
      <4>3. (opened > 0 /\ f = Id(Current)) => passed[c] = ImageChunks
        <5>1. passed[c] \in 0 .. ImageChunks
          BY DEF CreditTypes
        <5>2. (opened > 0 /\ f = Id(Current)) => ImageChunks - 1 < passed[c]
          BY <4>1 DEF LanesOrdered
        <5>3. QED
          BY <5>1, <5>2, ChunksAssumption
      <4>4. QED
        BY <3>1, <4>2, <4>3
    <3>4. QED
      BY <3>1, <3>2, <3>3
  <2>5. QED
    BY <2>1, <2>2, <2>3, <2>4
<1>9. LanesOrdered'
  BY <1>8 DEF LanesOrdered
<1>10. QED
  BY <1>7, <1>9 DEF Moves

-----------------------------------------------------------------------------
(* How the host changes one frame *)

LEMMA SameMoves ==
  ASSUME WorkOwed, LanesOrdered, NEW f \in FrameIds, NEW d
  PROVE  Moves(d, f, frames[f])
<1>1. frames[f].metadata \in MetasOf(f) \cup {None}
  BY DEF MetasOf
<1>2. QED
  BY <1>1 DEF Moves, WorkOwed, LanesOrdered, Fills

(* What a record loses does no harm. *)
LEMMA ReducedMoves ==
  ASSUME NEW d, NEW f, NEW fr, Moves(d, f, fr), NEW new, Timed(new),
         new.metadata \in {fr.metadata, None},
         \A c \in Cameras : /\ new.pending[c] = fr.pending[c] \/ new.pending[c] = <<>>
                            /\ new.ready[c] = fr.ready[c] \/ new.ready[c] = <<>>
  PROVE  Moves(d, f, new)
<1>1. new.metadata \in MetasOf(f) \cup {None}
  BY DEF Moves
<1>2. ASSUME NEW c \in Cameras
      PROVE  /\ new.pending[c] # <<>> \/ new.ready[c] # <<>> => Fills(f, c)
             /\ new.ready[c] # <<>> => new.pending[c] = <<>>
                                       /\ (frames[f].ready[c] # <<>> \/ (d = 1 /\ Ends(f, c)))
  BY DEF Moves
<1>3. QED
  BY <1>1, <1>2 DEF Moves

LEMMA NoFrameMoves ==
  ASSUME NEW d, NEW f
  PROVE  Moves(d, f, NoFrame)
<1>1. /\ NoFrame.metadata = None /\ ~NoFrame.started /\ ~NoFrame.overdue
      /\ \A c \in Cameras : NoFrame.pending[c] = <<>> /\ NoFrame.ready[c] = <<>>
  BY DEF NoFrame, NoImages
<1>2. Pending(NoFrame) = {}
  BY <1>1 DEF Pending
<1>3. QED
  BY <1>1, <1>2 DEF Moves, Timed

LEMMA StartedMoves ==
  ASSUME NEW d, NEW f, NEW fr \in Frame, Moves(d, f, fr)
  PROVE  Moves(d, f, Started(fr)) /\ Started(fr).started
<1>1. /\ Started(fr).started /\ Started(fr).metadata = fr.metadata
      /\ Started(fr).pending = fr.pending /\ Started(fr).ready = fr.ready
  BY DEF Started, Frame
<1>2. QED
  BY <1>1, ReducedMoves DEF Timed

LEMMA RejectMoves ==
  ASSUME NEW d, NEW f, NEW fr \in Frame, Moves(d, f, fr), fr.started,
         NEW camera \in Cameras \cup {None}
  PROVE  Moves(d, f, Reject(fr, camera)) /\ Reject(fr, camera).started
<1>1. CASE camera = None
  BY <1>1 DEF Reject
<1>2. CASE camera \in Cameras
  <2> DEFINE ready == Cleared(fr.ready, camera)
             pending == Cleared(fr.pending, camera)
             new == [fr EXCEPT !.invalid = @ \cup {camera}, !.ready = ready,
                               !.pending = pending]
  <2>1. Reject(fr, camera) = new
    BY <1>2, CamerasAssumption DEF Reject
  <2>2. \A c \in Cameras : /\ pending[c] = fr.pending[c] \/ pending[c] = <<>>
                           /\ ready[c] = fr.ready[c] \/ ready[c] = <<>>
    BY <1>2 DEF Cleared, Frame
  <2> HIDE DEF ready, pending
  <2>3. new.started /\ new.metadata = fr.metadata /\ new.ready = ready /\ new.pending = pending
    BY DEF Frame
  <2> HIDE DEF new
  <2>4. QED
    BY <2>1, <2>2, <2>3, ReducedMoves DEF Timed
<1>3. QED
  BY <1>1, <1>2

(* A complete frame leaves nothing behind: all its lanes are declared, so ready. *)
LEMMA LeftoverMoves ==
  ASSUME LanesDeclared, NEW d, NEW f \in FrameIds, NEW fr \in Frame, Moves(d, f, fr),
         Completes(fr)
  PROVE  Moves(d, f, Leftover(fr)) /\ ~Leftover(fr).started
<1>1. fr.metadata \in MetasOf(f) /\ Ready(fr) = Declared(fr.metadata)
  BY DEF Moves, Completes, Expected, Declared
<1>2. ASSUME NEW c \in Cameras
      PROVE  fr.pending[c] = <<>>
  <2>1. fr.pending[c] # <<>> => c \in Ready(fr)
    BY <1>1 DEF Moves, LanesDeclared
  <2>2. QED
    BY <2>1 DEF Moves, Ready
<1>3. /\ Leftover(fr).pending = fr.pending /\ Leftover(fr).ready = NoImages
      /\ Leftover(fr).metadata = None /\ ~Leftover(fr).started /\ ~Leftover(fr).overdue
  BY DEF Leftover, NoFrame
<1>4. Timed(Leftover(fr))
  BY <1>2, <1>3 DEF Timed, Pending
<1>5. \A c \in Cameras : /\ Leftover(fr).pending[c] = fr.pending[c]
                         /\ Leftover(fr).ready[c] = <<>>
  BY <1>3 DEF NoImages
<1>6. QED
  BY <1>3, <1>4, <1>5, ReducedMoves

(* The piece at the head of the link finds its slot not ready; the last piece makes *)
(* it so.                                                                            *)
LEMMA PieceMoves ==
  ASSUME IInv, CreditTypes, WorkOwed, LanesOrdered, NEW c \in Chunk, link # <<>>,
         link[1].chunk = c, c.image # None, c.offset = Len(frames[c.frame].pending[c.camera]),
         frames[c.frame].pending[c.camera] # <<>> =>
           frames[c.frame].pending[c.camera][1].image = c.image
  PROVE  LET long == Extended(frames[c.frame], c)
         IN  /\ Moves(1, c.frame, long)
             /\ c.offset + 1 = ImageChunks => Moves(1, c.frame, Finished(long, c))
<1> DEFINE fr == frames[c.frame]
           long == Extended(fr, c)
           f == c.frame
<1>1. /\ f \in FrameIds /\ c.camera \in Cameras /\ FrameSound(fr) /\ c \in Chunk
      /\ c.offset \in 0 .. (ImageChunks - 1)
  BY DEF Chunk, IInv
<1>2. /\ long \in Frame /\ long.started /\ long.ready = fr.ready
      /\ long.metadata = fr.metadata
      /\ \A k \in Cameras \ {c.camera} : long.pending[k] = fr.pending[k]
      /\ long.pending[c.camera] # <<>>
  BY <1>1, ExtendedFacts
<1>3. 1 \in 1 .. Len(link) /\ link[1] \in Message
  BY DEF CreditTypes
<1>4. c # None
  BY NoneAssumption
<1>5. IsPiece(link[1], f, c.camera) /\ 1 \in OnLink(f, c.camera)
  <2>1. IsPiece(link[1], f, c.camera)
    BY <1>3, <1>4, MessageFacts DEF IsPiece
  <2>2. QED
    BY <1>3, <2>1 DEF OnLink
<1>6. fr.ready[c.camera] = <<>>
  BY <1>1, <1>5 DEF LanesOrdered
<1>7. Moves(1, f, fr)
  BY <1>1, SameMoves
<1> HIDE DEF long
<1>8. Moves(1, f, long)
  <2>1. \A k \in Cameras : /\ long.pending[k] # <<>> \/ long.ready[k] # <<>> => Fills(f, k)
                           /\ long.ready[k] # <<>> => long.pending[k] = <<>>
                                                      /\ frames[f].ready[k] # <<>>
    BY <1>2, <1>5, <1>6, <1>7 DEF Moves, Fills
  <2>2. QED
    BY <1>2, <1>7, <2>1 DEF Moves, Timed
<1>9. ASSUME c.offset + 1 = ImageChunks
      PROVE  Moves(1, f, Finished(long, c))
  <2> DEFINE image == fr.pending[c.camera]
             ready == WithImage(long.ready, c.camera, long.pending[c.camera])
             pending == Cleared(long.pending, c.camera)
             new == [long EXCEPT !.ready = ready, !.pending = pending]
  <2>1. Finished(long, c) = new
    BY DEF Finished
  <2>2. /\ pending[c.camera] = <<>>
        /\ \A k \in Cameras \ {c.camera} : pending[k] = long.pending[k] /\ ready[k] = long.ready[k]
    BY <1>1, <1>2 DEF Cleared, WithImage, Frame
  <2> HIDE DEF ready, pending
  <2>3. new.started /\ new.metadata = long.metadata /\ new.ready = ready /\ new.pending = pending
    BY <1>2 DEF Frame
  <2> HIDE DEF new
  <2>4. Ends(f, c.camera)
    BY <1>1, <1>5, <1>9, ChunksAssumption DEF Ends
  <2>5. Fills(f, c.camera)
    BY <1>5 DEF Fills
  <2>6. \A k \in Cameras :
          /\ new.pending[k] # <<>> \/ new.ready[k] # <<>> => Fills(f, k)
          /\ new.ready[k] # <<>> => new.pending[k] = <<>>
                                    /\ (frames[f].ready[k] # <<>> \/ Ends(f, k))
    <3> TAKE k \in Cameras
    <3>1. CASE k = c.camera
      BY <2>2, <2>3, <2>4, <2>5, <3>1
    <3>2. CASE k # c.camera
      BY <1>8, <2>2, <2>3, <3>2 DEF Moves
    <3>3. QED
      BY <3>1, <3>2
  <2>7. QED
    BY <1>8, <2>1, <2>3, <2>6 DEF Moves, Timed
<1>10. QED
  BY <1>8, <1>9 DEF long

-----------------------------------------------------------------------------
(* The calls of the host *)

CreditInv ==
  IInv /\ CreditTypes /\ AcksMatchCredit /\ InOrder /\ WorkOwed /\ Remembered
       /\ LanesDeclared /\ LanesOrdered

(* Whatever a call retires is in progress, and nothing in progress is settled. *)
LEMMA WorkFacts ==
  ASSUME IInv, WorkOwed
  PROVE  /\ Working \in SUBSET FrameIds /\ Working \cap Range(settledOrder) = {}
         /\ Overdue \subseteq Working /\ \A id : OlderThan(id) \subseteq Working
         /\ \A f \in FrameIds : frames[f] \in Frame /\ FrameSound(frames[f])
<1>1. \A f \in FrameIds : Holds(frames[f]) => f \in Working
  BY DEF IInv, FrameSound, WorkOwed, Timed, Working, Holds
<1>2. Overdue \subseteq Working
  BY DEF Overdue, WorkOwed, Timed, Working
<1>3. Working \cap Range(settledOrder) = {}
  BY DEF IInv, SettledFrameReleased, Working
<1>4. QED
  BY <1>1, <1>2, <1>3 DEF OlderThan, Working, IInv, FrameSound

(* consume() acknowledges what the call reports, each frame once. *)
LEMMA ConsumeFacts ==
  ASSUME CreditTypes, Consume, NEW D \in SUBSET FrameIds, result'.discarded = D,
         NEW E, \/ result'.completed = None /\ E = {}
                \/ /\ result'.completed # None /\ E = {result'.completed.frame}
                   /\ result'.completed.frame \in FrameIds \ D
  PROVE  \E x \in Seq(FrameIds) : IsInjective(x) /\ Range(x) = D \cup E /\ acks' = acks \o x
<1>1. PICK ids \in Ascending(D) :
        acks' = acks \o ids \o (IF result'.completed = None THEN <<>>
                                ELSE <<result'.completed.frame>>)
  BY DEF Consume
<1>2. /\ ids \in Seq(FrameIds) /\ Range(ids) = D /\ IsInjective(ids) /\ acks \in Seq(FrameIds)
      /\ Len(ids) \in Nat /\ DOMAIN ids = 1 .. Len(ids)
  BY AscendingFacts, RangeFacts DEF CreditTypes
<1>3. CASE result'.completed = None
  <2>1. acks' = (acks \o ids) \o <<>> /\ acks \o ids \in Seq(FrameIds)
    BY <1>1, <1>2, <1>3
  <2>2. acks' = acks \o ids
    BY <2>1, ConcatEmptySeq
  <2>3. QED
    BY <1>2, <1>3, <2>2
<1>4. CASE result'.completed # None
  <2> DEFINE f == result'.completed.frame
             x == ids \o <<f>>
  <2>1. f \in FrameIds /\ f \notin D /\ E = {f}
    BY <1>4
  <2>2. acks' = (acks \o ids) \o <<f>>
    BY <1>1, <1>4
  <2> HIDE DEF f
  <2>3. <<f>> \in Seq(FrameIds)
    BY <2>1
  <2>4. acks' = acks \o x
    BY <1>2, <2>2, <2>3, ConcatAssociative, SMTT(30)
  <2>5. /\ x \in Seq(FrameIds) /\ Len(x) = Len(ids) + 1
        /\ \A k \in 1 .. Len(ids) : x[k] = ids[k] /\ k \in 1 .. Len(x)
        /\ x[Len(x)] = f /\ Len(x) \in 1 .. Len(x)
        /\ \A k \in 1 .. Len(x) : k \in 1 .. Len(ids) \/ k = Len(x)
    BY <1>2, <2>3
  <2> HIDE DEF x
  <2>6. Range(x) = D \cup {f}
    <3>1. \A k \in 1 .. Len(x) : x[k] \in D \cup {f}
      BY <1>2, <2>5, RangeFacts
    <3>2. \A g \in D : \E k \in 1 .. Len(x) : x[k] = g
      BY <1>2, <2>5, RangeFacts
    <3>3. QED
      BY <2>5, <3>1, <3>2, RangeFacts
  <2>7. IsInjective(x)
    <3>1. \A i, j \in 1 .. Len(ids) : ids[i] = ids[j] => i = j
      BY <1>2 DEF IsInjective
    <3>2. \A i \in 1 .. Len(ids) : ids[i] # f
      BY <1>2, <2>1, RangeFacts
    <3>3. \A i, j \in 1 .. Len(x) : x[i] = x[j] => i = j
      BY <2>5, <3>1, <3>2
    <3>4. QED
      BY <2>5, <3>3, RangeFacts DEF IsInjective
  <2>8. QED
    BY <2>1, <2>4, <2>5, <2>6, <2>7
<1>5. QED
  BY <1>3, <1>4

LEMMA DiscardingConsumed ==
  ASSUME CreditTypes, Consume, NEW S \in SUBSET FrameIds, Settles(S) = S,
         result' = Discarding(S)
  PROVE  \E x \in Seq(FrameIds) : IsInjective(x) /\ Range(x) = S /\ acks' = acks \o x
<1>1. result'.discarded = S /\ result'.completed = None /\ S \cup {} = S
  BY DEF Discarding
<1>2. \E x \in Seq(FrameIds) : IsInjective(x) /\ Range(x) = S \cup {} /\ acks' = acks \o x
  BY <1>1, ConsumeFacts
<1>3. QED
  BY <1>1, <1>2

(* A call that settles nothing. *)
LEMMA QuietConsumed ==
  ASSUME CreditTypes, Consume, result' = NoResult
  PROVE  \E x \in Seq(FrameIds) : IsInjective(x) /\ Range(x) = {} /\ acks' = acks \o x
<1>1. result'.discarded = {} /\ result'.completed = None
  BY DEF NoResult
<1>2. \E x \in Seq(FrameIds) : IsInjective(x) /\ Range(x) = {} \cup {} /\ acks' = acks \o x
  BY <1>1, ConsumeFacts
<1>3. QED
  BY <1>2

LEMMA UnchangedCredit ==
  ASSUME CreditInv, Consume, result' = NoResult, NEW d, NEW G,
         UNCHANGED <<frames, newestFrameId, settledOrder>>
  PROVE  Settling({}, G) /\ \A f \in FrameIds : Moves(d, f, frames'[f])
<1>1. Working' = Working
  BY DEF Working
<1>2. Remembers(settledOrder, settledOrder', {})
  BY NothingForgotten DEF CreditInv, IInv, HistoryType
<1>3. Settling({}, G)
  BY <1>1, <1>2, QuietConsumed DEF Settling, CreditInv
<1>4. QED
  BY <1>3, SameMoves DEF CreditInv

LEMMA ExpireCredit ==
  ASSUME CreditInv, Expire, Consume
  PROVE  Settling(Overdue, {}) /\ \A f \in FrameIds : Moves(0, f, frames'[f])
<1>1. PICK history \in HistoriesAfter(Overdue) :
        /\ frames' = [f \in FrameIds |-> IF f \in Overdue THEN NoFrame ELSE frames[f]]
        /\ settledOrder' = history
        /\ result' = Discarding(Overdue)
        /\ UNCHANGED newestFrameId
  BY DEF Expire
<1>2. /\ Overdue \subseteq Working /\ Overdue \in SUBSET FrameIds
      /\ Overdue \cap Range(settledOrder) = {}
  BY WorkFacts DEF CreditInv
<1>3. Settles(Overdue) = Overdue /\ Remembers(settledOrder, settledOrder', Overdue)
  BY <1>1, <1>2, RetiredRemembered DEF CreditInv, IInv
<1>4. Working' = Working \ Overdue
  BY <1>1, NoFrameSound DEF Working
<1>5. Settling(Overdue, {})
  <2>1. \E x \in Seq(FrameIds) : IsInjective(x) /\ Range(x) = Overdue /\ acks' = acks \o x
    BY <1>1, <1>2, <1>3, DiscardingConsumed DEF CreditInv
  <2>2. QED
    BY <1>1, <1>2, <1>3, <1>4, <2>1 DEF Settling
<1>6. \A f \in FrameIds : Moves(0, f, frames'[f])
  BY <1>1, NoFrameMoves, SameMoves DEF CreditInv
<1>7. QED
  BY <1>5, <1>6

(* A chunk leaves its frame unfinished. *)
LEMMA KeepCredit ==
  ASSUME CreditInv, Consume, NEW c \in Chunk, Advance(c),
         NEW history \in HistoriesAfter(OlderThan(c.frame)),
         NEW fr, FrameSound(fr), Moves(1, c.frame, fr),
         c.frame \in Range(history) => fr = frames[c.frame],
         Keep(c, history, fr)
  PROVE  /\ Settling(OlderThan(c.frame), {c.frame})
         /\ \A f \in FrameIds : Moves(1, f, frames'[f])
<1> DEFINE older == OlderThan(c.frame)
           id == c.frame
<1>1. /\ id \in FrameIds /\ ~IsLate(id) /\ newestFrameId' = id /\ Replace(older, id, fr)
      /\ settledOrder' = history /\ result' = Discarding(older)
  BY ChunkFacts DEF Advance, Keep
<1>2. /\ older \subseteq Working /\ older \in SUBSET FrameIds /\ id \notin older
      /\ older \cap Range(settledOrder) = {} /\ Working \cap Range(settledOrder) = {}
  BY <1>1, WorkFacts, NotNewerThanItself DEF CreditInv
<1>3. /\ frames'[id] = fr /\ \A f \in older : frames'[f] = NoFrame
      /\ \A f \in FrameIds \ older : f # id => frames'[f] = frames[f]
  BY <1>1, ReplacedFrames DEF CreditInv
<1>4. Settles(older) = older /\ Remembers(settledOrder, settledOrder', older)
  BY <1>1, <1>2, RetiredRemembered DEF CreditInv, IInv
<1>5. \E x \in Seq(FrameIds) : IsInjective(x) /\ Range(x) = older /\ acks' = acks \o x
  BY <1>1, <1>2, <1>4, DiscardingConsumed DEF CreditInv
<1> HIDE DEF older
<1>6. Working' \cap older = {}
  BY <1>3, NoFrameSound DEF Working
<1>7. Working' \ Working \subseteq {id} \ Range(settledOrder')
  <2> SUFFICES ASSUME NEW f \in Working', f \notin Working
               PROVE  f = id /\ f \notin Range(settledOrder')
    OBVIOUS
  <2>1. f = id
    BY <1>3, <1>6 DEF Working
  <2>2. frames'[f] # frames[f]
    BY DEF Working
  <2>3. QED
    BY <1>1, <1>3, <2>1, <2>2
<1>8. Settling(older, {id})
  BY <1>1, <1>2, <1>4, <1>5, <1>6, <1>7 DEF Settling
<1>9. \A f \in FrameIds : Moves(1, f, frames'[f])
  BY <1>3, NoFrameMoves, SameMoves DEF CreditInv
<1>10. QED
  BY <1>8, <1>9 DEF older

(* A call that completes the frame id, after retiring S. *)
LEMMA CompletingCredit ==
  ASSUME CreditInv, Consume, NEW S \in SUBSET Working, Settles(S) = S, NEW id \in Working \ S,
         NEW h, Remembers(settledOrder, h, S), settledOrder' = Recent(Append(h, id)),
         NEW fr, FrameSound(fr), Completes(fr),
         result' = [Discarding(S) EXCEPT !.completed = CompletedSet(id, fr)],
         newestFrameId' \in {newestFrameId, id},
         \A f \in S \cup {id} : ~frames'[f].started,
         \A f \in FrameIds \ (S \cup {id}) : frames'[f].started = frames[f].started
  PROVE  Settling(S \cup {id}, {id})
<1>1. /\ S \in SUBSET FrameIds /\ id \in FrameIds /\ settledOrder \in Seq(FrameIds)
      /\ CreditTypes
  BY DEF Working, CreditInv, IInv, HistoryType
<1>2. CompletedSet(id, fr) \in FrameSet /\ CompletedSet(id, fr).frame = id
  BY <1>1, FrameSetOfCompleted DEF CompletedSet
<1>3. CompletedSet(id, fr) # None
  BY <1>2, NoneAssumption
<1>4. result'.discarded = S /\ result'.completed = CompletedSet(id, fr)
  BY DEF Discarding
<1>5. \E x \in Seq(FrameIds) : IsInjective(x) /\ Range(x) = S \cup {id} /\ acks' = acks \o x
  <2>1. /\ result'.completed # None /\ {id} = {result'.completed.frame}
        /\ result'.completed.frame \in FrameIds \ S
    BY <1>1, <1>2, <1>3, <1>4
  <2>2. QED
    BY <1>1, <1>4, <2>1, ConsumeFacts
<1>6. Remembers(settledOrder, settledOrder', S \cup {id})
  BY <1>1, AppendedRemembered
<1>7. /\ S \cup {id} \subseteq Working /\ Working' \cap (S \cup {id}) = {}
      /\ Working' \subseteq Working
  BY DEF Working
<1>8. QED
  BY <1>5, <1>6, <1>7 DEF Settling

(* The host handles a chunk, the first message of the link. *)
LEMMA IngestCredit ==
  ASSUME CreditInv, Consume, NEW c \in Chunk, Ingest(c), link # <<>>, link[1].chunk = c
  PROVE  /\ \E S : Settling(S, {c.frame})
         /\ \A f \in FrameIds : Moves(1, f, frames'[f])
<1> DEFINE id == c.frame
           fr == frames[id]
           older == OlderThan(id)
<1>1. /\ id \in FrameIds /\ fr \in Frame /\ FrameSound(fr) /\ c.camera \in Cameras \cup {None}
      /\ ~BadEnvelope(c) => c.camera \in Cameras /\ c.image # None
      /\ Moves(1, id, fr)
  BY ChunkFacts, WorkFacts, SameMoves DEF CreditInv
<1>2. /\ FrameSound(Started(fr)) /\ Started(fr) \in Frame /\ Started(fr).started
      /\ Moves(1, id, Started(fr))
  BY <1>1, StartedMoves, StartedSound DEF FrameSound
<1>3. /\ FrameSound(Reject(Started(fr), c.camera))
      /\ Moves(1, id, Reject(Started(fr), c.camera))
  BY <1>1, <1>2, RejectSound, RejectMoves
<1>4. CASE IngestLate(c)
  <2>1. UNCHANGED <<frames, newestFrameId, settledOrder>> /\ result' = NoResult
    BY <1>4 DEF IngestLate
  <2>2. QED
    BY <2>1, UnchangedCredit
<1>5. ASSUME NEW history \in HistoriesAfter(older),
             \/ IngestSettled(c, history)
             \/ IngestInvalid(c, history)
             \/ IngestIgnored(c, history)
             \/ IngestDiscontinuous(c, history)
             \/ IngestPiece(c, history)
             \/ IngestDuplicateImage(c, history)
             \/ IngestImage(c, history)
      PROVE  /\ \E S : Settling(S, {id})
             /\ \A f \in FrameIds : Moves(1, f, frames'[f])
  <2>1. ASSUME Accepts(c, history)
        PROVE  /\ c.camera \in Cameras /\ c.image # None /\ c.camera \notin fr.invalid
               /\ c.offset = Len(fr.pending[c.camera])
               /\ fr.pending[c.camera] # <<>> => fr.pending[c.camera][1].image = c.image
               /\ Advance(c) /\ id \notin Range(history)
               /\ Extended(fr, c) \in Frame /\ Extended(fr, c).started
               /\ Moves(1, id, Extended(fr, c))
               /\ c.offset + 1 = ImageChunks => Moves(1, id, Finished(Extended(fr, c), c))
    <3>1. /\ c.camera \in Cameras /\ c.image # None /\ c.camera \notin fr.invalid
          /\ c.offset = Len(fr.pending[c.camera])
          /\ fr.pending[c.camera] # <<>> => fr.pending[c.camera][1].image = c.image
          /\ Advance(c) /\ id \notin Range(history)
      BY <1>1, <2>1 DEF Accepts, Discontinuous
    <3>2. Extended(fr, c) \in Frame /\ Extended(fr, c).started
      BY <1>1, <3>1, ExtendedFacts
    <3>3. /\ Moves(1, id, Extended(fr, c))
          /\ c.offset + 1 = ImageChunks => Moves(1, id, Finished(Extended(fr, c), c))
      BY <3>1, PieceMoves DEF CreditInv
    <3>4. QED
      BY <3>1, <3>2, <3>3
  <2>2. CASE IngestSettled(c, history)
    BY <1>1, <2>2, KeepCredit DEF IngestSettled
  <2>3. CASE IngestInvalid(c, history)
    BY <1>3, <2>3, KeepCredit DEF IngestInvalid
  <2>4. CASE IngestIgnored(c, history)
    BY <1>2, <2>4, KeepCredit DEF IngestIgnored
  <2>5. CASE IngestDiscontinuous(c, history)
    BY <1>3, <2>5, KeepCredit DEF IngestDiscontinuous
  <2>6. CASE IngestPiece(c, history)
    <3>1. FrameSound(Extended(fr, c)) /\ Keep(c, history, Extended(fr, c))
      BY <1>1, <2>1, <2>6, PieceSound DEF IngestPiece
    <3>2. QED
      BY <2>1, <2>6, <3>1, KeepCredit DEF IngestPiece
  <2>7. CASE IngestDuplicateImage(c, history)
    <3> DEFINE new == Reject(Extended(fr, c), c.camera)
    <3>1. Accepts(c, history) /\ Keep(c, history, new)
      BY <2>7 DEF IngestDuplicateImage
    <3>2. FrameSound(new) /\ Moves(1, id, new)
      BY <1>1, <2>1, <3>1, DuplicateSound, RejectMoves
    <3>3. QED
      BY <2>1, <3>1, <3>2, KeepCredit
  <2>8. CASE IngestImage(c, history)
    <3> DEFINE new == Finished(Extended(fr, c), c)
    <3>1. /\ Accepts(c, history) /\ c.offset + 1 = ImageChunks
          /\ \/ Keep(c, history, new)
             \/ /\ Completes(new)
                /\ Replace(older, id, Leftover(new))
                /\ settledOrder' = Recent(Append(history, id))
                /\ result' = [Discarding(older) EXCEPT !.completed = CompletedSet(id, new)]
      BY <2>8 DEF IngestImage
    <3>2. FrameSound(new) /\ new.metadata = fr.metadata /\ new \in Frame
      BY <1>1, <2>1, <3>1, ImageSound DEF FrameSound
    <3>3. Moves(1, id, new)
      BY <2>1, <3>1
    <3> HIDE DEF new
    <3>4. CASE Keep(c, history, new)
      BY <2>1, <3>1, <3>2, <3>3, <3>4, KeepCredit
    <3>5. CASE ~Keep(c, history, new)
      <4>1. /\ Completes(new) /\ Replace(older, id, Leftover(new))
            /\ settledOrder' = Recent(Append(history, id))
            /\ result' = [Discarding(older) EXCEPT !.completed = CompletedSet(id, new)]
            /\ ~IsLate(id) /\ newestFrameId' = id
        BY <2>1, <3>1, <3>5 DEF Advance
      <4>2. /\ older \in SUBSET Working /\ older \in SUBSET FrameIds /\ id \notin older
            /\ older \cap Range(settledOrder) = {}
        BY <1>1, WorkFacts, NotNewerThanItself DEF CreditInv
      <4>3. id \in Working
        BY <1>1, <3>2, <4>1 DEF Working, FrameSound, Completes
      <4>4. Settles(older) = older /\ Remembers(settledOrder, history, older)
        BY <4>2, RetiredRemembered DEF CreditInv, IInv
      <4>5. /\ FrameSound(Leftover(new)) /\ Moves(1, id, Leftover(new))
            /\ ~Leftover(new).started
        BY <1>1, <3>2, <3>3, <4>1, LeftoverSound, LeftoverMoves DEF CreditInv
      <4>6. /\ frames'[id] = Leftover(new) /\ \A f \in older : frames'[f] = NoFrame
            /\ \A f \in FrameIds \ older : f # id => frames'[f] = frames[f]
        BY <1>1, <4>1, <4>5, ReplacedFrames DEF CreditInv
      <4> HIDE DEF older
      <4>7. /\ \A f \in older \cup {id} : ~frames'[f].started
            /\ \A f \in FrameIds \ (older \cup {id}) : frames'[f].started = frames[f].started
        BY <4>5, <4>6, NoFrameSound
      <4>8. Settling(older \cup {id}, {id})
        BY <3>2, <4>1, <4>2, <4>3, <4>4, <4>7, CompletingCredit
      <4>9. \A f \in FrameIds : Moves(1, f, frames'[f])
        BY <4>5, <4>6, NoFrameMoves, SameMoves DEF CreditInv
      <4>10. QED
        BY <4>8, <4>9
    <3>6. QED
      BY <3>4, <3>5
  <2>9. QED
    BY <1>5, <2>2, <2>3, <2>4, <2>5, <2>6, <2>7, <2>8
<1>6. QED
  BY <1>4, <1>5 DEF Ingest

(* The host handles a metadata record, the first message of the link. *)
LEMMA MetadataCredit ==
  ASSUME CreditInv, Consume, NEW f \in FrameIds, NEW m \in Metas, AddMetadata(f, m),
         link # <<>>, link[1].frame = f, link[1].meta = m
  PROVE  /\ \E S : Settling(S, {f})
         /\ \A g \in FrameIds : Moves(1, g, frames'[g])
<1> DEFINE old == frames[f]
           fr == [Started(old) EXCEPT !.metadata = m]
<1>1. /\ old \in Frame /\ FrameSound(old) /\ Moves(1, f, old) /\ m # None
      /\ Started(old) \in Frame /\ FrameSound(Started(old)) /\ Moves(1, f, Started(old))
      /\ \A g \in FrameIds : FrameSound(frames[g]) /\ frames[g] \in Frame
      /\ CreditTypes /\ frames \in [FrameIds -> Frame]
  BY WorkFacts, SameMoves, StartedMoves, StartedSound, MetasAssumption DEF CreditInv, FrameSound, IInv
<1>2. m \in MetasOf(f)
  <2>1. 1 \in 1 .. Len(link)
    BY <1>1 DEF CreditTypes
  <2>2. QED
    BY <1>1, <2>1 DEF MetasOf
<1>3. /\ fr \in Frame /\ fr.started /\ fr.metadata = m /\ fr.ready = old.ready
      /\ fr.pending = old.pending /\ fr.invalid = old.invalid
  BY <1>1, ZenonT(40) DEF Started, Frame
<1> HIDE DEF fr
<1>4. FrameSound(fr) /\ Moves(1, f, fr)
  <2>1. Ready(fr) = Ready(old)
    BY <1>3 DEF Ready
  <2>2. FrameSound(fr)
    BY <1>1, <1>3, <2>1 DEF FrameSound
  <2>3. QED
    BY <1>1, <1>2, <1>3, <2>2 DEF Moves, Timed
<1>5. ASSUME NEW new, FrameSound(new), Moves(1, f, new),
             frames' = Capped([frames EXCEPT ![f] = new])
      PROVE  /\ frames'[f].started = new.started
             /\ \A g \in FrameIds \ {f} : frames'[g].started = frames[g].started
             /\ \A g \in FrameIds : Moves(1, g, frames'[g])
  <2> DEFINE fs == [frames EXCEPT ![f] = new]
  <2>1. /\ fs \in [FrameIds -> Frame] /\ \A g \in FrameIds : FrameSound(fs[g])
        /\ \A g \in FrameIds : fs[g] = IF g = f THEN new ELSE frames[g]
    BY <1>1, <1>5 DEF FrameSound
  <2>2. frames' = Capped(fs)
    BY <1>5
  <2> HIDE DEF fs
  <2>3. \A g \in FrameIds : frames'[g] = fs[g] \/ frames'[g] = [fs[g] EXCEPT !.metadata = None]
    BY <2>2 DEF Capped
  <2>4. ASSUME NEW g \in FrameIds
        PROVE  /\ frames'[g].started = fs[g].started /\ frames'[g].overdue = fs[g].overdue
               /\ frames'[g].pending = fs[g].pending /\ frames'[g].ready = fs[g].ready
               /\ frames'[g].metadata \in {fs[g].metadata, None}
    <3>1. fs[g] \in Frame
      BY <2>1
    <3>2. QED
      BY <2>3, <3>1 DEF Frame
  <2>5. ASSUME NEW g \in FrameIds
        PROVE  Moves(1, g, frames'[g])
    <3>1. Moves(1, g, fs[g])
      BY <1>5, <2>1, SameMoves DEF CreditInv
    <3>2. Timed(frames'[g])
      BY <2>4, <3>1 DEF Moves, Timed, Pending
    <3>3. QED
      BY <2>4, <3>1, <3>2, ReducedMoves
  <2>6. QED
    BY <2>1, <2>4, <2>5
<1>6. CASE MetadataRefused(f, m)
  <2>1. UNCHANGED <<frames, newestFrameId, settledOrder>> /\ result' = NoResult
    BY <1>6 DEF MetadataRefused
  <2>2. QED
    BY <2>1, UnchangedCredit
<1>7. CASE MetadataKept(f, m)
  <2>1. /\ f \notin Range(settledOrder) /\ frames' = Capped([frames EXCEPT ![f] = fr])
        /\ UNCHANGED <<newestFrameId, settledOrder>> /\ result' = NoResult
    BY <1>7 DEF MetadataKept, RefusesMetadata, fr
  <2>2. /\ \A g \in FrameIds \ {f} : frames'[g].started = frames[g].started
        /\ \A g \in FrameIds : Moves(1, g, frames'[g])
    BY <1>4, <1>5, <2>1
  <2>3. Working' \ Working \subseteq {f} \ Range(settledOrder')
    BY <2>1, <2>2 DEF Working
  <2>4. Remembers(settledOrder, settledOrder', {})
    BY <2>1, NothingForgotten DEF CreditInv, IInv, HistoryType
  <2>5. \E x \in Seq(FrameIds) : IsInjective(x) /\ Range(x) = {} /\ acks' = acks \o x
    BY <1>1, <2>1, QuietConsumed
  <2>6. Settling({}, {f})
    BY <2>1, <2>3, <2>4, <2>5 DEF Settling
  <2>7. QED
    BY <2>2, <2>6
<1>8. CASE MetadataCompletes(f, m)
  <2>1. /\ Completes(fr)
        /\ frames' = Capped([frames EXCEPT ![f] = Leftover(fr)])
        /\ settledOrder' = Recent(Append(settledOrder, f))
        /\ result' = [NoResult EXCEPT !.completed = CompletedSet(f, fr)]
        /\ UNCHANGED newestFrameId
    BY <1>8 DEF MetadataCompletes, fr
  <2>2. /\ FrameSound(Leftover(fr)) /\ Moves(1, f, Leftover(fr)) /\ ~Leftover(fr).started
    BY <1>3, <1>4, <2>1, LeftoverSound, LeftoverMoves DEF CreditInv
  <2>3. /\ ~frames'[f].started
        /\ \A g \in FrameIds \ {f} : frames'[g].started = frames[g].started
        /\ \A g \in FrameIds : Moves(1, g, frames'[g])
    BY <1>5, <2>1, <2>2
  <2>4. f \in Working
    BY <1>1, <1>3, <2>1 DEF Working, FrameSound, Completes, HasPartial, Ready
  <2>5. Discarding({}) = NoResult /\ Settles({}) = {}
    BY DEF NoResult, Discarding, Settles, Partials
  <2>6. Remembers(settledOrder, settledOrder, {})
    BY NothingForgotten DEF CreditInv, IInv, HistoryType
  <2>7. Settling({} \cup {f}, {f})
    BY <1>4, <2>1, <2>3, <2>4, <2>5, <2>6, CompletingCredit
  <2>8. QED
    BY <2>3, <2>7
<1>9. QED
  BY <1>6, <1>7, <1>8 DEF AddMetadata

-----------------------------------------------------------------------------
(* The steps of the host *)

LEMMA HostSound ==
  ASSUME CreditInv, IInv', NEW S, NEW G, NEW d, Settling(S, G), Taking(d, G),
         UNCHANGED agentVars, \A f \in FrameIds : Moves(d, f, frames'[f])
  PROVE  CreditInv'
<1>1. /\ CreditTypes' /\ AcksMatchCredit' /\ InOrder' /\ Remembered'
      /\ Working' \subseteq Owed'
  BY HostKeeps DEF CreditInv, IInv, NewestType
<1>2. LanesDeclared' /\ LanesOrdered' /\ \A f \in FrameIds : Timed(frames'[f])
  BY LanesKept DEF CreditInv
<1>3. WorkOwed'
  BY <1>1, <1>2 DEF WorkOwed
<1>4. QED
  BY <1>1, <1>2, <1>3 DEF CreditInv

LEMMA TakingNothing ==
  ASSUME CreditTypes, link' = link
  PROVE  Taking(0, {})
<1>1. Len(link) \in Nat /\ \A k \in 1 .. Len(link) : k + 0 = k
  BY DEF CreditTypes
<1>2. QED
  BY <1>1 DEF CreditTypes, Taking

(* Every call of the host settles some frames of those in progress. *)
LEMMA HostExpiresCredit ==
  ASSUME CreditInv, HostExpires
  PROVE  /\ IInv' /\ UNCHANGED agentVars
         /\ \E S, G, d : /\ Settling(S, G) /\ Taking(d, G)
                        /\ \A f \in FrameIds : Moves(d, f, frames'[f])
<1>1. Expire /\ Consume /\ UNCHANGED <<agentVars, link>>
  BY DEF HostExpires
<1>2. IInv'
  BY <1>1, ExpireSound DEF CreditInv
<1>3. Settling(Overdue, {}) /\ \A f \in FrameIds : Moves(0, f, frames'[f])
  BY <1>1, ExpireCredit
<1>4. Taking(0, {})
  BY <1>1, TakingNothing DEF CreditInv
<1>5. QED
  BY <1>1, <1>2, <1>3, <1>4

LEMMA HostReadsCredit ==
  ASSUME CreditInv, HostReads
  PROVE  /\ IInv' /\ UNCHANGED agentVars
         /\ \E S, G, d : /\ Settling(S, G) /\ Taking(d, G)
                        /\ \A f \in FrameIds : Moves(d, f, frames'[f])
<1> DEFINE message == Head(link)
           f == message.frame
<1>1. /\ link # <<>> /\ link' = Tail(link) /\ Consume /\ UNCHANGED agentVars
      /\ \/ message.chunk # None /\ Ingest(message.chunk)
         \/ message.chunk = None /\ AddMetadata(f, message.meta)
  BY DEF HostReads
<1>2. /\ message = link[1] /\ message \in Message /\ link \in Seq(Message)
      /\ link' \in Seq(Message) /\ Len(link') = Len(link) - 1 /\ Len(link) \in Nat
      /\ \A k \in 1 .. Len(link') : link'[k] = link[k + 1]
  <2>1. link \in Seq(Message)
    BY DEF CreditInv, CreditTypes
  <2>2. QED
    BY <1>1, <2>1
<1> HIDE DEF message
<1>3. f \in FrameIds /\ f = link[1].frame
  BY <1>2, MessageFacts
<1>4. Taking(1, {f})
  BY <1>1, <1>2, <1>3 DEF Taking
<1>5. CASE message.chunk # None
  <2>1. message.chunk \in Chunk /\ Ingest(message.chunk) /\ message.chunk.frame = f
    BY <1>1, <1>2, <1>5, MessageFacts
  <2>2. IInv'
    BY <2>1, IngestSound DEF CreditInv
  <2>3. PICK S : Settling(S, {f}) /\ \A g \in FrameIds : Moves(1, g, frames'[g])
    BY <1>1, <1>2, <2>1, IngestCredit
  <2>4. QED
    BY <1>1, <1>4, <2>2, <2>3
<1>6. CASE message.chunk = None
  <2>1. message.meta \in Metas /\ AddMetadata(f, message.meta)
    BY <1>1, <1>2, <1>6, MessageFacts
  <2>2. IInv'
    BY <1>3, <2>1, MetadataSound DEF CreditInv
  <2>3. PICK S : Settling(S, {f}) /\ \A g \in FrameIds : Moves(1, g, frames'[g])
    BY <1>1, <1>2, <1>3, <2>1, MetadataCredit
  <2>4. QED
    BY <1>1, <1>4, <2>2, <2>3
<1>7. QED
  BY <1>5, <1>6

LEMMA HostCallSound ==
  ASSUME CreditInv, HostExpires \/ HostReads
  PROVE  CreditInv'
<1>1. /\ IInv' /\ UNCHANGED agentVars
      /\ \E S, G, d : /\ Settling(S, G) /\ Taking(d, G)
                     /\ \A f \in FrameIds : Moves(d, f, frames'[f])
  BY HostExpiresCredit, HostReadsCredit
<1>2. QED
  BY <1>1, HostSound

(* Nothing moves but, perhaps, the clock. *)
LEMMA IdleSound ==
  ASSUME CreditInv, IInv', UNCHANGED <<newestFrameId, settledOrder, link, acks, agentVars>>,
         \A f \in FrameIds : /\ frames'[f].started = frames[f].started
                             /\ Moves(0, f, frames'[f])
  PROVE  CreditInv'
<1>1. settledOrder \in Seq(FrameIds) /\ acks \in Seq(FrameIds) /\ CreditTypes
  BY DEF CreditInv, CreditTypes, IInv, HistoryType
<1>2. Taking(0, {})
  BY <1>1, TakingNothing
<1>3. <<>> \in Seq(FrameIds) /\ Range(<<>>) = {} /\ IsInjective(<<>>)
  BY DEF Range, IsInjective
<1>4. acks' = acks \o <<>>
  BY <1>1, ConcatEmptySeq
<1>5. \E x \in Seq(FrameIds) : IsInjective(x) /\ Range(x) = {} /\ acks' = acks \o x
  BY <1>3, <1>4
<1>6. Remembers(settledOrder, settledOrder', {}) /\ Working' = Working
  BY <1>1, NothingForgotten DEF Working
<1>7. Settling({}, {})
  BY <1>5, <1>6 DEF Settling
<1>8. QED
  BY <1>2, <1>7, HostSound

LEMMA TimesOutSound ==
  ASSUME CreditInv, UNCHANGED <<vars, agentVars, link, acks>>
  PROVE  CreditInv'
<1>1. IInv'
  BY NextSound DEF CreditInv
<1>2. UNCHANGED <<frames, newestFrameId, settledOrder>>
  BY DEF vars
<1>3. QED
  BY <1>1, <1>2, IdleSound, SameMoves DEF CreditInv

LEMMA ClockTicksSound ==
  ASSUME CreditInv, ClockTicks
  PROVE  CreditInv'
<1>1. SecondPasses /\ UNCHANGED <<agentVars, link, acks>>
  BY DEF ClockTicks
<1>2. IInv'
  BY <1>1, ClockSound DEF CreditInv
<1>3. /\ frames' = [f \in FrameIds |-> [frames[f] EXCEPT !.overdue = frames[f].started]]
      /\ UNCHANGED <<newestFrameId, settledOrder>>
  BY <1>1 DEF SecondPasses
<1>4. ASSUME NEW f \in FrameIds
      PROVE  frames'[f].started = frames[f].started /\ Moves(0, f, frames'[f])
  <2>1. frames[f] \in Frame /\ Moves(0, f, frames[f])
    BY WorkFacts, SameMoves DEF CreditInv
  <2>2. /\ frames'[f].started = frames[f].started /\ frames'[f].overdue = frames[f].started
        /\ frames'[f].pending = frames[f].pending /\ frames'[f].ready = frames[f].ready
        /\ frames'[f].metadata = frames[f].metadata
    BY <1>3, <2>1 DEF Frame
  <2>3. Timed(frames'[f])
    BY <2>1, <2>2 DEF Moves, Timed, Pending
  <2>4. QED
    BY <2>1, <2>2, <2>3, ReducedMoves
<1>5. QED
  BY <1>1, <1>2, <1>3, <1>4, IdleSound

-----------------------------------------------------------------------------
(* The steps of the Agent *)

(* A message of the frame being sent: the next piece of a slot its metadata declares, *)
(* its metadata, or a malformed chunk.                                                 *)
Sent(m) ==
  /\ m.frame = Id(Current) /\ m.meta \in {None, slots}
  /\ \A c \in Cameras : IsPiece(m, Id(Current), c) =>
       c \in Declared(slots) /\ m.chunk.offset = passed[c] /\ passed'[c] = passed[c] + 1

LEMMA CurrentFacts ==
  ASSUME CreditTypes, opened > 0
  PROVE  Id(Current) \in FrameIds /\ Number(Id(Current)) = opened - 1 /\ opened \in Nat
<1>1. opened - 1 \in 0 .. (IdModulus - 1) /\ opened \in Nat
  BY IdAssumption, CreditAssumption DEF CreditTypes
<1>2. QED
  BY <1>1, NumberFacts DEF Current

(* Sending, leaving a piece out and closing the frame. *)
LEMMA SendingSound ==
  ASSUME CreditInv, opened > 0, sending' => sending,
         UNCHANGED <<vars, opened, outstanding, slots, acks>>,
         link' \in Seq(Message), Len(link') \in {Len(link), Len(link) + 1},
         \A k \in 1 .. Len(link') : \/ k \in 1 .. Len(link) /\ link'[k] = link[k]
                                    \/ k = Len(link) + 1 /\ sending /\ Sent(link'[k]),
         passed' \in [Cameras -> 0 .. ImageChunks],
         \A c \in Cameras : passed'[c] = passed[c] \/ (passed[c] < ImageChunks
                                                       /\ passed'[c] = passed[c] + 1)
  PROVE  CreditInv'
<1> DEFINE cur == Id(Current)
<1>1. /\ cur \in FrameIds /\ Number(cur) = opened - 1 /\ opened \in Nat /\ cur' = cur
      /\ Len(link) \in Nat /\ link \in Seq(Message) /\ passed \in [Cameras -> 0 .. ImageChunks]
  BY CurrentFacts DEF CreditInv, CreditTypes, Id, Current
<1>2. IInv'
  BY NextSound DEF CreditInv
<1>3. /\ UNCHANGED <<frames, newestFrameId, settledOrder>> /\ Owed' = Owed
      /\ Working' = Working /\ Seen' = Seen
  BY DEF vars, Owed, Working, Seen
<1>4. CreditTypes' /\ AcksMatchCredit' /\ WorkOwed'
  BY <1>3 DEF CreditInv, CreditTypes, AcksMatchCredit, WorkOwed
<1>5. \A k \in 1 .. Len(link') :
        \/ k \in 1 .. Len(link) /\ link'[k] = link[k]
        \/ k = Len(link) + 1 /\ sending /\ Sent(link'[k]) /\ link'[k].frame = cur
  BY DEF Sent
<1> HIDE DEF cur
<1>6. InOrder'
  <2>1. /\ \A k \in 1 .. Len(link) : Number(link[k].frame) < opened
        /\ \A j, k \in 1 .. Len(link) : j < k => Number(link[j].frame) <= Number(link[k].frame)
        /\ \A f \in Seen : /\ Number(f) < opened
                           /\ \A k \in 1 .. Len(link) : Number(f) <= Number(link[k].frame)
    BY DEF CreditInv, InOrder
  <2>2. /\ \A k \in 1 .. Len(link) : link[k].frame \in FrameIds
        /\ \A f \in FrameIds : Number(f) \in Int /\ Seen \subseteq FrameIds
    <3>1. \A k \in 1 .. Len(link) : link[k] \in Message
      BY <1>1
    <3>2. Seen \subseteq FrameIds
      BY RangeFacts DEF Seen, Working, CreditInv, IInv, NewestType, HistoryType
    <3>3. QED
      BY <3>1, <3>2, MessageFacts, NumberFacts
  <2>3. \A k \in 1 .. Len(link') : Number(link'[k].frame) < opened
    BY <1>1, <1>5, <2>1
  <2>4. ASSUME NEW j \in 1 .. Len(link'), NEW k \in 1 .. Len(link'), j < k
        PROVE  Number(link'[j].frame) <= Number(link'[k].frame)
    <3>1. j \in 1 .. Len(link) /\ link'[j] = link[j]
      BY <1>1, <1>5, <2>4
    <3>2. CASE k \in 1 .. Len(link) /\ link'[k] = link[k]
      BY <2>1, <2>4, <3>1, <3>2
    <3>3. CASE link'[k].frame = cur
      BY <1>1, <2>1, <2>2, <3>1, <3>3
    <3>4. QED
      BY <1>5, <3>2, <3>3
  <2>5. ASSUME NEW f \in Seen, NEW k \in 1 .. Len(link')
        PROVE  Number(f) <= Number(link'[k].frame)
    <3>1. CASE k \in 1 .. Len(link) /\ link'[k] = link[k]
      BY <2>1, <3>1
    <3>2. CASE link'[k].frame = cur
      BY <1>1, <2>1, <2>2, <3>2
    <3>3. QED
      BY <1>5, <3>1, <3>2
  <2>6. QED
    BY <1>3, <2>1, <2>3, <2>4, <2>5 DEF InOrder
<1>7. Remembered'
  <2>1. \A f : ToCome(f)' => ToCome(f)
    BY <1>1, <1>5 DEF ToCome, cur
  <2>2. QED
    BY <1>3, <2>1 DEF CreditInv, Remembered
<1>8. \A f \in FrameIds, c \in Cameras : \A k \in OnLink(f, c)' :
        \/ k \in OnLink(f, c) /\ link'[k] = link[k]
        \/ /\ k = Len(link) + 1 /\ f = cur /\ c \in Declared(slots)
           /\ link'[k].chunk.offset = passed[c] /\ passed'[c] = passed[c] + 1
  <2> SUFFICES ASSUME NEW f \in FrameIds, NEW c \in Cameras, NEW k \in OnLink(f, c)'
               PROVE  \/ k \in OnLink(f, c) /\ link'[k] = link[k]
                      \/ /\ k = Len(link) + 1 /\ f = cur /\ c \in Declared(slots)
                         /\ link'[k].chunk.offset = passed[c] /\ passed'[c] = passed[c] + 1
    OBVIOUS
  <2>1. k \in 1 .. Len(link') /\ IsPiece(link'[k], f, c)
    BY DEF OnLink, IsPiece
  <2>2. CASE k \in 1 .. Len(link) /\ link'[k] = link[k]
    BY <2>1, <2>2 DEF OnLink
  <2>3. CASE k = Len(link) + 1 /\ Sent(link'[k]) /\ link'[k].frame = cur
    <3>1. f = cur
      BY <2>1, <2>3 DEF IsPiece
    <3>2. IsPiece(link'[k], Id(Current), c)
      BY <2>1, <3>1 DEF cur
    <3>3. QED
      BY <2>3, <3>1, <3>2 DEF Sent
  <2>4. QED
    BY <1>5, <2>1, <2>2, <2>3
<1>9. \A f \in FrameIds : \A m \in MetasOf(f)' : m \in MetasOf(f) \/ (f = cur /\ m = slots)
  <2> SUFFICES ASSUME NEW f \in FrameIds, NEW m \in MetasOf(f)'
               PROVE  m \in MetasOf(f) \/ (f = cur /\ m = slots)
    OBVIOUS
  <2>1. m # None
    BY DEF MetasOf
  <2>2. CASE m = frames[f].metadata
    BY <2>1, <2>2 DEF MetasOf
  <2>3. CASE m # frames[f].metadata
    <3>1. PICK k \in 1 .. Len(link') : link'[k].frame = f /\ m = link'[k].meta
      BY <1>3, <2>3 DEF MetasOf
    <3>2. QED
      BY <1>5, <2>1, <3>1 DEF MetasOf, Sent
  <2>4. QED
    BY <2>2, <2>3
<1>10. \A f \in FrameIds, c \in Cameras :
         Fills(f, c)' => Fills(f, c) \/ (f = cur /\ c \in Declared(slots))
  BY <1>3, <1>8 DEF Fills
<1>11. LanesDeclared'
  <2>1. /\ \A f \in FrameIds, c \in Cameras : Fills(f, c) => \A m \in MetasOf(f) : c \in Declared(m)
        /\ \A m \in MetasOf(cur) : m = slots
        /\ \A c \in Cameras : Fills(cur, c) => c \in Declared(slots)
    BY DEF CreditInv, LanesDeclared, cur
  <2>2. \A f \in FrameIds, c \in Cameras : Fills(f, c)' => \A m \in MetasOf(f)' : c \in Declared(m)
    <3> TAKE f \in FrameIds, c \in Cameras
    <3>1. CASE f = cur
      BY <1>9, <1>10, <2>1, <3>1
    <3>2. CASE f # cur
      BY <1>9, <1>10, <2>1, <3>2
    <3>3. QED
      BY <3>1, <3>2
  <2>3. /\ \A m \in MetasOf(cur)' : m = slots
        /\ \A c \in Cameras : Fills(cur, c)' => c \in Declared(slots)
    BY <1>1, <1>9, <1>10, <2>1
  <2>4. Id(Current)' = cur /\ cur' = cur
    BY <1>1 DEF cur
  <2>5. QED
    BY <2>2, <2>3, <2>4 DEF LanesDeclared, cur
<1>12. LanesOrdered'
  <2> SUFFICES ASSUME NEW f \in FrameIds, NEW c \in Cameras
      PROVE  /\ \A j, k \in OnLink(f, c)' :
                  j < k => link'[j].chunk.offset < link'[k].chunk.offset
             /\ f = cur => \A k \in OnLink(f, c)' : link'[k].chunk.offset < passed'[c]
             /\ frames[f].ready[c] # <<>> =>
                  /\ frames[f].pending[c] = <<>> /\ OnLink(f, c)' = {}
                  /\ f = cur => passed'[c] = ImageChunks
    BY <1>1, <1>3 DEF LanesOrdered, cur
  <2>1. /\ \A j, k \in OnLink(f, c) : j < k => link[j].chunk.offset < link[k].chunk.offset
        /\ f = cur => \A k \in OnLink(f, c) : link[k].chunk.offset < passed[c]
        /\ frames[f].ready[c] # <<>> =>
             /\ frames[f].pending[c] = <<>> /\ OnLink(f, c) = {}
             /\ f = cur => passed[c] = ImageChunks
    BY DEF CreditInv, LanesOrdered, cur
  <2>2. \A k \in OnLink(f, c) : link[k].chunk.offset \in Int /\ k \in 1 .. Len(link)
    <3> TAKE k \in OnLink(f, c)
    <3>1. k \in 1 .. Len(link) /\ link[k] \in Message /\ IsPiece(link[k], f, c)
      BY <1>1 DEF OnLink
    <3>2. link[k].chunk.offset \in 0 .. (ImageChunks - 1)
      BY <3>1, PieceFacts
    <3>3. QED
      BY <3>1, <3>2, ChunksAssumption
  <2>3. passed[c] \in 0 .. ImageChunks /\ (passed'[c] = passed[c] \/ (passed[c] < ImageChunks
                                                       /\ passed'[c] = passed[c] + 1))
    BY <1>1
  <2>4. ImageChunks \in Nat
    BY ChunksAssumption
  <2>5. \A k \in OnLink(f, c)' :
        \/ k \in OnLink(f, c) /\ link'[k] = link[k]
        \/ /\ k = Len(link) + 1 /\ f = cur
           /\ link'[k].chunk.offset = passed[c] /\ passed'[c] = passed[c] + 1
    BY <1>8
  <2>6. ASSUME NEW j \in OnLink(f, c)', NEW k \in OnLink(f, c)', j < k
        PROVE  link'[j].chunk.offset < link'[k].chunk.offset
    <3>1. CASE k \in OnLink(f, c) /\ link'[k] = link[k]
      <4>1. k <= Len(link)
        BY <2>2, <3>1
      <4>2. j # Len(link) + 1
        BY <1>1, <2>2, <2>6, <3>1
      <4>3. j \in OnLink(f, c) /\ link'[j] = link[j]
        BY <2>5, <4>2
      <4>4. QED
        BY <2>1, <2>6, <3>1, <4>3
    <3>2. CASE k = Len(link) + 1 /\ f = cur /\ link'[k].chunk.offset = passed[c]
      <4>1. j # Len(link) + 1
        BY <1>1, <2>6, <3>2
      <4>2. j \in OnLink(f, c) /\ link'[j] = link[j]
        BY <2>5, <4>1
      <4>3. QED
        BY <2>1, <3>2, <4>2
    <3>3. QED
      BY <2>5, <3>1, <3>2
  <2>7. ASSUME f = cur, NEW k \in OnLink(f, c)'
        PROVE  link'[k].chunk.offset < passed'[c]
    BY <2>1, <2>2, <2>3, <2>5, <2>7, SMTT(30)
  <2>8. ASSUME frames[f].ready[c] # <<>>
        PROVE  /\ frames[f].pending[c] = <<>> /\ OnLink(f, c)' = {}
               /\ f = cur => passed'[c] = ImageChunks
    BY <2>1, <2>3, <2>4, <2>5, <2>8
  <2>9. QED
    BY <2>6, <2>7, <2>8
<1>13. QED
  BY <1>2, <1>4, <1>6, <1>7, <1>11, <1>12 DEF CreditInv

(* One message is put on the link. *)
LEMMA TransmitSound ==
  ASSUME CreditInv, sending, UNCHANGED <<vars, opened, outstanding, sending, slots, acks>>,
         NEW m \in Message, Transmit(m), Sent(m),
         passed' \in [Cameras -> 0 .. ImageChunks],
         \A c \in Cameras : passed'[c] = passed[c] \/ (passed[c] < ImageChunks
                                                       /\ passed'[c] = passed[c] + 1)
  PROVE  CreditInv'
<1>1. link \in Seq(Message) /\ opened > 0 /\ link' = Append(link, m)
  BY DEF CreditInv, CreditTypes, Transmit
<1>2. /\ link' \in Seq(Message) /\ Len(link') = Len(link) + 1
      /\ \A k \in 1 .. Len(link') : \/ k \in 1 .. Len(link) /\ link'[k] = link[k]
                                    \/ k = Len(link) + 1 /\ link'[k] = m
  BY <1>1
<1>3. \A k \in 1 .. Len(link') : \/ k \in 1 .. Len(link) /\ link'[k] = link[k]
                                 \/ k = Len(link) + 1 /\ sending /\ Sent(link'[k])
  BY <1>2
<1>4. Len(link') \in {Len(link), Len(link) + 1} /\ (sending' => sending)
  BY <1>2
<1>5. QED
  BY <1>1, <1>2, <1>3, <1>4, SendingSound

(* The piece a slot is at is sent, malformed or missing; without stray images the *)
(* slot is one the metadata declares.                                              *)
LEMMA PassesFacts ==
  ASSUME CreditInv, ~StrayImages, NEW c \in Cameras, AgentPasses(c)
  PROVE  /\ sending /\ opened > 0 /\ UNCHANGED <<vars, opened, outstanding, sending, slots, acks>>
         /\ c \in Declared(slots) /\ passed[c] \in 0 .. (ImageChunks - 1)
         /\ passed'[c] = passed[c] + 1 /\ passed' \in [Cameras -> 0 .. ImageChunks]
         /\ \A k \in Cameras : passed'[k] = passed[k] \/ (passed[k] < ImageChunks
                                                         /\ passed'[k] = passed[k] + 1)
         /\ Id(Current) \in FrameIds
<1>1. CreditTypes
  BY DEF CreditInv
<1>2. /\ sending /\ opened > 0 /\ passed[c] < ImageChunks /\ c \in Populated
      /\ passed' = [passed EXCEPT ![c] = @ + 1]
      /\ UNCHANGED <<vars, opened, outstanding, sending, slots, acks>>
  BY <1>1 DEF AgentPasses, CreditTypes
<1>3. passed \in [Cameras -> 0 .. ImageChunks] /\ ImageChunks \in Nat
  BY <1>1, ChunksAssumption DEF CreditTypes
<1>4. /\ passed[c] \in 0 .. (ImageChunks - 1) /\ passed'[c] = passed[c] + 1
      /\ \A k \in Cameras \ {c} : passed'[k] = passed[k]
  BY <1>2, <1>3
<1>5. passed' \in [Cameras -> 0 .. ImageChunks]
  <2>1. passed[c] + 1 \in 0 .. ImageChunks
    BY <1>3, <1>4
  <2>2. QED
    BY <1>2, <1>3, <2>1
<1>6. c \in Declared(slots)
  BY <1>2 DEF Populated, Declared
<1>7. QED
  BY <1>1, <1>2, <1>4, <1>5, <1>6, CurrentFacts

LEMMA PieceSent ==
  ASSUME CreditInv, ~StrayImages, NEW c \in Cameras,
         AgentSendsPiece(c) \/ AgentSendsMalformed(c) \/ AgentMissesPiece(c)
  PROVE  CreditInv'
<1>1. /\ AgentPasses(c)
      /\ \/ \E i \in Images : Transmit(ChunkMessage(
              [camera |-> c, frame |-> Id(Current), image |-> i, offset |-> passed[c]]))
         \/ \E camera \in {c, None} : Transmit(ChunkMessage(
              [camera |-> camera, frame |-> Id(Current), image |-> None, offset |-> 0]))
         \/ link' = link
  BY DEF AgentSendsPiece, AgentSendsMalformed, AgentMissesPiece
<1>2. /\ sending /\ opened > 0 /\ UNCHANGED <<vars, opened, outstanding, sending, slots, acks>>
      /\ c \in Declared(slots) /\ passed[c] \in 0 .. (ImageChunks - 1)
      /\ passed'[c] = passed[c] + 1 /\ passed' \in [Cameras -> 0 .. ImageChunks]
      /\ \A k \in Cameras : passed'[k] = passed[k] \/ (passed[k] < ImageChunks
                                                      /\ passed'[k] = passed[k] + 1)
      /\ Id(Current) \in FrameIds
  BY <1>1, PassesFacts
<1>3. ASSUME NEW i \in Images,
             Transmit(ChunkMessage(
               [camera |-> c, frame |-> Id(Current), image |-> i, offset |-> passed[c]]))
      PROVE  CreditInv'
  <2> DEFINE chunk == [camera |-> c, frame |-> Id(Current), image |-> i, offset |-> passed[c]]
             m == ChunkMessage(chunk)
  <2>1. chunk \in Chunk
    BY <1>2 DEF Chunk
  <2>2. m \in Message /\ m.chunk = chunk /\ m.frame = Id(Current) /\ m.meta = None
    BY <2>1 DEF ChunkMessage, Message
  <2>3. Sent(m)
    BY <1>2, <2>2 DEF Sent, IsPiece
  <2> HIDE DEF m
  <2>4. QED
    BY <1>2, <1>3, <2>2, <2>3, TransmitSound DEF m
<1>4. ASSUME NEW camera \in {c, None},
             Transmit(ChunkMessage(
               [camera |-> camera, frame |-> Id(Current), image |-> None, offset |-> 0]))
      PROVE  CreditInv'
  <2> DEFINE chunk == [camera |-> camera, frame |-> Id(Current), image |-> None, offset |-> 0]
             m == ChunkMessage(chunk)
  <2>1. chunk \in Chunk
    BY <1>2 DEF Chunk
  <2>2. m \in Message /\ m.chunk = chunk /\ m.frame = Id(Current) /\ m.meta = None
    BY <2>1 DEF ChunkMessage, Message
  <2>3. Sent(m)
    BY <2>2 DEF Sent, IsPiece
  <2> HIDE DEF m
  <2>4. QED
    BY <1>2, <1>4, <2>2, <2>3, TransmitSound DEF m
<1>5. CASE link' = link
  <2>1. /\ link' \in Seq(Message) /\ Len(link') \in {Len(link), Len(link) + 1}
        /\ \A k \in 1 .. Len(link') : k \in 1 .. Len(link) /\ link'[k] = link[k]
    BY <1>5 DEF CreditInv, CreditTypes
  <2>2. QED
    BY <1>2, <2>1, SendingSound
<1>6. QED
  BY <1>1, <1>3, <1>4, <1>5

LEMMA MetadataSent ==
  ASSUME CreditInv, AgentSendsMetadata
  PROVE  CreditInv'
<1> DEFINE m == MetaMessage(Id(Current), slots)
<1>1. /\ sending /\ Transmit(m) /\ passed' = passed
      /\ UNCHANGED <<vars, opened, outstanding, sending, slots, acks>>
  BY DEF AgentSendsMetadata
<1>2. CreditTypes /\ opened > 0 /\ slots \in Metas /\ passed \in [Cameras -> 0 .. ImageChunks]
  BY <1>1 DEF CreditInv, CreditTypes
<1>3. m \in Message /\ m.chunk = None /\ m.frame = Id(Current) /\ m.meta = slots
  BY <1>2, CurrentFacts DEF MetaMessage, Message
<1>4. Sent(m)
  BY <1>3 DEF Sent, IsPiece
<1> HIDE DEF m
<1>5. QED
  BY <1>1, <1>2, <1>3, <1>4, TransmitSound

LEMMA ClosesSound ==
  ASSUME CreditInv, AgentCloses
  PROVE  CreditInv'
<1>1. /\ sending /\ ~sending' /\ passed' = passed /\ link' = link
      /\ UNCHANGED <<vars, opened, outstanding, slots, acks>>
  BY DEF AgentCloses
<1>2. opened > 0 /\ link \in Seq(Message) /\ passed \in [Cameras -> 0 .. ImageChunks]
  BY <1>1 DEF CreditInv, CreditTypes
<1>3. /\ link' \in Seq(Message) /\ Len(link') \in {Len(link), Len(link) + 1}
      /\ \A k \in 1 .. Len(link') : k \in 1 .. Len(link) /\ link'[k] = link[k]
  BY <1>1, <1>2
<1>4. QED
  BY <1>1, <1>2, <1>3, SendingSound

(* The id of a frame to be opened is acknowledged nowhere. *)
LEMMA NextIdFacts ==
  ASSUME CreditInv, opened < MaxFrames
  PROVE  /\ opened \in 0 .. (IdModulus - 1) /\ outstanding \subseteq 0 .. (opened - 1)
         /\ Id(opened) \in FrameIds /\ Number(Id(opened)) = opened
         /\ Id(opened) \notin Range(acks)
<1>1. CreditTypes /\ AcksMatchCredit
  BY DEF CreditInv
<1>2. /\ opened \in Nat /\ opened \in 0 .. (IdModulus - 1) /\ acks \in Seq(FrameIds)
      /\ outstanding \subseteq 0 .. (opened - 1)
  BY <1>1, IdAssumption, CreditAssumption DEF CreditTypes
<1>3. Id(opened) \in FrameIds /\ Number(Id(opened)) = opened
  BY <1>2, NumberFacts
<1>4. ASSUME NEW k \in 1 .. Len(acks), acks[k] = Id(opened)
      PROVE  FALSE
  <2>1. PICK n \in outstanding : Id(n) = Id(opened)
    BY <1>1, <1>4 DEF AcksMatchCredit
  <2>2. n \in 0 .. (opened - 1)
    BY <1>2
  <2>3. n \in 0 .. (IdModulus - 1) /\ n # opened
    BY <1>2, <2>2, IdAssumption
  <2>4. QED
    BY <1>3, <2>1, <2>3, NumberFacts
<1>5. QED
  BY <1>2, <1>3, <1>4, RangeFacts

(* The frame opened is known to nobody yet. *)
LEMMA OpensSound ==
  ASSUME CreditInv, AgentOpens
  PROVE  CreditInv'
<1>1. /\ opened' = opened + 1 /\ outstanding' = outstanding \cup {opened} /\ sending'
      /\ opened < MaxFrames /\ Cardinality(outstanding) < Window /\ ~sending
      /\ passed' = [c \in Cameras |-> 0] /\ slots' \in Metas
      /\ UNCHANGED <<frames, newestFrameId, settledOrder, link, acks, vars>>
  BY DEF AgentOpens, vars
<1>2. /\ CreditTypes /\ InOrder /\ AcksMatchCredit /\ IInv /\ WorkOwed /\ Remembered
      /\ LanesDeclared /\ LanesOrdered
  BY DEF CreditInv
<1>3. /\ opened \in Nat /\ opened \in 0 .. (IdModulus - 1) /\ link \in Seq(Message)
      /\ acks \in Seq(FrameIds) /\ outstanding \subseteq 0 .. (opened - 1)
      /\ MaxFrames \in Nat /\ Window \in Nat /\ Len(link) \in Nat
  BY <1>1, <1>2, IdAssumption, CreditAssumption DEF CreditTypes
<1>4. PICK new \in FrameIds : new = Id(opened)
  BY <1>3, NumberFacts
<1>5. new \in FrameIds /\ Number(new) = opened /\ Id(Current)' = new
  <2>1. Current' = opened
    BY <1>1, <1>3 DEF Current
  <2>2. Id(Current)' = Id(opened)
    BY <2>1 DEF Id
  <2>3. QED
    BY <1>3, <1>4, <2>2, NumberFacts
<1>6. IInv'
  BY <1>1, <1>2, NextSound
<1>7. new \notin Range(acks)
  BY <1>1, <1>4, NextIdFacts
<1>8. Owed \subseteq Owed' /\ new \in Owed' /\ Working' = Working /\ Seen' = Seen
  BY <1>1, <1>5, <1>7 DEF Owed, Working, Seen
<1>9. CreditTypes'
  <2>1. IsFiniteSet(outstanding)
    <3>1. opened - 1 \in Int
      BY <1>3
    <3>2. IsFiniteSet(0 .. (opened - 1))
      BY <3>1, FS_Interval
    <3>3. QED
      BY <1>3, <3>2, FS_Subset
  <2>2. opened \notin outstanding
    BY <1>3
  <2>3. Cardinality(outstanding') = Cardinality(outstanding) + 1 /\ Cardinality(outstanding) \in Nat
    BY <1>1, <2>1, <2>2, FS_AddElement, FS_CardinalityType
  <2>4. Cardinality(outstanding') <= Window
    BY <1>1, <1>3, <2>3
  <2>5. opened' \in 0 .. MaxFrames /\ outstanding' \subseteq 0 .. (opened' - 1) /\ opened' > 0
    BY <1>1, <1>3
  <2>6. passed' \in [Cameras -> 0 .. ImageChunks]
    BY <1>1, ChunksAssumption
  <2>7. QED
    BY <1>1, <1>3, <2>4, <2>5, <2>6 DEF CreditTypes
<1>10. AcksMatchCredit'
  BY <1>1, <1>2 DEF AcksMatchCredit
<1>11. \A f \in Seen : Number(f) \in Int
  BY <1>2, NumberFacts, RangeFacts DEF Seen, Working, IInv, NewestType, HistoryType
<1>12. \A k \in 1 .. Len(link) : link[k].frame \in FrameIds /\ Number(link[k].frame) \in Int
  <2>1. \A k \in 1 .. Len(link) : link[k] \in Message
    BY <1>3
  <2>2. QED
    BY <2>1, MessageFacts, NumberFacts
<1>13. InOrder'
  BY <1>1, <1>2, <1>3, <1>8, <1>11, <1>12 DEF InOrder
<1>14. WorkOwed'
  BY <1>1, <1>2, <1>8 DEF WorkOwed
<1>15. Remembered'
  <2>1. \A f : ToCome(f)' => ToCome(f) \/ f = new
    BY <1>1, <1>5 DEF ToCome
  <2>2. QED
    BY <1>1, <1>2, <1>8, <2>1 DEF Remembered
<1>16. /\ \A k \in 1 .. Len(link) : link[k].frame # new
       /\ new \notin Seen
  BY <1>2, <1>3, <1>5, <1>11, <1>12 DEF InOrder
<1>17. /\ frames[new].metadata = None
       /\ \A c \in Cameras : frames[new].pending[c] = <<>> /\ frames[new].ready[c] = <<>>
  <2>1. FrameSound(frames[new]) /\ Timed(frames[new]) /\ ~frames[new].started
    BY <1>2, <1>5, <1>16 DEF IInv, WorkOwed, Working, Seen
  <2>2. QED
    BY <2>1 DEF FrameSound, Timed, HasPartial, Ready, Pending
<1>18. /\ MetasOf(new)' = {} /\ \A c \in Cameras : OnLink(new, c)' = {} /\ ~Fills(new, c)'
  <2>1. MetasOf(new)' = {}
    BY <1>1, <1>16, <1>17 DEF MetasOf
  <2>2. \A c \in Cameras : OnLink(new, c)' = {}
    BY <1>1, <1>16 DEF OnLink, IsPiece
  <2>3. QED
    BY <1>1, <1>17, <2>1, <2>2 DEF Fills
<1>19. \A f, c : MetasOf(f)' = MetasOf(f) /\ OnLink(f, c)' = OnLink(f, c)
                 /\ (Fills(f, c)' <=> Fills(f, c))
  BY <1>1 DEF MetasOf, OnLink, Fills
<1>20. LanesDeclared'
  <2>1. \A f \in FrameIds, c \in Cameras : Fills(f, c)' => \A m \in MetasOf(f)' : c \in Declared(m)
    BY <1>2, <1>19 DEF LanesDeclared
  <2>2. /\ \A m \in MetasOf(new)' : m = slots'
        /\ \A c \in Cameras : Fills(new, c)' => c \in Declared(slots')
    BY <1>18
  <2>3. QED
    BY <1>5, <2>1, <2>2 DEF LanesDeclared
<1>21. LanesOrdered'
  <2> SUFFICES ASSUME NEW f \in FrameIds, NEW c \in Cameras
      PROVE  /\ \A j, k \in OnLink(f, c)' : j < k => link[j].chunk.offset < link[k].chunk.offset
             /\ f = new => \A k \in OnLink(f, c)' : link[k].chunk.offset < passed'[c]
             /\ frames[f].ready[c] # <<>> =>
                  /\ frames[f].pending[c] = <<>> /\ OnLink(f, c)' = {}
                  /\ f = new => passed'[c] = ImageChunks
    BY <1>1, <1>5 DEF LanesOrdered
  <2>1. CASE f = new
    BY <1>17, <1>18, <2>1
  <2>2. CASE f # new
    BY <1>2, <1>19, <2>2 DEF LanesOrdered
  <2>3. QED
    BY <2>1, <2>2
<1>22. QED
  BY <1>6, <1>9, <1>10, <1>13, <1>14, <1>15, <1>20, <1>21 DEF CreditInv

(* The credit that comes back is the one acknowledged first. *)
LEMMA AckFacts ==
  ASSUME CreditInv, AgentReceivesAck
  PROVE  /\ acks \in Seq(FrameIds) /\ acks' \in Seq(FrameIds) /\ acks # <<>>
         /\ acks[1] \in FrameIds /\ Number(acks[1]) \in outstanding
         /\ Range(acks) = Range(acks') \cup {acks[1]} /\ acks[1] \notin Range(acks')
         /\ outstanding' = outstanding \ {Number(acks[1])}
         /\ AcksMatchCredit'
<1>1. CreditTypes /\ AcksMatchCredit
  BY DEF CreditInv
<1>2. /\ acks \in Seq(FrameIds) /\ acks # <<>> /\ acks' = Tail(acks)
      /\ outstanding' = {n \in outstanding : Id(n) # acks[1]}
  <2>1. acks \in Seq(FrameIds) /\ acks # <<>>
    BY <1>1 DEF CreditTypes, AgentReceivesAck
  <2>2. Head(acks) = acks[1]
    BY <2>1
  <2>3. QED
    BY <2>1, <2>2 DEF AgentReceivesAck
<1>3. /\ acks' \in Seq(FrameIds) /\ Len(acks') = Len(acks) - 1 /\ Len(acks) \in Nat \ {0}
      /\ \A k \in 1 .. Len(acks') : acks'[k] = acks[k + 1] /\ k + 1 \in 1 .. Len(acks)
      /\ \A k \in 1 .. Len(acks) : k = 1 \/ (k - 1 \in 1 .. Len(acks') /\ acks[k] = acks'[k - 1])
      /\ 1 \in 1 .. Len(acks) /\ acks[1] \in FrameIds
  BY <1>2
<1>4. \A i, j \in 1 .. Len(acks) : acks[i] = acks[j] => i = j
  BY <1>1, <1>2, RangeFacts DEF AcksMatchCredit, IsInjective
<1>5. acks[1] \notin Range(acks')
  <2>1. \A k \in 1 .. Len(acks') : acks'[k] # acks[1]
    BY <1>3, <1>4
  <2>2. QED
    BY <1>3, <2>1, RangeFacts
<1>6. Range(acks) = Range(acks') \cup {acks[1]}
  <2>1. /\ \A x : x \in Range(acks) <=> \E k \in 1 .. Len(acks) : acks[k] = x
        /\ \A x : x \in Range(acks') <=> \E k \in 1 .. Len(acks') : acks'[k] = x
    <3>1. acks \in Seq(FrameIds) /\ acks' \in Seq(FrameIds)
      BY <1>2, <1>3
    <3>2. \A x : x \in Range(acks) <=> \E k \in 1 .. Len(acks) : acks[k] = x
      BY <3>1, RangeFacts
    <3>3. \A x : x \in Range(acks') <=> \E k \in 1 .. Len(acks') : acks'[k] = x
      BY <3>1, RangeFacts
    <3>4. QED
      BY <3>2, <3>3
  <2>2. ASSUME NEW x \in Range(acks), x # acks[1]
        PROVE  x \in Range(acks')
    <3>1. PICK k \in 1 .. Len(acks) : acks[k] = x
      BY <2>1
    <3>2. k - 1 \in 1 .. Len(acks') /\ acks'[k - 1] = x
      BY <1>3, <2>2, <3>1
    <3>3. QED
      BY <2>1, <3>2
  <2>3. \A x \in Range(acks') : x \in Range(acks)
    BY <1>3, <2>1
  <2>4. acks[1] \in Range(acks)
    BY <1>3, <2>1
  <2>5. QED
    BY <2>2, <2>3, <2>4
<1>7. outstanding \subseteq 0 .. (IdModulus - 1)
  <2>1. /\ outstanding \subseteq 0 .. (opened - 1) /\ opened \in 0 .. MaxFrames
        /\ MaxFrames \in Nat /\ 2 * MaxFrames <= IdModulus /\ IdModulus \in Nat
    BY <1>1, IdAssumption, CreditAssumption DEF CreditTypes
  <2>2. 0 .. (opened - 1) \subseteq 0 .. (IdModulus - 1)
    BY <2>1
  <2>3. QED
    BY <2>1, <2>2
<1>8. \A n \in outstanding : Id(n) = acks[1] <=> n = Number(acks[1])
  BY <1>3, <1>7, NumberFacts
<1>9. Number(acks[1]) \in outstanding
  BY <1>1, <1>3, <1>8 DEF AcksMatchCredit
<1>10. outstanding' = outstanding \ {Number(acks[1])}
  BY <1>2, <1>8
<1>11. AcksMatchCredit'
  <2>1. IsInjective(acks')
    <3>1. \A i, j \in 1 .. Len(acks') : acks'[i] = acks'[j] => i = j
      <4> TAKE i, j \in 1 .. Len(acks')
      <4>1. acks'[i] = acks'[j] => i + 1 = j + 1
        BY <1>3, <1>4
      <4>2. QED
        BY <4>1
    <3>2. DOMAIN acks' = 1 .. Len(acks')
      BY <1>3
    <3>3. QED
      BY <3>1, <3>2 DEF IsInjective
  <2>2. ASSUME NEW k \in 1 .. Len(acks')
        PROVE  \E n \in outstanding' : Id(n) = acks'[k]
    <3>1. acks'[k] = acks[k + 1] /\ k + 1 \in 1 .. Len(acks) /\ acks'[k] # acks[1]
      BY <1>3, <1>5, RangeFacts
    <3>2. PICK n \in outstanding : Id(n) = acks[k + 1]
      BY <1>1, <3>1 DEF AcksMatchCredit
    <3>3. QED
      BY <1>2, <3>1, <3>2
  <2>3. QED
    BY <2>1, <2>2 DEF AcksMatchCredit
<1>12. QED
  BY <1>2, <1>3, <1>5, <1>6, <1>9, <1>10, <1>11

LEMMA ReceivesSound ==
  ASSUME CreditInv, AgentReceivesAck
  PROVE  CreditInv'
<1>1. /\ UNCHANGED <<opened, sending, passed, slots, link, vars>>
      /\ UNCHANGED <<frames, newestFrameId, settledOrder>>
  BY DEF AgentReceivesAck, vars
<1>2. /\ acks \in Seq(FrameIds) /\ acks' \in Seq(FrameIds)
      /\ acks[1] \in FrameIds /\ Number(acks[1]) \in outstanding
      /\ Range(acks) = Range(acks') \cup {acks[1]} /\ acks[1] \notin Range(acks')
      /\ outstanding' = outstanding \ {Number(acks[1])}
      /\ AcksMatchCredit'
  BY AckFacts
<1>3. /\ CreditTypes /\ InOrder /\ IInv /\ WorkOwed /\ Remembered
      /\ LanesDeclared /\ LanesOrdered
  BY DEF CreditInv
<1>4. IInv'
  BY <1>1, <1>3, NextSound
<1>5. Owed' = Owed
  <2>1. \A f \in FrameIds : Number(f) = Number(acks[1]) => f = acks[1]
    BY <1>2, NumberFacts
  <2>2. QED
    BY <1>2, <2>1 DEF Owed
<1>6. CreditTypes'
  <2>1. outstanding' \subseteq outstanding /\ opened - 1 \in Int
    BY <1>2, <1>3 DEF CreditTypes
  <2>2. IsFiniteSet(0 .. (opened - 1))
    BY <2>1, FS_Interval
  <2>3. IsFiniteSet(outstanding)
    BY <1>3, <2>2, FS_Subset DEF CreditTypes
  <2>4. /\ Cardinality(outstanding') <= Cardinality(outstanding)
        /\ Cardinality(outstanding') \in Nat /\ Cardinality(outstanding) \in Nat
    BY <2>1, <2>3, FS_Subset, FS_CardinalityType
  <2>5. Cardinality(outstanding') <= Window
    BY <1>3, <2>4, CreditAssumption DEF CreditTypes
  <2>6. QED
    BY <1>1, <1>2, <1>3, <2>1, <2>5 DEF CreditTypes
<1>7. Working' = Working /\ Seen' = Seen
  BY <1>1 DEF Working, Seen
<1>8. InOrder'
  BY <1>1, <1>3, <1>7 DEF InOrder
<1>9. WorkOwed'
  BY <1>1, <1>3, <1>5, <1>7 DEF WorkOwed
<1>10. Remembered'
  <2>1. \A f : ToCome(f)' <=> ToCome(f)
    BY <1>1 DEF ToCome, Current, Id
  <2>2. QED
    BY <1>1, <1>3, <1>5, <1>7, <2>1 DEF Remembered
<1>11. LanesDeclared' /\ LanesOrdered'
  <2>1. \A f, c : MetasOf(f)' = MetasOf(f) /\ OnLink(f, c)' = OnLink(f, c)
                  /\ (Fills(f, c)' <=> Fills(f, c))
    BY <1>1 DEF MetasOf, OnLink, Fills
  <2>2. Id(Current)' = Id(Current) /\ MetasOf(Id(Current))' = MetasOf(Id(Current))
        /\ \A c : Fills(Id(Current), c)' <=> Fills(Id(Current), c)
    BY <1>1 DEF Current, Id, MetasOf, OnLink, Fills
  <2>3. LanesDeclared'
    BY <1>1, <1>3, <2>1, <2>2 DEF LanesDeclared
  <2>4. LanesOrdered'
    BY <1>1, <1>3, <2>1, <2>2 DEF LanesOrdered
  <2>5. QED
    BY <2>3, <2>4
<1>12. QED
  BY <1>2, <1>4, <1>6, <1>8, <1>9, <1>10, <1>11 DEF CreditInv

-----------------------------------------------------------------------------
(* The inductive invariant *)

LEMMA CreditInitSound == CreditInit => CreditInv
<1> SUFFICES ASSUME CreditInit PROVE CreditInv
  OBVIOUS
<1>1. /\ Init /\ opened = 0 /\ outstanding = {} /\ ~sending /\ slots \in Metas
      /\ passed = [c \in Cameras |-> 0] /\ link = <<>> /\ acks = <<>>
  BY DEF CreditInit
<1>2. IInv
  BY <1>1, InitSound
<1>3. /\ \A f \in FrameIds : frames[f] = NoFrame
      /\ settledOrder = <<>> /\ newestFrameId = None
  BY <1>1 DEF Init
<1>4. Range(<<>>) = {}
  BY DEF Range
<1>5. Working = {} /\ Seen = {}
  BY <1>3, <1>4, NoFrameSound DEF Working, Seen
<1>6. CreditTypes
  <2>1. Cardinality(outstanding) = 0
    BY <1>1, FS_EmptySet
  <2>2. QED
    BY <1>1, <2>1, CreditAssumption, ChunksAssumption DEF CreditTypes
<1>7. AcksMatchCredit
  BY <1>1 DEF AcksMatchCredit, IsInjective
<1>8. InOrder
  BY <1>1, <1>5 DEF InOrder
<1>9. WorkOwed
  <2>1. \A c \in Cameras : NoFrame.pending[c] = <<>>
    BY DEF NoFrame, NoImages
  <2>2. ~NoFrame.overdue
    BY DEF NoFrame
  <2>3. QED
    BY <1>3, <1>5, <2>1, <2>2 DEF WorkOwed, Timed, Pending
<1>10. \A f : ~ToCome(f)
  BY <1>1 DEF ToCome
<1>11. Remembered
  BY <1>10 DEF Remembered
<1>12. \A f \in FrameIds, c \in Cameras :
         OnLink(f, c) = {} /\ ~Fills(f, c) /\ frames[f].ready[c] = <<>>
  BY <1>1, <1>3 DEF OnLink, Fills, NoFrame, NoImages
<1>13. LanesDeclared /\ LanesOrdered
  BY <1>1, <1>12 DEF LanesDeclared, LanesOrdered
<1>14. QED
  BY <1>2, <1>6, <1>7, <1>8, <1>9, <1>11, <1>13 DEF CreditInv

LEMMA CreditNextSound ==
  ASSUME ~StrayImages
  PROVE  CreditInv /\ [CreditNext]_creditVars => CreditInv'
<1> SUFFICES ASSUME CreditInv, [CreditNext]_creditVars PROVE CreditInv'
  OBVIOUS
<1>1. CASE AgentOpens
  BY <1>1, OpensSound
<1>2. CASE \E c \in Cameras : AgentSendsPiece(c) \/ AgentSendsMalformed(c) \/ AgentMissesPiece(c)
  BY <1>2, PieceSent
<1>3. CASE AgentSendsMetadata
  BY <1>3, MetadataSent
<1>4. CASE AgentCloses
  BY <1>4, ClosesSound
<1>5. CASE AgentReceivesAck
  BY <1>5, ReceivesSound
<1>6. CASE HostExpires \/ HostReads
  BY <1>6, HostCallSound
<1>7. CASE HostTimesOut
  BY <1>7, TimesOutSound DEF HostTimesOut
<1>8. CASE ClockTicks
  BY <1>8, ClockTicksSound
<1>9. CASE UNCHANGED creditVars
  BY <1>9, TimesOutSound DEF creditVars
<1>10. QED
  BY <1>1, <1>2, <1>3, <1>4, <1>5, <1>6, <1>7, <1>8, <1>9 DEF CreditNext

LEMMA CreditInvariant ==
  ASSUME ~StrayImages
  PROVE  CreditSpec => []CreditInv
<1>1. QED
  BY CreditInitSound, CreditNextSound, PTL DEF CreditSpec

(* No frame is acknowledged twice, and none the Agent is not waiting for: the ids on *)
(* the way back are exactly credits due, whatever is lost, late, malformed or retired *)
(* on the way, and however often the ids wrap within the run.                          *)
THEOREM AcksSound ==
  ASSUME ~StrayImages
  PROVE  CreditSpec => []AcksMatchCredit
<1>1. CreditInv => AcksMatchCredit
  BY DEF CreditInv
<1>2. CreditSpec => []CreditInv
  BY CreditInvariant
<1>3. QED
  BY <1>1, <1>2, PTL

-----------------------------------------------------------------------------
(* The loop implements the flow control of CreditWindow *)

LEMMA OutstandingFacts ==
  ASSUME CreditInv
  PROVE  /\ outstanding \subseteq 0 .. (IdModulus - 1) /\ IsFiniteSet(outstanding)
         /\ acks \in Seq(FrameIds)
         /\ Cardinality(outstanding \ Acked) + Cardinality(Acked) = Cardinality(outstanding)
<1>1. /\ opened \in 0 .. MaxFrames /\ outstanding \subseteq 0 .. (opened - 1)
      /\ MaxFrames \in Nat /\ 2 * MaxFrames <= IdModulus /\ IdModulus \in Nat
      /\ acks \in Seq(FrameIds)
  BY IdAssumption, CreditAssumption DEF CreditInv, CreditTypes
<1>2. opened - 1 \in Int /\ 0 .. (opened - 1) \subseteq 0 .. (IdModulus - 1)
  BY <1>1
<1>3. IsFiniteSet(0 .. (opened - 1))
  BY <1>2, FS_Interval
<1>4. IsFiniteSet(outstanding)
  BY <1>1, <1>3, FS_Subset
<1>5. Acked \subseteq outstanding /\ outstanding \cap Acked = Acked
  BY DEF Acked
<1>6. /\ Cardinality(outstanding \ Acked) = Cardinality(outstanding) - Cardinality(Acked)
      /\ Cardinality(outstanding) \in Nat /\ Cardinality(Acked) \in Nat
  <2>1. Cardinality(outstanding \ Acked) = Cardinality(outstanding) - Cardinality(outstanding \cap Acked)
    BY <1>4, <1>5, FS_Difference, Zenon
  <2>2. IsFiniteSet(Acked)
    BY <1>4, <1>5, FS_Subset, Zenon
  <2>3. QED
    BY <1>4, <1>5, <2>1, <2>2, FS_CardinalityType, Zenon
<1>7. QED
  BY <1>1, <1>2, <1>4, <1>6

LEMMA OpenStep ==
  ASSUME CreditInv, AgentOpens
  PROVE  Credit!Open
<1>1. /\ opened' = opened + 1 /\ outstanding' = outstanding \cup {opened}
      /\ opened < MaxFrames /\ Cardinality(outstanding) < Window /\ acks' = acks
  BY DEF AgentOpens
<1>2. opened \notin Acked /\ opened \notin outstanding /\ Id(opened) \notin Range(acks)
  <2>1. opened \notin outstanding
    <3>1. opened \in Nat /\ outstanding \subseteq 0 .. (opened - 1)
      BY DEF CreditInv, CreditTypes
    <3>2. QED
      BY <3>1
  <2>2. QED
    BY <1>1, <2>1, NextIdFacts DEF Acked
<1>3. Acked' = Acked
  BY <1>1, <1>2 DEF Acked, Id
<1>4. Cardinality(outstanding \ Acked) + Cardinality(Acked) < Window
  BY <1>1, OutstandingFacts
<1>5. (outstanding \ Acked)' = (outstanding \ Acked) \cup {opened}
  BY <1>1, <1>2, <1>3
<1>6. \A X : Credit!Cardinality(X) = Cardinality(X)
  BY DEF Credit!Cardinality, Cardinality
<1>7. QED
  BY <1>1, <1>3, <1>4, <1>5, <1>6 DEF Credit!Open

(* What one call settles is acknowledged in one step. *)
LEMMA AcknowledgeStep ==
  ASSUME CreditInv, NEW S, NEW G, Settling(S, G), UNCHANGED agentVars
  PROVE  (\E N \in SUBSET (outstanding \ Acked) : Credit!Acknowledge(N))
         \/ UNCHANGED Credit!vars
<1> DEFINE N == {n \in outstanding : Id(n) \in S}
<1>1. opened' = opened /\ outstanding' = outstanding
  BY DEF agentVars
<1>2. Range(acks') = Range(acks) \cup S
  BY <1>1, SettledAcks DEF CreditInv
<1>3. S \cap Range(acks) = {}
  BY DEF Settling, CreditInv, WorkOwed, Owed
<1>4. Acked' = Acked \cup N
  BY <1>1, <1>2 DEF Acked, Id
<1>5. N \in SUBSET (outstanding \ Acked)
  BY <1>3 DEF Acked
<1>6. (outstanding \ Acked)' = (outstanding \ Acked) \ N
  BY <1>1, <1>4
<1> HIDE DEF N
<1>7. CASE N = {}
  <2>1. (outstanding \ Acked)' = outstanding \ Acked /\ Acked' = Acked
    BY <1>4, <1>6, <1>7
  <2>2. QED
    BY <1>1, <2>1 DEF Credit!vars
<1>8. CASE N # {}
  BY <1>1, <1>4, <1>5, <1>6, <1>8 DEF Credit!Acknowledge
<1>9. QED
  BY <1>7, <1>8

LEMMA ReturnStep ==
  ASSUME CreditInv, AgentReceivesAck
  PROVE  \E n \in Acked : Credit!Return(n)
<1> DEFINE n == Number(acks[1])
<1>1. /\ acks[1] \in FrameIds /\ n \in outstanding
      /\ Range(acks) = Range(acks') \cup {acks[1]} /\ acks[1] \notin Range(acks')
      /\ outstanding' = outstanding \ {n}
  BY AckFacts
<1>2. Id(n) = acks[1] /\ n \in Acked
  BY <1>1, NumberFacts DEF Acked
<1>3. \A k \in outstanding : Id(k) = acks[1] => k = n
  BY OutstandingFacts, NumberFacts
<1>4. opened' = opened
  BY DEF AgentReceivesAck
<1> HIDE DEF n
<1>5. Acked' = Acked \ {n}
  <2>1. Acked' = {k \in outstanding \ {n} : Id(k) \in Range(acks')}
    BY <1>1 DEF Acked, Id
  <2>2. \A k \in outstanding \ {n} : Id(k) \in Range(acks') <=> Id(k) \in Range(acks)
    BY <1>1, <1>3
  <2>3. QED
    BY <2>1, <2>2 DEF Acked
<1>6. (outstanding \ Acked)' = outstanding \ Acked
  BY <1>1, <1>2, <1>5
<1>7. QED
  BY <1>2, <1>4, <1>5, <1>6 DEF Credit!Return

LEMMA CreditStep ==
  ASSUME ~StrayImages
  PROVE  CreditInv /\ [CreditNext]_creditVars => [Credit!Next]_(Credit!vars)
<1> SUFFICES ASSUME CreditInv, [CreditNext]_creditVars PROVE [Credit!Next]_(Credit!vars)
  OBVIOUS
<1>1. ASSUME UNCHANGED <<opened, outstanding, acks>>
      PROVE  UNCHANGED Credit!vars
  <2>1. Acked' = Acked /\ (outstanding \ Acked)' = outstanding \ Acked
    BY <1>1 DEF Acked, Id
  <2>2. QED
    BY <1>1, <2>1 DEF Credit!vars
<1>2. CASE AgentOpens
  BY <1>2, OpenStep DEF Credit!Next
<1>3. CASE \E c \in Cameras : AgentSendsPiece(c) \/ AgentSendsMalformed(c) \/ AgentMissesPiece(c)
  BY <1>1, <1>3 DEF AgentSendsPiece, AgentSendsMalformed, AgentMissesPiece, AgentPasses
<1>4. CASE AgentSendsMetadata
  BY <1>1, <1>4 DEF AgentSendsMetadata
<1>5. CASE AgentCloses
  BY <1>1, <1>5 DEF AgentCloses
<1>6. CASE AgentReceivesAck
  BY <1>6, ReturnStep DEF Credit!Next
<1>7. CASE HostExpires \/ HostReads
  <2>1. UNCHANGED agentVars /\ \E S, G : Settling(S, G)
    BY <1>7, HostExpiresCredit, HostReadsCredit
  <2>2. QED
    BY <2>1, AcknowledgeStep DEF Credit!Next
<1>8. CASE HostTimesOut \/ ClockTicks
  BY <1>1, <1>8 DEF HostTimesOut, ClockTicks, agentVars
<1>9. CASE UNCHANGED creditVars
  BY <1>1, <1>9 DEF creditVars, agentVars
<1>10. QED
  BY <1>2, <1>3, <1>4, <1>5, <1>6, <1>7, <1>8, <1>9 DEF CreditNext

LEMMA CreditStart == CreditInit => Credit!Init
<1> SUFFICES ASSUME CreditInit PROVE Credit!Init
  OBVIOUS
<1>1. opened = 0 /\ outstanding = {}
  BY DEF CreditInit
<1>2. QED
  BY <1>1 DEF Credit!Init, Acked

(* The capture loop and the assembler implement the flow control the Agent relies on: *)
(* every step opens a frame within the window, acknowledges frames that were not, or   *)
(* returns one credit. (That every credit comes back is left to the model checker.)    *)
THEOREM FlowControlImplemented ==
  ASSUME ~StrayImages
  PROVE  CreditSpec => Credit!Init /\ [][Credit!Next]_(Credit!vars)
<1>1. CreditSpec => []CreditInv
  BY CreditInvariant
<1>2. CreditInv /\ [CreditNext]_creditVars => [Credit!Next]_(Credit!vars)
  BY CreditStep
<1>3. QED
  BY <1>1, <1>2, CreditStart, PTL DEF CreditSpec

-----------------------------------------------------------------------------
(* The loop calls the assembler as its specification allows *)

(* What the Agent puts on the link, with or without stray images. *)
LinkTypes == /\ opened \in Nat /\ (sending => opened > 0)
             /\ slots \in Metas /\ link \in Seq(Message)
             /\ passed \in [Cameras -> 0 .. ImageChunks]

LEMMA CurrentId ==
  ASSUME opened \in Nat, opened > 0
  PROVE  Id(Current) \in FrameIds
<1>1. FirstId \in Nat /\ IdModulus \in Nat /\ IdModulus > 3
  BY IdAssumption, CreditAssumption DEF FrameIds
<1>2. (FirstId + (opened - 1)) % IdModulus \in 0 .. (IdModulus - 1)
  BY <1>1
<1>3. QED
  BY <1>2 DEF Id, Current, FrameIds

LEMMA AppendedMessage ==
  ASSUME LinkTypes, NEW m \in Message, Transmit(m)
  PROVE  link' \in Seq(Message)
<1>1. link \in Seq(Message) /\ link' = Append(link, m)
  BY DEF LinkTypes, Transmit
<1>2. QED
  BY <1>1

LEMMA PieceTypes ==
  ASSUME LinkTypes, NEW c \in Cameras,
         AgentSendsPiece(c) \/ AgentSendsMalformed(c) \/ AgentMissesPiece(c)
  PROVE  LinkTypes' /\ UNCHANGED vars
<1>1. AgentPasses(c)
  BY DEF AgentSendsPiece, AgentSendsMalformed, AgentMissesPiece
<1>2. /\ sending /\ passed[c] < ImageChunks /\ passed' = [passed EXCEPT ![c] = @ + 1]
      /\ UNCHANGED <<opened, sending, slots>> /\ UNCHANGED vars
  BY <1>1 DEF AgentPasses
<1>3. passed \in [Cameras -> 0 .. ImageChunks] /\ ImageChunks \in Nat /\ opened \in Nat /\ opened > 0
  BY <1>2, ChunksAssumption DEF LinkTypes
<1>4. passed[c] \in 0 .. (ImageChunks - 1) /\ passed[c] + 1 \in 0 .. ImageChunks
  BY <1>2, <1>3
<1>5. passed' \in [Cameras -> 0 .. ImageChunks]
  BY <1>2, <1>3, <1>4
<1>6. Id(Current) \in FrameIds
  BY <1>3, CurrentId
<1>7. link' \in Seq(Message)
  <2>1. ASSUME NEW chunk \in Chunk, Transmit(ChunkMessage(chunk)) PROVE link' \in Seq(Message)
    <3>1. ChunkMessage(chunk) \in Message
      BY DEF Message
    <3>2. QED
      BY <2>1, <3>1, AppendedMessage
  <2>2. ASSUME NEW i \in Images
        PROVE  [camera |-> c, frame |-> Id(Current), image |-> i, offset |-> passed[c]] \in Chunk
    BY <1>4, <1>6 DEF Chunk
  <2>3. CASE AgentSendsPiece(c)
    BY <2>1, <2>2, <2>3 DEF AgentSendsPiece
  <2>4. ASSUME NEW camera \in {c, None}
        PROVE  [camera |-> camera, frame |-> Id(Current), image |-> None, offset |-> 0] \in Chunk
    BY <1>3, <1>6, ChunksAssumption DEF Chunk
  <2>5. CASE AgentSendsMalformed(c)
    BY <2>1, <2>4, <2>5 DEF AgentSendsMalformed
  <2>6. CASE AgentMissesPiece(c)
    BY <2>6 DEF AgentMissesPiece, LinkTypes
  <2>7. QED
    BY <2>3, <2>5, <2>6
<1>8. QED
  BY <1>2, <1>5, <1>7 DEF LinkTypes

LEMMA MetadataTypes ==
  ASSUME LinkTypes, AgentSendsMetadata
  PROVE  LinkTypes' /\ UNCHANGED vars
<1>1. /\ sending /\ Transmit(MetaMessage(Id(Current), slots))
      /\ UNCHANGED <<opened, sending, slots, passed>> /\ UNCHANGED vars
  BY DEF AgentSendsMetadata
<1>2. Id(Current) \in FrameIds /\ slots \in Metas
  BY <1>1, CurrentId DEF LinkTypes
<1>3. MetaMessage(Id(Current), slots) \in Message
  BY <1>2 DEF Message
<1>4. link' \in Seq(Message)
  BY <1>1, <1>3, AppendedMessage
<1>5. QED
  BY <1>1, <1>4 DEF LinkTypes

LEMMA OpenTypes ==
  ASSUME LinkTypes, AgentOpens
  PROVE  LinkTypes' /\ UNCHANGED vars
<1>1. /\ opened' = opened + 1 /\ passed' = [c \in Cameras |-> 0] /\ slots' \in Metas
      /\ link' = link /\ UNCHANGED vars
  BY DEF AgentOpens
<1>2. passed' \in [Cameras -> 0 .. ImageChunks]
  BY <1>1, ChunksAssumption
<1>3. opened' \in Nat /\ opened' > 0
  BY <1>1 DEF LinkTypes
<1>4. QED
  BY <1>1, <1>2, <1>3 DEF LinkTypes

(* Reading a message is a call of the assembler with arguments of its types. *)
LEMMA ReadStep ==
  ASSUME LinkTypes, HostReads
  PROVE  LinkTypes' /\ Next
<1> DEFINE message == Head(link)
<1>1. /\ link # <<>> /\ link' = Tail(link) /\ UNCHANGED <<opened, sending, slots, passed>>
      /\ \/ message.chunk # None /\ Ingest(message.chunk)
         \/ message.chunk = None /\ AddMetadata(message.frame, message.meta)
  BY DEF HostReads, agentVars
<1>2. message \in Message /\ link' \in Seq(Message)
  BY <1>1 DEF LinkTypes
<1>3. LinkTypes'
  BY <1>1, <1>2 DEF LinkTypes
<1> HIDE DEF message
<1>4. CASE message.chunk # None
  <2>1. message.chunk \in Chunk /\ Ingest(message.chunk)
    BY <1>1, <1>2, <1>4, MessageFacts
  <2>2. QED
    BY <1>3, <2>1 DEF Next
<1>5. CASE message.chunk = None
  <2>1. /\ message.frame \in FrameIds /\ message.meta \in Metas
        /\ AddMetadata(message.frame, message.meta)
    BY <1>1, <1>2, <1>5, MessageFacts
  <2>2. QED
    BY <1>3, <2>1 DEF Next
<1>6. QED
  BY <1>3, <1>4, <1>5

LEMMA LoopStep == LinkTypes /\ [CreditNext]_creditVars => LinkTypes' /\ [Next]_vars
<1> SUFFICES ASSUME LinkTypes, [CreditNext]_creditVars PROVE LinkTypes' /\ [Next]_vars
  OBVIOUS
<1>1. CASE AgentOpens
  BY <1>1, OpenTypes
<1>2. CASE \E c \in Cameras : AgentSendsPiece(c) \/ AgentSendsMalformed(c) \/ AgentMissesPiece(c)
  BY <1>2, PieceTypes
<1>3. CASE AgentSendsMetadata
  BY <1>3, MetadataTypes
<1>4. CASE AgentCloses
  <2>1. ~sending' /\ UNCHANGED <<opened, slots, passed, link>> /\ UNCHANGED vars
    BY <1>4 DEF AgentCloses
  <2>2. QED
    BY <2>1 DEF LinkTypes
<1>5. CASE AgentReceivesAck \/ HostTimesOut
  <2>1. UNCHANGED <<opened, sending, slots, passed, link>> /\ UNCHANGED vars
    BY <1>5 DEF AgentReceivesAck, HostTimesOut, agentVars
  <2>2. QED
    BY <2>1 DEF LinkTypes
<1>6. CASE HostExpires
  <2>1. UNCHANGED <<opened, sending, slots, passed, link>> /\ Expire
    BY <1>6 DEF HostExpires, agentVars
  <2>2. QED
    BY <2>1 DEF LinkTypes, Next
<1>7. CASE HostReads
  BY <1>7, ReadStep
<1>8. CASE ClockTicks
  <2>1. UNCHANGED <<opened, sending, slots, passed, link>> /\ SecondPasses
    BY <1>8 DEF ClockTicks, agentVars
  <2>2. QED
    BY <2>1 DEF LinkTypes, Next
<1>9. CASE UNCHANGED creditVars
  <2>1. UNCHANGED <<opened, sending, slots, passed, link>> /\ UNCHANGED vars
    BY <1>9 DEF creditVars, agentVars
  <2>2. QED
    BY <2>1 DEF LinkTypes
<1>10. QED
  BY <1>1, <1>2, <1>3, <1>4, <1>5, <1>6, <1>7, <1>8, <1>9 DEF CreditNext

LEMMA LoopStart == CreditInit => LinkTypes /\ Init
<1> SUFFICES ASSUME CreditInit PROVE LinkTypes /\ Init
  OBVIOUS
<1>1. /\ Init /\ opened = 0 /\ ~sending /\ slots \in Metas
      /\ passed = [c \in Cameras |-> 0] /\ link = <<>>
  BY DEF CreditInit
<1>2. passed \in [Cameras -> 0 .. ImageChunks]
  BY <1>1, ChunksAssumption
<1>3. QED
  BY <1>1, <1>2 DEF LinkTypes

(* Seen from the assembler, the Agent, the link and the loop only make calls its   *)
(* specification knows, stray images included: what is proved of the assembler on  *)
(* its own (images whole, nothing lost silently or delivered twice, ...) holds end *)
(* to end.                                                                          *)
THEOREM LoopUsesAssembler == CreditSpec => Spec
<1>1. QED
  BY LoopStart, LoopStep, PTL DEF CreditSpec, Spec

-----------------------------------------------------------------------------
(* Frames that lose nothing: where the pieces and the metadata of such a frame are *)

(* The messages of frame f on the link lk. *)
Of(lk, f)        == {k \in 1 .. Len(lk) : lk[k].frame = f}
Pieces(lk, f, c) == {k \in 1 .. Len(lk) : IsPiece(lk[k], f, c)}
Records(lk, f)   == {k \in 1 .. Len(lk) : lk[k].frame = f /\ lk[k].chunk = None}
Damaged(lk, f)   == {k \in 1 .. Len(lk) : lk[k].frame = f /\ lk[k].chunk # None
                                          /\ lk[k].chunk.image = None}

(* Pieces the assembler has of a slot. *)
Had(fr, c) == IF fr.ready[c] # <<>> THEN ImageChunks ELSE Len(fr.pending[c])

(* The pieces of a slot passed so far, upto of them, are in the assembler and on the *)
(* link, all of the image pics[c].                                                    *)
LaneAlive(fr, lk, f, pics, c, upto) ==
  /\ Had(fr, c) <= upto
  /\ fr.pending[c] # <<>> => fr.pending[c][1].image = pics[c]
  /\ \A k \in Pieces(lk, f, c) : /\ lk[k].chunk.image = pics[c]
                                 /\ Had(fr, c) <= lk[k].chunk.offset
                                 /\ lk[k].chunk.offset < upto
  /\ \A o \in Had(fr, c) .. (upto - 1) : \E k \in Pieces(lk, f, c) : lk[k].chunk.offset = o

(* The metadata m is still to be sent, on the link, or kept. *)
MetaAlive(fr, lk, f, m, sent) ==
  \/ ~sent /\ fr.metadata = None /\ Records(lk, f) = {}
  \/ sent /\ fr.metadata = m /\ Records(lk, f) = {}
  \/ /\ sent /\ fr.metadata = None
     /\ \E k \in Records(lk, f) : Records(lk, f) = {k} /\ lk[k].meta = m

(* Nothing of frame f is lost. *)
Flows(fr, lk, f, pics, m, upto, sent) ==
  /\ fr.invalid = {} /\ ~fr.overdue
  /\ Damaged(lk, f) = {}
  /\ \A c \in Cameras : LaneAlive(fr, lk, f, pics, c, upto[c])
  /\ MetaAlive(fr, lk, f, m, sent)

(* Frame f is on its way. *)
Alive(fr, lk, f, pics, m, upto, sent) ==
  ~Completes(fr) /\ Flows(fr, lk, f, pics, m, upto, sent)

(* Frame f has been completed, and nothing of it is on the link. *)
Over(fr, lk, f) == fr = NoFrame /\ Of(lk, f) = {}

(* What is passed of a slot by the end of a frame that is sent whole. *)
Whole(m) == [c \in Cameras |-> IF c \in Declared(m) THEN ImageChunks ELSE 0]

Health(n) ==
  LET f == Id(n)
      fr == frames[f]
  IN  IF sending /\ n = Current
      THEN \/ Over(fr, link, f) /\ Intact
           \/ /\ f \notin Range(settledOrder)
              /\ Alive(fr, link, f, Captured[n], slots, passed, metaPassed)
      ELSE \/ Over(fr, link, f)
           \/ /\ f \notin Range(settledOrder)
              /\ \E m \in Metas : /\ Declared(m) # {}
                                  /\ Alive(fr, link, f, Captured[n], m, Whole(m), TRUE)

(* Only frames that lost something are reported as discarded. *)
SpoiledOnly == \A f \in result.discarded : \E n \in spoiled \cap (0 .. (opened - 1)) : f = Id(n)

(* Without stray images, only declared slots are passed. *)
PassedDeclared == sending => \A c \in Cameras : passed[c] # 0 => c \in Declared(slots)

HealthInv ==
  /\ \A n \in 0 .. (opened - 1) : n \in spoiled \/ Health(n)
  /\ SpoiledOnly /\ PassedDeclared

-----------------------------------------------------------------------------
(* Messages of one kind keep their order when the link moves by d places. *)
Shifts(A, B, lk, new, d) ==
  /\ A \subseteq Int /\ B \subseteq Int /\ d \in {0, 1}
  /\ \A k \in B : k + d \in A /\ new[k] = lk[k + d]
  /\ \A k \in A : k - d \in B /\ new[k - d] = lk[k]

Appended(lk, new, x) ==
  /\ Len(lk) \in Nat /\ Len(new) = Len(lk) + 1 /\ new[Len(lk) + 1] = x
  /\ \A k \in 1 .. Len(lk) : new[k] = lk[k]

Removed(lk, new) ==
  /\ Len(lk) \in Nat /\ Len(lk) > 0 /\ Len(new) = Len(lk) - 1
  /\ \A k \in 1 .. Len(new) : new[k] = lk[k + 1]

(* A message of another kind is put on the link. *)
LEMMA AppendedShifts ==
  ASSUME NEW lk, NEW new, NEW x, Appended(lk, new, x), NEW f
  PROVE  /\ x.frame # f => Shifts(Of(lk, f), Of(new, f), lk, new, 0)
         /\ \A c : ~IsPiece(x, f, c) => Shifts(Pieces(lk, f, c), Pieces(new, f, c), lk, new, 0)
         /\ x.frame # f \/ x.chunk # None => Shifts(Records(lk, f), Records(new, f), lk, new, 0)
         /\ x.frame # f \/ x.chunk = None \/ x.chunk.image # None =>
              Shifts(Damaged(lk, f), Damaged(new, f), lk, new, 0)
<1>1. /\ Len(lk) \in Nat /\ Len(new) = Len(lk) + 1 /\ new[Len(lk) + 1] = x
      /\ \A k \in 1 .. Len(lk) : new[k] = lk[k] /\ k \in 1 .. Len(new)
      /\ \A k \in 1 .. Len(new) : k \in 1 .. Len(lk) \/ k = Len(lk) + 1
      /\ \A k \in 1 .. Len(new) : k + 0 = k /\ k - 0 = k
  BY DEF Appended
<1>2. x.frame # f => Shifts(Of(lk, f), Of(new, f), lk, new, 0)
  BY <1>1 DEF Shifts, Of
<1>3. \A c : ~IsPiece(x, f, c) => Shifts(Pieces(lk, f, c), Pieces(new, f, c), lk, new, 0)
  BY <1>1 DEF Shifts, Pieces
<1>4. x.frame # f \/ x.chunk # None => Shifts(Records(lk, f), Records(new, f), lk, new, 0)
  BY <1>1 DEF Shifts, Records
<1>5. x.frame # f \/ x.chunk = None \/ x.chunk.image # None =>
        Shifts(Damaged(lk, f), Damaged(new, f), lk, new, 0)
  BY <1>1 DEF Shifts, Damaged
<1>6. QED
  BY <1>2, <1>3, <1>4, <1>5

(* A message of another kind is taken off the link. *)
LEMMA RemovedShifts ==
  ASSUME NEW lk, NEW new, Removed(lk, new), NEW f
  PROVE  /\ lk[1].frame # f => Shifts(Of(lk, f), Of(new, f), lk, new, 1)
         /\ \A c : ~IsPiece(lk[1], f, c) => Shifts(Pieces(lk, f, c), Pieces(new, f, c), lk, new, 1)
         /\ lk[1].frame # f \/ lk[1].chunk # None =>
              Shifts(Records(lk, f), Records(new, f), lk, new, 1)
         /\ lk[1].frame # f \/ lk[1].chunk = None \/ lk[1].chunk.image # None =>
              Shifts(Damaged(lk, f), Damaged(new, f), lk, new, 1)
<1>1. /\ \A k \in 1 .. Len(new) : k + 1 \in 1 .. Len(lk) /\ new[k] = lk[k + 1]
      /\ \A k \in 1 .. Len(lk) : k = 1 \/ (k - 1 \in 1 .. Len(new) /\ new[k - 1] = lk[k])
      /\ Len(lk) \in Nat /\ Len(new) \in Int
  BY DEF Removed
<1>2. lk[1].frame # f => Shifts(Of(lk, f), Of(new, f), lk, new, 1)
  BY <1>1 DEF Shifts, Of
<1>3. \A c : ~IsPiece(lk[1], f, c) => Shifts(Pieces(lk, f, c), Pieces(new, f, c), lk, new, 1)
  BY <1>1 DEF Shifts, Pieces
<1>4. lk[1].frame # f \/ lk[1].chunk # None =>
        Shifts(Records(lk, f), Records(new, f), lk, new, 1)
  BY <1>1 DEF Shifts, Records
<1>5. lk[1].frame # f \/ lk[1].chunk = None \/ lk[1].chunk.image # None =>
        Shifts(Damaged(lk, f), Damaged(new, f), lk, new, 1)
  BY <1>1 DEF Shifts, Damaged
<1>6. QED
  BY <1>2, <1>3, <1>4, <1>5

(* What is on the link of a kind stays what it was. *)
LEMMA ShiftedNone ==
  ASSUME NEW A, NEW B, NEW lk, NEW new, NEW d, Shifts(A, B, lk, new, d)
  PROVE  A = {} <=> B = {}
BY DEF Shifts

LEMMA LaneShifted ==
  ASSUME NEW lk, NEW new, NEW d, NEW f, NEW c, NEW fr, NEW fr2, NEW pics, NEW upto,
         Shifts(Pieces(lk, f, c), Pieces(new, f, c), lk, new, d),
         fr2.pending[c] = fr.pending[c], fr2.ready[c] = fr.ready[c],
         LaneAlive(fr, lk, f, pics, c, upto)
  PROVE  LaneAlive(fr2, new, f, pics, c, upto)
<1>1. Had(fr2, c) = Had(fr, c)
  BY DEF Had
<1>2. \A o \in Had(fr, c) .. (upto - 1) : \E k \in Pieces(new, f, c) : new[k].chunk.offset = o
  <2> TAKE o \in Had(fr, c) .. (upto - 1)
  <2>1. PICK k \in Pieces(lk, f, c) : lk[k].chunk.offset = o
    BY DEF LaneAlive
  <2>2. k - d \in Pieces(new, f, c) /\ new[k - d] = lk[k]
    BY DEF Shifts
  <2>3. QED
    BY <2>1, <2>2
<1>3. \A k \in Pieces(new, f, c) : /\ new[k].chunk.image = pics[c]
                                   /\ Had(fr, c) <= new[k].chunk.offset
                                   /\ new[k].chunk.offset < upto
  BY DEF Shifts, LaneAlive
<1>4. QED
  BY <1>1, <1>2, <1>3 DEF LaneAlive

LEMMA MetaShifted ==
  ASSUME NEW lk, NEW new, NEW d, NEW f, NEW fr, NEW fr2, NEW m, NEW sent,
         Shifts(Records(lk, f), Records(new, f), lk, new, d),
         fr2.metadata = fr.metadata, MetaAlive(fr, lk, f, m, sent)
  PROVE  MetaAlive(fr2, new, f, m, sent)
<1>1. CASE Records(lk, f) = {}
  BY <1>1, ShiftedNone DEF MetaAlive
<1>2. ASSUME NEW k \in Records(lk, f), Records(lk, f) = {k}, lk[k].meta = m, sent,
             fr.metadata = None
      PROVE  MetaAlive(fr2, new, f, m, sent)
  <2>1. k - d \in Records(new, f) /\ new[k - d] = lk[k] /\ k \in Int /\ d \in Int
    BY DEF Shifts
  <2>2. \A j \in Records(new, f) : j \in Int /\ j + d = k
    BY <1>2 DEF Shifts
  <2>3. \A j \in Records(new, f) : j = k - d
    BY <2>1, <2>2
  <2>4. Records(new, f) = {k - d}
    BY <2>1, <2>3
  <2>5. QED
    BY <1>2, <2>1, <2>4 DEF MetaAlive
<1>3. QED
  BY <1>1, <1>2 DEF MetaAlive

(* A frame none of whose messages come or go, and whose record stays, stays as it is. *)
LEMMA Undisturbed ==
  ASSUME NEW lk, NEW new, NEW f, NEW fr, NEW pics, NEW m, NEW upto, NEW sent,
         \/ new = lk /\ Len(lk) \in Nat
         \/ Removed(lk, new) /\ lk[1].frame # f
         \/ \E x : Appended(lk, new, x) /\ x.frame # f
  PROVE  /\ Alive(fr, lk, f, pics, m, upto, sent) => Alive(fr, new, f, pics, m, upto, sent)
         /\ Over(fr, lk, f) => Over(fr, new, f)
<1>1. CASE new = lk
  BY <1>1
<1>2. ASSUME NEW d, Shifts(Of(lk, f), Of(new, f), lk, new, d),
             Shifts(Records(lk, f), Records(new, f), lk, new, d),
             Shifts(Damaged(lk, f), Damaged(new, f), lk, new, d),
             \A c : Shifts(Pieces(lk, f, c), Pieces(new, f, c), lk, new, d)
      PROVE  /\ Alive(fr, lk, f, pics, m, upto, sent) => Alive(fr, new, f, pics, m, upto, sent)
             /\ Over(fr, lk, f) => Over(fr, new, f)
  <2>1. /\ Of(lk, f) = {} <=> Of(new, f) = {}
        /\ Damaged(lk, f) = {} <=> Damaged(new, f) = {}
    BY <1>2, ShiftedNone
  <2>2. \A c : LaneAlive(fr, lk, f, pics, c, upto[c]) => LaneAlive(fr, new, f, pics, c, upto[c])
    BY <1>2, LaneShifted
  <2>3. MetaAlive(fr, lk, f, m, sent) => MetaAlive(fr, new, f, m, sent)
    BY <1>2, MetaShifted
  <2>4. QED
    BY <2>1, <2>2, <2>3 DEF Alive, Flows, Over
<1>3. CASE Removed(lk, new) /\ lk[1].frame # f
  <2>1. \A c : ~IsPiece(lk[1], f, c)
    BY <1>3 DEF IsPiece
  <2>2. QED
    BY <1>2, <1>3, <2>1, RemovedShifts
<1>4. ASSUME NEW x, Appended(lk, new, x), x.frame # f
      PROVE  /\ Alive(fr, lk, f, pics, m, upto, sent) => Alive(fr, new, f, pics, m, upto, sent)
             /\ Over(fr, lk, f) => Over(fr, new, f)
  <2>1. \A c : ~IsPiece(x, f, c)
    BY <1>4 DEF IsPiece
  <2>2. QED
    BY <1>2, <1>4, <2>1, AppendedShifts
<1>5. QED
  BY <1>1, <1>3, <1>4

-----------------------------------------------------------------------------
(* Sending *)

LEMMA PieceTypesOn ==
  ASSUME NEW lk \in Seq(Message), NEW f, NEW c
  PROVE  \A k \in Pieces(lk, f, c) : lk[k].chunk.offset \in 0 .. (ImageChunks - 1)
<1> TAKE k \in Pieces(lk, f, c)
<1>1. k \in 1 .. Len(lk) /\ IsPiece(lk[k], f, c)
  BY DEF Pieces
<1>2. lk[k] \in Message
  BY <1>1
<1>3. QED
  BY <1>1, <1>2, PieceFacts

LEMMA HadType ==
  ASSUME NEW fr, FrameSound(fr), NEW c \in Cameras
  PROVE  /\ Had(fr, c) \in 0 .. ImageChunks /\ (Had(fr, c) = ImageChunks => c \in Ready(fr))
         /\ Had(fr, c) = 0 => fr.pending[c] = <<>> \/ c \in Ready(fr)
         /\ c \in Ready(fr) => Had(fr, c) = ImageChunks
<1>1. /\ ImageChunks \in Nat \ {0} /\ fr.pending[c] \in Seq(Piece) /\ Len(fr.pending[c]) < ImageChunks
      /\ Len(fr.pending[c]) \in Nat
  BY ChunksAssumption DEF FrameSound, Frame, Contiguous
<1>2. Len(fr.pending[c]) = 0 => fr.pending[c] = <<>>
  BY <1>1
<1>3. QED
  BY <1>1, <1>2 DEF Had, Ready

(* The Agent sends the next piece of slot c. *)
LEMMA PieceSentAlive ==
  ASSUME NEW lk \in Seq(Message), NEW new, NEW x, Appended(lk, new, x), NEW f, NEW c \in Cameras,
         IsPiece(x, f, c), NEW upto \in [Cameras -> 0 .. ImageChunks], x.chunk.offset = upto[c],
         NEW pics, x.chunk.image = pics[c], NEW fr, FrameSound(fr), NEW m, NEW sent,
         Alive(fr, lk, f, pics, m, upto, sent)
  PROVE  Alive(fr, new, f, pics, m, [upto EXCEPT ![c] = @ + 1], sent)
<1> DEFINE more == [upto EXCEPT ![c] = @ + 1]
<1>1. /\ more[c] = upto[c] + 1 /\ \A k \in Cameras \ {c} : more[k] = upto[k]
      /\ upto[c] \in Int
  BY ChunksAssumption
<1> HIDE DEF more
<1>2. /\ x.frame = f /\ x.chunk # None /\ x.chunk.image # None
      /\ \A k \in Cameras \ {c} : ~IsPiece(x, f, k)
  BY DEF IsPiece
<1>3. \A k \in Cameras \ {c} : LaneAlive(fr, new, f, pics, k, more[k])
  BY <1>1, <1>2, AppendedShifts, LaneShifted DEF Alive, Flows
<1>4. Damaged(new, f) = {} /\ MetaAlive(fr, new, f, m, sent)
  BY <1>2, AppendedShifts, ShiftedNone, MetaShifted DEF Alive, Flows
<1>5. LaneAlive(fr, new, f, pics, c, more[c])
  <2>1. LaneAlive(fr, lk, f, pics, c, upto[c]) /\ Had(fr, c) \in Int
    BY HadType DEF Alive, Flows
  <2>2. /\ \A k \in Pieces(lk, f, c) : k \in Pieces(new, f, c) /\ new[k] = lk[k]
        /\ \A k \in Pieces(new, f, c) : \/ k \in Pieces(lk, f, c) /\ new[k] = lk[k]
                                        \/ new[k] = x
        /\ Len(lk) + 1 \in Pieces(new, f, c) /\ new[Len(lk) + 1] = x
    BY DEF Appended, Pieces
  <2>3. \A k \in Pieces(lk, f, c) : lk[k].chunk.offset \in Int
    BY PieceTypesOn, ChunksAssumption
  <2>4. \A k \in Pieces(new, f, c) : /\ new[k].chunk.image = pics[c]
                                     /\ Had(fr, c) <= new[k].chunk.offset
                                     /\ new[k].chunk.offset < more[c]
    BY <1>1, <2>1, <2>2, <2>3, SMTT(30) DEF LaneAlive
  <2>5. \A o \in Had(fr, c) .. (more[c] - 1) :
          \E k \in Pieces(new, f, c) : new[k].chunk.offset = o
    <3> TAKE o \in Had(fr, c) .. (more[c] - 1)
    <3>1. CASE o = upto[c]
      BY <2>2, <3>1
    <3>2. CASE o # upto[c]
      <4>1. o \in Had(fr, c) .. (upto[c] - 1)
        BY <1>1, <2>1, <3>2
      <4>2. PICK k \in Pieces(lk, f, c) : lk[k].chunk.offset = o
        BY <2>1, <4>1 DEF LaneAlive
      <4>3. QED
        BY <2>2, <4>2
    <3>3. QED
      BY <3>1, <3>2
  <2>6. QED
    BY <1>1, <2>1, <2>4, <2>5 DEF LaneAlive
<1>6. QED
  BY <1>3, <1>4, <1>5 DEF Alive, Flows, more

(* The Agent sends the metadata. *)
LEMMA RecordSentAlive ==
  ASSUME NEW lk, NEW new, NEW x, Appended(lk, new, x), NEW f, x.frame = f, x.chunk = None,
         NEW m, x.meta = m, NEW upto, NEW pics, NEW fr, Alive(fr, lk, f, pics, m, upto, FALSE)
  PROVE  Alive(fr, new, f, pics, m, upto, TRUE)
<1>1. \A c : ~IsPiece(x, f, c)
  BY DEF IsPiece
<1>2. \A c \in Cameras : LaneAlive(fr, new, f, pics, c, upto[c])
  BY <1>1, AppendedShifts, LaneShifted DEF Alive, Flows
<1>3. Damaged(new, f) = {}
  BY AppendedShifts, ShiftedNone DEF Alive, Flows
<1>4. fr.metadata = None /\ Records(lk, f) = {}
  BY DEF Alive, Flows, MetaAlive
<1>5. Records(new, f) = {Len(lk) + 1} /\ new[Len(lk) + 1] = x
  BY <1>4 DEF Appended, Records
<1>6. MetaAlive(fr, new, f, m, TRUE)
  BY <1>4, <1>5 DEF MetaAlive
<1>7. QED
  BY <1>2, <1>3, <1>6 DEF Alive, Flows

-----------------------------------------------------------------------------
(* Reading *)

(* The pieces of a slot are on the link in order. *)
LaneOrdered(lk, f, c) ==
  \A j, k \in Pieces(lk, f, c) : j < k => lk[j].chunk.offset < lk[k].chunk.offset

(* A piece of a frame that loses nothing is the one its slot waits for. *)
LEMMA PieceIsNext ==
  ASSUME NEW lk \in Seq(Message), NEW f, NEW c \in Cameras, Len(lk) > 0, IsPiece(lk[1], f, c),
         LaneOrdered(lk, f, c),
         NEW fr, FrameSound(fr), NEW pics, NEW upto \in 0 .. ImageChunks,
         LaneAlive(fr, lk, f, pics, c, upto)
  PROVE  /\ lk[1].chunk.offset = Had(fr, c) /\ lk[1].chunk.image = pics[c]
         /\ Had(fr, c) < upto
         /\ c \notin Ready(fr) /\ lk[1].chunk.offset = Len(fr.pending[c])
<1>1. /\ 1 \in Pieces(lk, f, c) /\ Had(fr, c) \in Int
      /\ \A k \in Pieces(lk, f, c) : lk[k].chunk.offset \in 0 .. (ImageChunks - 1) /\ k >= 1
  <2>1. Had(fr, c) \in Int
    BY HadType, ChunksAssumption
  <2>2. 1 \in Pieces(lk, f, c) /\ \A k \in Pieces(lk, f, c) : k >= 1
    BY DEF Pieces
  <2>3. QED
    BY <2>1, <2>2, PieceTypesOn
<1> DEFINE o == Had(fr, c)
<1>2. /\ lk[1].chunk.image = pics[c]
      /\ o <= lk[1].chunk.offset /\ lk[1].chunk.offset < upto
  BY <1>1 DEF LaneAlive
<1>3. o < upto /\ o \in o .. (upto - 1)
  BY <1>1, <1>2, ChunksAssumption
<1>4. PICK k \in Pieces(lk, f, c) : lk[k].chunk.offset = o
  BY <1>3 DEF LaneAlive
<1>5. k = 1
  <2>1. k # 1 => lk[1].chunk.offset < lk[k].chunk.offset
    BY <1>1 DEF Pieces, LaneOrdered
  <2>2. QED
    BY <1>1, <1>2, <1>4, <2>1
<1>6. c \notin Ready(fr)
  BY <1>1, <1>3, HadType, ChunksAssumption
<1>7. QED
  BY <1>2, <1>3, <1>4, <1>5, <1>6 DEF Had, Ready

(* The record fr2 is fr with one more piece in slot c. *)
Longer(fr, fr2, c, pics) ==
  /\ fr2.invalid = {} /\ ~fr2.overdue /\ fr2.metadata = fr.metadata
  /\ \A k \in Cameras \ {c} : fr2.pending[k] = fr.pending[k] /\ fr2.ready[k] = fr.ready[k]
  /\ Had(fr2, c) = Had(fr, c) + 1
  /\ fr2.pending[c] # <<>> => fr2.pending[c][1].image = pics[c]

(* The piece read is added to its slot, and the rest of the frame stays. *)
LEMMA PieceReadFlows ==
  ASSUME NEW lk \in Seq(Message), NEW new, Removed(lk, new), NEW f, NEW c \in Cameras,
         IsPiece(lk[1], f, c),
         LaneOrdered(lk, f, c),
         NEW fr, FrameSound(fr), NEW pics, NEW upto \in [Cameras -> 0 .. ImageChunks],
         NEW m, NEW sent, Flows(fr, lk, f, pics, m, upto, sent),
         NEW fr2, Longer(fr, fr2, c, pics)
  PROVE  Flows(fr2, new, f, pics, m, upto, sent)
<1>0. /\ fr2.invalid = {} /\ ~fr2.overdue /\ fr2.metadata = fr.metadata
      /\ \A k \in Cameras \ {c} : fr2.pending[k] = fr.pending[k] /\ fr2.ready[k] = fr.ready[k]
      /\ Had(fr2, c) = Had(fr, c) + 1
      /\ fr2.pending[c] # <<>> => fr2.pending[c][1].image = pics[c]
  BY DEF Longer
<1>1. /\ lk[1].frame = f /\ lk[1].chunk # None /\ lk[1].chunk.image # None
      /\ \A k \in Cameras \ {c} : ~IsPiece(lk[1], f, k)
  BY DEF IsPiece
<1>2. \A k \in Cameras \ {c} : LaneAlive(fr2, new, f, pics, k, upto[k])
  <2> TAKE k \in Cameras \ {c}
  <2>1. Shifts(Pieces(lk, f, k), Pieces(new, f, k), lk, new, 1)
    BY <1>1, RemovedShifts
  <2>2. LaneAlive(fr, lk, f, pics, k, upto[k])
    BY DEF Flows
  <2>3. fr2.pending[k] = fr.pending[k] /\ fr2.ready[k] = fr.ready[k]
    BY <1>0
  <2>4. QED
    BY <2>1, <2>2, <2>3, LaneShifted
<1>3. Damaged(new, f) = {} /\ MetaAlive(fr2, new, f, m, sent)
  <2>1. /\ Shifts(Damaged(lk, f), Damaged(new, f), lk, new, 1)
        /\ Shifts(Records(lk, f), Records(new, f), lk, new, 1)
    BY <1>1, RemovedShifts
  <2>2. Damaged(lk, f) = {} /\ MetaAlive(fr, lk, f, m, sent)
    BY DEF Flows
  <2>3. QED
    BY <1>0, <2>1, <2>2, ShiftedNone, MetaShifted
<1>4. LaneAlive(fr2, new, f, pics, c, upto[c])
  <2> DEFINE o == Had(fr, c)
             n == upto[c]
  <2>1. LaneAlive(fr, lk, f, pics, c, n) /\ n \in 0 .. ImageChunks /\ o \in Int /\ n \in Int
    BY HadType, ChunksAssumption DEF Flows
  <2>2. lk[1].chunk.offset = o /\ o < n
    <3>1. Len(lk) > 0
      BY DEF Removed
    <3>2. QED
      BY <2>1, <3>1, PieceIsNext
  <2>3. /\ \A k \in Pieces(new, f, c) : /\ k + 1 \in Pieces(lk, f, c) /\ new[k] = lk[k + 1]
                                        /\ 1 < k + 1
        /\ \A k \in Pieces(lk, f, c) : k # 1 => k - 1 \in Pieces(new, f, c)
                                                /\ new[k - 1] = lk[k]
        /\ 1 \in Pieces(lk, f, c)
    <3>1. /\ Len(lk) \in Nat /\ Len(lk) > 0 /\ Len(new) = Len(lk) - 1
          /\ \A k \in 1 .. Len(new) : new[k] = lk[k + 1]
      BY DEF Removed
    <3>2. QED
      BY <3>1 DEF Pieces
  <2>4. \A k \in Pieces(lk, f, c) : lk[k].chunk.offset \in Int
    BY PieceTypesOn, ChunksAssumption
  <2>5. ASSUME NEW k \in Pieces(new, f, c)
        PROVE  /\ new[k].chunk.image = pics[c] /\ o + 1 <= new[k].chunk.offset
               /\ new[k].chunk.offset < n
    <3>1. k + 1 \in Pieces(lk, f, c) /\ new[k] = lk[k + 1] /\ 1 < k + 1
      BY <2>3
    <3>2. lk[1].chunk.offset < lk[k + 1].chunk.offset
      BY <2>3, <3>1 DEF LaneOrdered
    <3>3. lk[k + 1].chunk.image = pics[c] /\ lk[k + 1].chunk.offset < n
      BY <2>1, <3>1 DEF LaneAlive
    <3>4. QED
      BY <2>1, <2>2, <2>4, <3>1, <3>2, <3>3
  <2>6. \A q \in (o + 1) .. (n - 1) : \E k \in Pieces(new, f, c) : new[k].chunk.offset = q
    <3> TAKE q \in (o + 1) .. (n - 1)
    <3>1. q \in o .. (n - 1) /\ q # o
      BY <2>1
    <3>2. PICK k \in Pieces(lk, f, c) : lk[k].chunk.offset = q
      BY <2>1, <3>1 DEF LaneAlive
    <3>3. k # 1
      BY <2>2, <3>1, <3>2
    <3>4. QED
      BY <2>3, <3>2, <3>3
  <2>7. Had(fr2, c) <= n
    BY <1>0, <2>1, <2>2
  <2>8. QED
    BY <1>0, <2>5, <2>6, <2>7 DEF LaneAlive
<1>5. QED
  BY <1>0, <1>2, <1>3, <1>4 DEF Flows

(* The record fr2 is fr with the metadata m. *)
Recorded(fr, fr2, m) ==
  /\ fr2.invalid = fr.invalid /\ fr2.overdue = fr.overdue /\ fr2.metadata = m
  /\ fr2.pending = fr.pending /\ fr2.ready = fr.ready

(* The metadata read is kept with the frame. *)
LEMMA RecordReadFlows ==
  ASSUME NEW lk, NEW new, Removed(lk, new), NEW f, lk[1].frame = f, lk[1].chunk = None,
         NEW fr, NEW pics, NEW upto, NEW m, NEW sent, Flows(fr, lk, f, pics, m, upto, sent),
         NEW fr2, Recorded(fr, fr2, lk[1].meta)
  PROVE  Flows(fr2, new, f, pics, m, upto, sent) /\ lk[1].meta = m /\ sent
<1>1. \A c : ~IsPiece(lk[1], f, c)
  BY DEF IsPiece
<1>2. \A c \in Cameras : LaneAlive(fr2, new, f, pics, c, upto[c])
  BY <1>1, RemovedShifts, LaneShifted DEF Flows, Recorded
<1>3. Damaged(new, f) = {}
  BY RemovedShifts, ShiftedNone DEF Flows
<1>4. 1 \in Records(lk, f)
  BY DEF Records, Removed
<1>5. sent /\ Records(lk, f) = {1} /\ lk[1].meta = m
  BY <1>4 DEF Flows, MetaAlive
<1>6. Records(new, f) = {}
  <2> SUFFICES ASSUME NEW k \in Records(new, f) PROVE FALSE
    OBVIOUS
  <2>1. k + 1 \in Records(lk, f) /\ k + 1 # 1
    BY DEF Records, Removed
  <2>2. QED
    BY <1>5, <2>1
<1>7. MetaAlive(fr2, new, f, m, sent)
  BY <1>5, <1>6 DEF MetaAlive, Recorded
<1>8. QED
  BY <1>2, <1>3, <1>5, <1>7 DEF Flows, Recorded

-----------------------------------------------------------------------------
(* Completing *)

(* Pieces are passed of declared slots only; a slot is pending or ready; the frame *)
(* with metadata m has been sent whole.                                             *)
Within(upto, m)          == \A c \in Cameras : upto[c] # 0 => c \in Declared(m)
LanesApart(fr)           == \A c \in Cameras : fr.ready[c] # <<>> => fr.pending[c] = <<>>
SentWhole(upto, m, sent) ==
  /\ sent /\ Declared(m) # {}
  /\ \A c \in Cameras : upto[c] = IF c \in Declared(m) THEN ImageChunks ELSE 0

(* A complete frame has been read whole, and was sent whole. *)
LEMMA CompleteIsOver ==
  ASSUME NEW lk \in Seq(Message), NEW f, NEW fr, FrameSound(fr), Completes(fr), NEW pics,
         NEW m, NEW sent, NEW upto \in [Cameras -> 0 .. ImageChunks],
         Flows(fr, lk, f, pics, m, upto, sent),
         Within(upto, m), LanesApart(fr)
  PROVE  Over(Leftover(fr), lk, f) /\ SentWhole(upto, m, sent)
<1>1. /\ sent /\ fr.metadata = m /\ Records(lk, f) = {} /\ Damaged(lk, f) = {}
      /\ Ready(fr) = Declared(m) /\ Declared(m) # {}
  BY DEF Completes, Expected, Flows, MetaAlive, Declared
<1>2. \A c \in Cameras : /\ upto[c] \in 0 .. ImageChunks /\ Had(fr, c) \in 0 .. ImageChunks
                         /\ LaneAlive(fr, lk, f, pics, c, upto[c]) /\ ImageChunks \in Nat
  BY HadType, ChunksAssumption DEF Flows
<1>3. ASSUME NEW c \in Cameras
      PROVE  /\ upto[c] = IF c \in Declared(m) THEN ImageChunks ELSE 0
             /\ Had(fr, c) = upto[c] /\ fr.pending[c] = <<>>
  <2>1. Had(fr, c) <= upto[c]
    BY <1>2 DEF LaneAlive
  <2>2. CASE c \in Declared(m)
    BY <1>1, <1>2, <2>1, <2>2, HadType DEF Ready, LanesApart
  <2>3. CASE c \notin Declared(m)
    <3>1. upto[c] = 0 /\ Had(fr, c) = 0
      BY <1>2, <2>1, <2>3 DEF Within
    <3>2. QED
      BY <1>1, <2>3, <3>1, HadType DEF LanesApart
  <2>4. QED
    BY <2>2, <2>3
<1>4. Leftover(fr) = NoFrame
  <2>1. fr.pending = NoImages
    BY <1>3 DEF FrameSound, Frame, NoImages
  <2>2. Leftover(fr) = [NoFrame EXCEPT !.pending = NoImages]
    BY <2>1 DEF Leftover
  <2>3. QED
    BY <2>2 DEF NoFrame
<1>5. Of(lk, f) = {}
  <2> SUFFICES ASSUME NEW k \in Of(lk, f) PROVE FALSE
    OBVIOUS
  <2>1. k \in 1 .. Len(lk) /\ lk[k].frame = f /\ lk[k] \in Message
    BY DEF Of
  <2>2. lk[k].chunk # None /\ lk[k].chunk.image # None
    BY <1>1, <2>1 DEF Records, Damaged
  <2>3. lk[k].chunk.camera \in Cameras
    BY <2>1, <2>2, MessageFacts DEF Chunk
  <2> DEFINE c == lk[k].chunk.camera
  <2>4. k \in Pieces(lk, f, c)
    BY <2>1, <2>2 DEF Pieces, IsPiece
  <2>5. Had(fr, c) <= lk[k].chunk.offset /\ lk[k].chunk.offset < upto[c]
    BY <1>2, <2>3, <2>4 DEF LaneAlive
  <2>6. lk[k].chunk.offset \in 0 .. (ImageChunks - 1)
    BY <2>4, PieceTypesOn
  <2>7. QED
    BY <1>2, <1>3, <2>3, <2>5, <2>6
<1>6. QED
  BY <1>1, <1>3, <1>4, <1>5 DEF Over, SentWhole

(* Of a frame sent whole and not complete, something is on the link. *)
LEMMA StillComing ==
  ASSUME NEW lk, NEW f, NEW fr, FrameSound(fr), NEW pics, NEW m, Declared(m) # {},
         Declared(m) \subseteq Cameras, m # None, Alive(fr, lk, f, pics, m, Whole(m), TRUE)
  PROVE  Of(lk, f) # {}
<1> SUFFICES ASSUME Of(lk, f) = {} PROVE FALSE
  OBVIOUS
<1>1. \A c \in Cameras : Pieces(lk, f, c) = {}
  BY DEF Of, Pieces, IsPiece
<1>2. fr.metadata = m
  BY DEF Of, Records, Alive, Flows, MetaAlive
<1>3. \A c \in Cameras : Had(fr, c) = Whole(m)[c]
  <2> TAKE c \in Cameras
  <2>1. LaneAlive(fr, lk, f, pics, c, Whole(m)[c]) /\ Had(fr, c) \in Int
    BY HadType, ChunksAssumption DEF Alive, Flows
  <2>2. Whole(m)[c] \in Int /\ Had(fr, c) <= Whole(m)[c]
    BY <2>1, ChunksAssumption DEF Whole, LaneAlive
  <2>3. Had(fr, c) .. (Whole(m)[c] - 1) = {}
    BY <1>1, <2>1 DEF LaneAlive
  <2>4. QED
    BY <2>1, <2>2, <2>3
<1>4. Ready(fr) = Declared(m)
  <2>1. \A c \in Cameras : c \in Ready(fr) <=> c \in Declared(m)
    BY <1>3, HadType, ChunksAssumption DEF Whole
  <2>2. QED
    BY <2>1 DEF Ready
<1>5. Completes(fr)
  BY <1>2, <1>4 DEF Completes, HasPartial, Expected, Declared, Alive, Flows
<1>6. QED
  BY <1>5 DEF Alive

-----------------------------------------------------------------------------
(* The frame whose message is read *)

(* The numbers of the frames opened. *)
LEMMA OpenedFacts ==
  ASSUME CreditTypes
  PROVE  /\ opened \in Nat /\ opened <= MaxFrames /\ MaxFrames \in Nat
         /\ \A n \in 0 .. (opened - 1) : Id(n) \in FrameIds /\ Number(Id(n)) = n
         /\ \A f \in FrameIds : Number(f) < opened => Number(f) \in 0 .. (opened - 1)
         /\ \A f \in FrameIds : Number(f) \in Nat /\ Id(Number(f)) = f
<1>1. /\ opened \in Nat /\ opened <= MaxFrames /\ MaxFrames \in Nat /\ IdModulus \in Nat
      /\ 2 * MaxFrames <= IdModulus
  BY CreditAssumption, IdAssumption DEF CreditTypes
<1>2. \A n \in 0 .. (opened - 1) : n \in 0 .. (IdModulus - 1)
  BY <1>1
<1>3. \A f \in FrameIds : Number(f) \in Nat
  BY <1>1, NumberFacts
<1>4. QED
  BY <1>1, <1>2, <1>3, NumberFacts

(* The first message is of a frame opened, and not late. *)
LEMMA HeadFacts ==
  ASSUME CreditInv, link # <<>>
  PROVE  /\ link \in Seq(Message) /\ Len(link) \in Nat /\ Len(link) > 0
         /\ 1 \in 1 .. Len(link) /\ link[1] \in Message
         /\ link[1].frame \in FrameIds /\ Number(link[1].frame) \in 0 .. (opened - 1)
         /\ ~IsLate(link[1].frame)
<1> DEFINE f == link[1].frame
<1>1. /\ CreditTypes /\ link \in Seq(Message) /\ Len(link) \in Nat /\ Len(link) > 0
      /\ 1 \in 1 .. Len(link) /\ link[1] \in Message
  BY DEF CreditInv, CreditTypes
<1>2. f \in FrameIds /\ Number(f) \in 0 .. (opened - 1) /\ Number(f) < opened
  BY <1>1, MessageFacts, OpenedFacts DEF CreditInv, InOrder
<1>3. ~IsLate(f)
  <2> SUFFICES ASSUME newestFrameId # None, newestFrameId # f PROVE FrameIdIsNewer(f, newestFrameId)
    BY DEF IsLate
  <2> DEFINE g == newestFrameId
  <2>1. g \in FrameIds /\ g \in Seen
    BY DEF CreditInv, IInv, NewestType, Seen
  <2>2. Number(g) < opened /\ Number(g) <= Number(f)
    BY <1>1, <2>1 DEF CreditInv, InOrder
  <2>3. Number(g) # Number(f) /\ Number(g) \in Nat /\ Number(f) \in Nat
    BY <1>1, <1>2, <2>1, OpenedFacts
  <2>4. Number(g) < MaxFrames /\ Number(f) < MaxFrames /\ Number(g) < Number(f)
    BY <1>1, <1>2, <2>2, <2>3, OpenedFacts
  <2>5. QED
    BY <1>2, <2>1, <2>4, NewerIsLater
<1>4. QED
  BY <1>1, <1>2, <1>3

LEMMA TailRemoved ==
  ASSUME CreditInv, link # <<>>, link' = Tail(link)
  PROVE  Removed(link, link') /\ link' \in Seq(Message) /\ link[1] = Head(link)
BY HeadFacts DEF Removed

(* What a call leaves behind of the frames other than the one of its message. *)
LEMMA IngestOutcome ==
  ASSUME CreditInv, NEW c \in Chunk, Ingest(c)
  PROVE  /\ \A g \in FrameIds \ {c.frame} : frames'[g] = frames[g] \/ g \in OlderThan(c.frame)
         /\ Range(settledOrder') \subseteq Range(settledOrder) \cup OlderThan(c.frame) \cup {c.frame}
         /\ result'.discarded \subseteq OlderThan(c.frame)
<1> DEFINE id == c.frame
           older == OlderThan(id)
<1>1. CASE IngestLate(c)
  BY <1>1 DEF IngestLate, NoResult
<1>2. ASSUME NEW history \in HistoriesAfter(older), NEW fr, Replace(older, id, fr),
             settledOrder' \in {history, Recent(Append(history, id))},
             result'.discarded = Settles(older)
      PROVE  /\ \A g \in FrameIds \ {id} : frames'[g] = frames[g] \/ g \in older
             /\ Range(settledOrder') \subseteq Range(settledOrder) \cup older \cup {id}
             /\ result'.discarded \subseteq older
  <2>1. /\ id \in FrameIds /\ older \in SUBSET FrameIds /\ older \cap Range(settledOrder) = {}
        /\ HistoryType
    BY WorkFacts, ChunkFacts DEF CreditInv, IInv
  <2>2. /\ Settles(older) = older /\ history \in Seq(FrameIds)
        /\ Range(history) \subseteq Range(settledOrder) \cup older
    BY <2>1, RetiredRemembered DEF Remembers
  <2>3. Range(Recent(Append(history, id))) \subseteq Range(history) \cup {id}
    <3>1. Append(history, id) \in Seq(FrameIds)
      BY <2>1, <2>2
    <3>2. \A k \in 1 .. Len(Append(history, id)) :
            Append(history, id)[k] \in Range(history) \cup {id}
      <4>1. \A k \in 1 .. Len(history) : history[k] \in Range(history)
        BY <2>2, RangeFacts
      <4>2. QED
        BY <2>2, <4>1
    <3>3. Range(Append(history, id)) \subseteq Range(history) \cup {id}
      <4> DEFINE longer == Append(history, id)
      <4>1. longer \in Seq(FrameIds) /\ \A k \in 1 .. Len(longer) : longer[k] \in Range(history) \cup {id}
        BY <3>1, <3>2
      <4> HIDE DEF longer
      <4>2. Range(longer) \subseteq Range(history) \cup {id}
        BY <4>1, RangeFacts
      <4>3. QED
        BY <4>2 DEF longer
    <3>4. QED
      BY <3>1, <3>3, RecentRange
  <2>4. QED
    BY <1>2, <2>2, <2>3 DEF Replace
<1>3. ASSUME NEW history \in HistoriesAfter(older), NEW fr, Keep(c, history, fr)
      PROVE  /\ \A g \in FrameIds \ {id} : frames'[g] = frames[g] \/ g \in older
             /\ Range(settledOrder') \subseteq Range(settledOrder) \cup older \cup {id}
             /\ result'.discarded \subseteq older
  <2>1. Replace(older, id, fr) /\ settledOrder' = history /\ result'.discarded = Settles(older)
    BY <1>3 DEF Keep, Discarding
  <2>2. QED
    BY <1>2, <2>1
<1>4. ASSUME NEW history \in HistoriesAfter(older), IngestImage(c, history)
      PROVE  /\ \A g \in FrameIds \ {id} : frames'[g] = frames[g] \/ g \in older
             /\ Range(settledOrder') \subseteq Range(settledOrder) \cup older \cup {id}
             /\ result'.discarded \subseteq older
  <2> DEFINE new == Finished(Extended(frames[id], c), c)
  <2>1. \/ Keep(c, history, new)
        \/ /\ Replace(older, id, Leftover(new))
           /\ settledOrder' = Recent(Append(history, id))
           /\ result' = [Discarding(older) EXCEPT !.completed = CompletedSet(id, new)]
    BY <1>4 DEF IngestImage
  <2> HIDE DEF new
  <2>2. CASE Keep(c, history, new)
    BY <1>3, <2>2
  <2>3. CASE ~Keep(c, history, new)
    <3>1. result'.discarded = Settles(older)
      BY <2>1, <2>3 DEF Discarding
    <3>2. QED
      BY <1>2, <2>1, <2>3, <3>1
  <2>4. QED
    BY <2>2, <2>3
<1>5. QED
  BY <1>1, <1>3, <1>4 DEF Ingest, IngestSettled, IngestInvalid, IngestIgnored,
     IngestDiscontinuous, IngestPiece, IngestDuplicateImage

(* Of the frames a chunk retires, each lost something. *)
LEMMA OlderSpoiled ==
  ASSUME CreditInv, HealthInv, link # <<>>
  PROVE  \A f \in OlderThan(link[1].frame) : \E n \in spoiled \cap (0 .. (opened - 1)) : f = Id(n)
<1> DEFINE g == link[1].frame
<1>1. CreditTypes /\ g \in FrameIds /\ Number(g) \in 0 .. (opened - 1)
  BY HeadFacts DEF CreditInv
<1>2. ASSUME NEW f \in OlderThan(g)
      PROVE  \E n \in spoiled \cap (0 .. (opened - 1)) : f = Id(n)
  <2> DEFINE n == Number(f)
  <2>1. f \in FrameIds /\ Holds(frames[f]) /\ FrameIdIsNewer(g, f) /\ f \in Working
    BY WorkFacts DEF OlderThan, CreditInv
  <2>2. n < opened
    BY <2>1 DEF CreditInv, InOrder, Seen
  <2>3. n \in 0 .. (opened - 1) /\ Id(n) = f
    BY <1>1, <2>1, <2>2, OpenedFacts
  <2>4. n < Number(g)
    <3>1. n < MaxFrames /\ Number(g) < MaxFrames
      BY <1>1, <2>3, OpenedFacts
    <3>2. QED
      BY <1>1, <2>1, <3>1, NewerIsLater
  <2>5. n # Current
    BY <1>1, <2>3, <2>4, OpenedFacts DEF Current
  <2>6. Of(link, f) = {}
    <3> SUFFICES ASSUME NEW k \in Of(link, f) PROVE FALSE
      OBVIOUS
    <3>1. k \in 1 .. Len(link) /\ link[k].frame = f
      BY DEF Of
    <3>2. Number(g) <= n
      <4>1. k = 1 \/ 1 < k
        BY <3>1
      <4>2. 1 \in 1 .. Len(link)
        BY HeadFacts
      <4>3. CASE 1 < k
        BY <3>1, <4>2, <4>3 DEF CreditInv, InOrder
      <4>4. QED
        BY <2>4, <2>3, <1>1, <3>1, <4>1, <4>3
    <3>3. QED
      BY <1>1, <2>3, <2>4, <3>2
  <2>7. ~Over(frames[f], link, f)
    BY <2>1, NoFrameSound DEF Over
  <2>8. \A m \in Metas : Declared(m) # {} =>
           ~Alive(frames[f], link, f, Captured[n], m, Whole(m), TRUE)
    <3> TAKE m \in Metas
    <3>1. FrameSound(frames[f]) /\ m # None /\ Declared(m) \subseteq Cameras
      BY <2>1, MetasAssumption DEF CreditInv, IInv, Declared
    <3>2. QED
      BY <2>6, <3>1, StillComing
  <2>9. ~Health(n)
    BY <2>3, <2>5, <2>7, <2>8 DEF Health
  <2>10. n \in spoiled
    BY <2>3, <2>9 DEF HealthInv
  <2>11. QED
    BY <2>3, <2>10
<1>3. QED
  BY <1>2

(* The chunk c is the next piece of slot cam, the last one of its image. *)
NextPiece(fr, c, cam) ==
  /\ c.image # None /\ c.offset = Len(fr.pending[cam]) /\ cam \notin Ready(fr)
  /\ fr.pending[cam] # <<>> => fr.pending[cam][1].image = c.image
LastPiece(c) == c.offset + 1 = ImageChunks

(* The piece read is the next of its slot, and extends or finishes it. *)
LEMMA NextPieceFlows ==
  ASSUME NEW lk \in Seq(Message), NEW new, Removed(lk, new), NEW c \in Chunk, lk[1].chunk = c,
         NEW f, f = c.frame, NEW cam, cam = c.camera, NEW fr, FrameSound(fr), NEW pics, NEW m,
         NEW sent, NEW upto \in [Cameras -> 0 .. ImageChunks],
         LaneOrdered(lk, f, cam),
         Flows(fr, lk, f, pics, m, upto, sent), IsPiece(lk[1], f, cam), cam \in Cameras
  PROVE  /\ NextPiece(fr, c, cam)
         /\ Flows(Extended(fr, c), new, f, pics, m, upto, sent)
         /\ LastPiece(c) => Flows(Finished(Extended(fr, c), c), new, f, pics, m, upto, sent)
<1>1. /\ c.image # None /\ c.offset \in 0 .. (ImageChunks - 1) /\ Len(lk) > 0 /\ fr.invalid = {}
      /\ LaneAlive(fr, lk, f, pics, cam, upto[cam]) /\ upto[cam] \in 0 .. ImageChunks
  BY DEF IsPiece, Chunk, Removed, Flows
<1>2. /\ c.offset = Had(fr, cam) /\ c.image = pics[cam] /\ cam \notin Ready(fr)
      /\ c.offset = Len(fr.pending[cam])
  BY <1>1, PieceIsNext
<1>3. /\ fr.ready[cam] = <<>>
      /\ fr.pending[cam] # <<>> => fr.pending[cam][1].image = c.image
  BY <1>1, <1>2 DEF LaneAlive, Ready
<1>4. /\ FrameSound(fr) /\ c \in Chunk /\ c.image # None /\ c.offset = Len(fr.pending[c.camera])
      /\ fr.pending[c.camera] # <<>> => fr.pending[c.camera][1].image = c.image
  BY <1>1, <1>2, <1>3
<1> DEFINE long == Extended(fr, c)
           longer == long.pending[cam]
<1>5. /\ long \in Frame /\ long.ready = fr.ready
      /\ long.invalid = fr.invalid /\ long.metadata = fr.metadata
      /\ \A k \in Cameras \ {cam} : long.pending[k] = fr.pending[k]
      /\ longer \in Seq(Piece) /\ longer # <<>> /\ Len(longer) = c.offset + 1
      /\ \A k \in 1 .. Len(longer) : longer[k] = [image |-> c.image, offset |-> k - 1]
  BY <1>4, ExtendedFacts
<1>6. ~long.overdue
  BY DEF Extended, FrameSound, Frame
<1> HIDE DEF longer, long
<1>7. longer[1].image = pics[cam]
  <2>1. 1 \in 1 .. Len(longer)
    BY <1>1, <1>5, ChunksAssumption
  <2>2. longer[1] = [image |-> c.image, offset |-> 1 - 1]
    BY <1>5, <2>1
  <2>3. QED
    BY <1>2, <2>2
<1>8. Flows(long, new, f, pics, m, upto, sent)
  <2>1. /\ \A k \in Cameras \ {cam} : long.pending[k] = fr.pending[k] /\ long.ready[k] = fr.ready[k]
        /\ long.invalid = {} /\ ~long.overdue /\ long.metadata = fr.metadata
        /\ Had(long, cam) = Had(fr, cam) + 1
        /\ long.pending[cam] # <<>> => long.pending[cam][1].image = pics[cam]
    BY <1>1, <1>2, <1>3, <1>5, <1>6, <1>7 DEF Had, longer
  <2>2. Longer(fr, long, cam, pics)
    BY <2>1 DEF Longer
  <2>3. QED
    BY <2>2, PieceReadFlows
<1>9. ASSUME c.offset + 1 = ImageChunks
      PROVE  Flows(Finished(long, c), new, f, pics, m, upto, sent)
  <2> DEFINE done == Finished(long, c)
             ready == WithImage(long.ready, cam, long.pending[cam])
             pending == Cleared(long.pending, cam)
  <2>1. /\ pending[cam] = <<>> /\ ready[cam] = longer
        /\ \A k \in Cameras \ {cam} : pending[k] = fr.pending[k] /\ ready[k] = fr.ready[k]
    BY <1>5 DEF Cleared, WithImage, Frame, longer
  <2> HIDE DEF pending, ready
  <2>2. /\ done.pending = pending /\ done.ready = ready /\ ~done.overdue
        /\ done.invalid = {} /\ done.metadata = fr.metadata
    BY <1>1, <1>5, <1>6 DEF Finished, Frame, pending, ready
  <2> HIDE DEF done
  <2>3. Had(done, cam) = Had(fr, cam) + 1
    BY <1>2, <1>5, <1>9, <2>1, <2>2 DEF Had
  <2>4. /\ \A k \in Cameras \ {cam} : done.pending[k] = fr.pending[k] /\ done.ready[k] = fr.ready[k]
        /\ done.pending[cam] # <<>> => done.pending[cam][1].image = pics[cam]
    BY <2>1, <2>2
  <2>5. Flows(done, new, f, pics, m, upto, sent)
    <3>1. Longer(fr, done, cam, pics)
      BY <2>2, <2>3, <2>4 DEF Longer
    <3>2. QED
      BY <3>1, PieceReadFlows
  <2>6. QED
    BY <2>5 DEF done
<1>10. QED
  BY <1>1, <1>2, <1>3, <1>8, <1>9 DEF long, NextPiece, LastPiece

(* The piece read continues a frame that loses nothing, or completes it. *)
LEMMA PieceKept ==
  ASSUME CreditInv, link # <<>>, link' = Tail(link), NEW c \in Chunk, link[1].chunk = c, Ingest(c),
         NEW f, f = c.frame, f \notin Range(settledOrder), NEW pics, NEW m, NEW sent,
         NEW upto \in [Cameras -> 0 .. ImageChunks], Within(upto, m),
         Alive(frames[f], link, f, pics, m, upto, sent)
  PROVE  \/ f \notin Range(settledOrder') /\ Alive(frames'[f], link', f, pics, m, upto, sent)
         \/ Over(frames'[f], link', f) /\ SentWhole(upto, m, sent)
<1> DEFINE older == OlderThan(f)
<1>1. PICK fr, cam : fr = frames[f] /\ cam = c.camera
  OBVIOUS
<1>2. /\ link \in Seq(Message) /\ Len(link) > 0 /\ link[1] \in Message /\ link[1].frame = f
      /\ f \in FrameIds /\ ~IsLate(f) /\ Removed(link, link') /\ link' \in Seq(Message)
      /\ FrameSound(fr) /\ c # None /\ 1 \in 1 .. Len(link)
  <2>1. c # None
    BY NoneAssumption
  <2>2. QED
    BY <1>1, <2>1, HeadFacts, MessageFacts, TailRemoved DEF CreditInv, IInv
<1>3. Flows(fr, link, f, pics, m, upto, sent) /\ ~Completes(fr) /\ fr.invalid = {}
  BY <1>1 DEF Alive, Flows
<1>4. c.image # None /\ cam \in Cameras /\ ~BadEnvelope(c) /\ IsPiece(link[1], f, cam)
  <2>1. 1 \notin Damaged(link, f)
    BY <1>3 DEF Flows
  <2>2. c.image # None
    BY <1>2, <2>1 DEF Damaged
  <2>3. QED
    BY <1>1, <1>2, <2>2, ChunkFacts DEF BadEnvelope, IsPiece
<1>5. LaneOrdered(link, f, cam)
  BY <1>2, <1>4 DEF CreditInv, LanesOrdered, OnLink, Pieces, LaneOrdered
<1> DEFINE long == Extended(fr, c)
           done == Finished(long, c)
<1>6. /\ c.offset = Len(fr.pending[cam]) /\ cam \notin Ready(fr)
      /\ fr.pending[cam] # <<>> => fr.pending[cam][1].image = c.image
      /\ Flows(long, link', f, pics, m, upto, sent)
      /\ c.offset + 1 = ImageChunks => Flows(done, link', f, pics, m, upto, sent)
  <2>1. /\ link \in Seq(Message) /\ Removed(link, link') /\ link[1].chunk = c /\ f = c.frame
        /\ cam = c.camera /\ FrameSound(fr) /\ upto \in [Cameras -> 0 .. ImageChunks]
        /\ LaneOrdered(link, f, cam) /\ Flows(fr, link, f, pics, m, upto, sent)
        /\ IsPiece(link[1], f, cam) /\ cam \in Cameras /\ c \in Chunk
    BY <1>1, <1>2, <1>3, <1>4, <1>5
  <2>2. /\ NextPiece(fr, c, cam)
        /\ Flows(Extended(fr, c), link', f, pics, m, upto, sent)
        /\ LastPiece(c) => Flows(Finished(Extended(fr, c), c), link', f, pics, m, upto, sent)
    BY <2>1, NextPieceFlows
  <2>3. QED
    BY <2>2 DEF NextPiece, LastPiece
<1>7. PICK history \in HistoriesAfter(older) :
        \/ IngestSettled(c, history) \/ IngestInvalid(c, history)
        \/ IngestIgnored(c, history) \/ IngestDiscontinuous(c, history)
        \/ IngestPiece(c, history) \/ IngestDuplicateImage(c, history)
        \/ IngestImage(c, history)
  BY <1>2 DEF Ingest, IngestLate
<1>8. f \notin Range(history)
  <2>1. /\ older \in SUBSET FrameIds /\ older \cap Range(settledOrder) = {}
        /\ HistoryType /\ f \notin older
    BY <1>2, WorkFacts, NotNewerThanItself DEF CreditInv, IInv
  <2>2. QED
    BY <2>1, RetiredRemembered DEF Remembers
<1>9. IngestPiece(c, history) \/ IngestImage(c, history)
  <2>1. ~Discontinuous(c)
    BY <1>1, <1>6 DEF Discontinuous
  <2>2. QED
    BY <1>1, <1>3, <1>4, <1>6, <1>7, <1>8, <2>1 DEF IngestSettled, IngestInvalid, IngestIgnored,
       IngestDiscontinuous, IngestDuplicateImage
<1>10. CASE IngestPiece(c, history)
  <2>1. Advance(c) /\ Keep(c, history, long) /\ c.offset + 1 < ImageChunks
    BY <1>1, <1>10 DEF IngestPiece, Accepts
  <2>2. FrameSound(long)
    BY <1>1, <1>2, <1>4, <1>6, <2>1, PieceSound
  <2>3. ~Completes(long)
    <3>1. /\ Ready(long) = Ready(fr) /\ long.invalid = fr.invalid /\ long.metadata = fr.metadata
      BY <1>1, <1>2, <1>4, <1>6, ExtendedFacts
    <3>2. QED
      BY <1>3, <3>1 DEF Completes, HasPartial, Expected
  <2> HIDE DEF long
  <2>4. frames'[f] = long /\ settledOrder' = history
    BY <1>2, <2>1, <2>2, ReplacedFrames DEF Keep, Advance, CreditInv
  <2>5. QED
    BY <1>6, <1>8, <2>3, <2>4 DEF Alive
<1>11. CASE IngestImage(c, history)
  <2>1. /\ Advance(c) /\ c.offset + 1 = ImageChunks
        /\ \/ ~Completes(done) /\ Keep(c, history, done)
           \/ Completes(done) /\ Replace(older, f, Leftover(done))
    BY <1>1, <1>11 DEF IngestImage, Accepts
  <2>2. FrameSound(done)
    BY <1>1, <1>2, <1>3, <1>4, <1>6, <2>1, ImageSound
  <2>3. LanesApart(done)
    <3>1. Moves(1, f, done)
      BY <1>1, <1>2, <1>4, <1>6, <2>1, PieceMoves DEF CreditInv
    <3>2. QED
      BY <3>1 DEF Moves, LanesApart
  <2> HIDE DEF done
  <2>4. CASE ~Completes(done) /\ Keep(c, history, done)
    <3>1. frames'[f] = done /\ settledOrder' = history
      BY <1>2, <2>1, <2>2, <2>4, ReplacedFrames DEF Keep, Advance, CreditInv
    <3>2. QED
      BY <1>6, <1>8, <2>1, <2>4, <3>1 DEF Alive
  <2>5. CASE Completes(done) /\ Replace(older, f, Leftover(done))
    <3>1. FrameSound(Leftover(done))
      BY <2>2, LeftoverSound
    <3>2. frames'[f] = Leftover(done)
      BY <1>2, <2>1, <2>5, <3>1, ReplacedFrames DEF Advance, CreditInv
    <3>3. Over(Leftover(done), link', f) /\ SentWhole(upto, m, sent)
      BY <1>2, <1>6, <2>1, <2>2, <2>3, <2>5, CompleteIsOver
    <3>4. QED
      BY <3>2, <3>3
  <2>6. QED
    BY <2>1, <2>4, <2>5
<1>12. QED
  BY <1>9, <1>10, <1>11

(* Of a frame not settled more may come only while it is owed. *)
LEMMA ComingOwed ==
  ASSUME CreditInv, NEW f \in FrameIds, ToCome(f), f \notin Range(settledOrder)
  PROVE  f \in Owed
<1>1. settledOrder \in Seq(FrameIds)
  BY DEF CreditInv, IInv, HistoryType
<1>2. ASSUME NEW k \in 1 .. Len(settledOrder), settledOrder[k] = f
      PROVE  FALSE
  BY <1>1, <1>2, RangeFacts
<1>3. QED
  BY <1>2 DEF CreditInv, Remembered

(* The cap on metadata records is no less than the window. *)
CapSuffices == Window <= MetaCap

(* The metadata cap is never reached: metadata is kept only of frames that are owed. *)
LEMMA CappedSame ==
  ASSUME CreditInv, CapSuffices, NEW f \in Owed, NEW fr \in Frame
  PROVE  Capped([frames EXCEPT ![f] = fr]) = [frames EXCEPT ![f] = fr]
<1> DEFINE fs == [frames EXCEPT ![f] = fr]
           kept == {g \in FrameIds : fs[g].metadata # None}
           above(g) == {h \in kept : g < h}
<1>1. /\ frames \in [FrameIds -> Frame] /\ fs \in [FrameIds -> Frame] /\ f \in FrameIds
      /\ \A g \in FrameIds : fs[g] = IF g = f THEN fr ELSE frames[g]
      /\ \A g \in FrameIds : FrameSound(frames[g])
  BY DEF CreditInv, IInv, Owed
<1> HIDE DEF fs
<1>2. kept \subseteq Owed
  <2>1. \A g \in kept : g = f \/ g \in Working
    BY <1>1 DEF FrameSound, Working
  <2>2. QED
    BY <2>1 DEF CreditInv, WorkOwed
<1>3. ASSUME NEW g \in kept
      PROVE  Cardinality(above(g)) < MetaCap
  <2>1. above(g) \subseteq Owed \ {g} /\ g \in Owed
    BY <1>2, FrameIdFacts
  <2>2. Owed \in SUBSET FrameIds /\ IsFiniteSet(Owed) /\ Cardinality(Owed) \in Nat
    BY FrameSetFinite DEF Owed
  <2>3. IsFiniteSet(Owed \ {g}) /\ Cardinality(Owed \ {g}) = Cardinality(Owed) - 1
    BY <2>1, <2>2, FS_RemoveElement
  <2>4. Cardinality(above(g)) <= Cardinality(Owed \ {g}) /\ Cardinality(above(g)) \in Nat
    BY <2>1, <2>3, FS_Subset, FS_CardinalityType
  <2>5. /\ Cardinality(Owed) <= Window /\ Window \in Nat /\ MetaCap \in Nat
        /\ Window <= MetaCap
    BY OwedWithinWindow, CreditAssumption, LimitsAssumption DEF CreditInv, CapSuffices
  <2>6. QED
    BY <2>2, <2>3, <2>4, <2>5
<1>4. ASSUME NEW g \in FrameIds
      PROVE  Capped(fs)[g] = fs[g]
  <2>1. CASE g \in kept
    <3>1. Cardinality({h \in kept : g < h}) < MetaCap
      BY <1>3, <2>1
    <3>2. QED
      BY <2>1, <3>1 DEF Capped
  <2>2. CASE g \notin kept
    <3>1. fs[g].metadata = None /\ fs[g] \in Frame
      BY <1>1, <2>2
    <3>2. [fs[g] EXCEPT !.metadata = None] = fs[g]
      BY <3>1 DEF Frame
    <3>3. QED
      BY <2>2, <3>2 DEF Capped
  <2>3. QED
    BY <2>1, <2>2
<1>5. Capped(fs) = [g \in FrameIds |-> Capped(fs)[g]] /\ fs = [g \in FrameIds |-> fs[g]]
  BY <1>1 DEF Capped
<1>6. QED
  BY <1>4, <1>5 DEF fs

(* What a call with metadata leaves behind of the other frames. *)
LEMMA RecordOutcome ==
  ASSUME CreditInv, CapSuffices, link # <<>>, NEW f, f = link[1].frame, NEW m \in Metas,
         AddMetadata(f, m)
  PROVE  /\ \A g \in FrameIds \ {f} : frames'[g] = frames[g]
         /\ Range(settledOrder') \subseteq Range(settledOrder) \cup {f}
         /\ result'.discarded = {}
<1>1. /\ f \in FrameIds /\ ToCome(f) /\ settledOrder \in Seq(FrameIds)
      /\ frames \in [FrameIds -> Frame] /\ FrameSound(frames[f]) /\ m \in Metas \cup {None}
  BY HeadFacts DEF CreditInv, IInv, HistoryType, ToCome
<1> DEFINE fr == [Started(frames[f]) EXCEPT !.metadata = m]
<1>2. fr \in Frame
  BY <1>1, StartedSound, ZenonT(40) DEF FrameSound, Frame
<1>3. ASSUME NEW new \in Frame, f \notin Range(settledOrder),
             frames' = Capped([frames EXCEPT ![f] = new])
      PROVE  \A g \in FrameIds \ {f} : frames'[g] = frames[g]
  <2>1. f \in Owed
    BY <1>1, <1>3, ComingOwed
  <2>2. frames' = [frames EXCEPT ![f] = new]
    BY <1>3, <2>1, CappedSame
  <2>3. QED
    BY <1>1, <2>2
<1>4. CASE MetadataRefused(f, m)
  BY <1>4 DEF MetadataRefused, NoResult
<1>5. CASE MetadataKept(f, m)
  <2>1. /\ f \notin Range(settledOrder) /\ frames' = Capped([frames EXCEPT ![f] = fr])
        /\ settledOrder' = settledOrder /\ result' = NoResult
    BY <1>5 DEF MetadataKept, RefusesMetadata
  <2>2. QED
    BY <1>2, <1>3, <2>1 DEF NoResult
<1>6. CASE MetadataCompletes(f, m)
  <2>1. /\ f \notin Range(settledOrder) /\ frames' = Capped([frames EXCEPT ![f] = Leftover(fr)])
        /\ settledOrder' = Recent(Append(settledOrder, f))
        /\ result' = [NoResult EXCEPT !.completed = CompletedSet(f, fr)]
    BY <1>6 DEF MetadataCompletes, RefusesMetadata
  <2>2. Leftover(fr) \in Frame
    BY <1>2, NoFrameSound DEF Leftover, Frame, FrameSound
  <2>3. Range(settledOrder') \subseteq Range(settledOrder) \cup {f}
    <3> DEFINE longer == Append(settledOrder, f)
    <3>1. /\ longer \in Seq(FrameIds)
          /\ \A k \in 1 .. Len(longer) : longer[k] \in Range(settledOrder) \cup {f}
      <4>1. \A k \in 1 .. Len(settledOrder) : settledOrder[k] \in Range(settledOrder)
        BY <1>1, RangeFacts
      <4>2. QED
        BY <1>1, <4>1
    <3> HIDE DEF longer
    <3>2. Range(longer) \subseteq Range(settledOrder) \cup {f}
      BY <3>1, RangeFacts
    <3>3. Range(Recent(longer)) \subseteq Range(longer)
      BY <3>1, RecentRange
    <3>4. QED
      BY <2>1, <3>2, <3>3 DEF longer
  <2>4. result'.discarded = {}
    BY <2>1 DEF NoResult
  <2>5. QED
    BY <1>3, <2>1, <2>2, <2>3, <2>4
<1>7. QED
  BY <1>4, <1>5, <1>6 DEF AddMetadata

(* The metadata read is kept with a frame that loses nothing, or completes it. *)
LEMMA RecordKept ==
  ASSUME CreditInv, CapSuffices, link # <<>>, link' = Tail(link), NEW f, f = link[1].frame,
         link[1].chunk = None, AddMetadata(f, link[1].meta), f \notin Range(settledOrder),
         NEW pics, NEW m, NEW sent, NEW upto \in [Cameras -> 0 .. ImageChunks], Within(upto, m),
         Alive(frames[f], link, f, pics, m, upto, sent)
  PROVE  \/ f \notin Range(settledOrder') /\ Alive(frames'[f], link', f, pics, m, upto, sent)
         \/ Over(frames'[f], link', f) /\ SentWhole(upto, m, sent)
<1> DEFINE old == frames[f]
           fr == [Started(old) EXCEPT !.metadata = link[1].meta]
<1>1. /\ f \in FrameIds /\ ToCome(f) /\ ~IsLate(f) /\ Removed(link, link') /\ link' \in Seq(Message)
      /\ frames \in [FrameIds -> Frame] /\ FrameSound(old) /\ old \in Frame
      /\ link[1].meta \in Metas
  BY HeadFacts, TailRemoved, MessageFacts DEF CreditInv, IInv, ToCome
<1>2. /\ fr \in Frame /\ fr.started /\ fr.metadata = link[1].meta /\ fr.ready = old.ready
      /\ fr.pending = old.pending /\ fr.invalid = old.invalid /\ fr.overdue = old.overdue
  BY <1>1 DEF Started, Frame
<1>3. /\ MetadataKept(f, link[1].meta) \/ MetadataCompletes(f, link[1].meta)
  BY <1>1 DEF AddMetadata, MetadataRefused, RefusesMetadata
<1>4. \/ ~Completes(fr) /\ frames' = Capped([frames EXCEPT ![f] = fr])
         /\ settledOrder' = settledOrder
      \/ Completes(fr) /\ frames' = Capped([frames EXCEPT ![f] = Leftover(fr)])
  BY <1>3 DEF MetadataKept, MetadataCompletes
<1> HIDE DEF fr
<1>5. Flows(fr, link', f, pics, m, upto, sent)
  <2>1. /\ Removed(link, link') /\ link[1].frame = f /\ link[1].chunk = None
        /\ Flows(old, link, f, pics, m, upto, sent)
        /\ Recorded(old, fr, link[1].meta)
    BY <1>1, <1>2 DEF Alive, Recorded
  <2> HIDE DEF old
  <2>2. QED
    BY <2>1, RecordReadFlows
<1>6. FrameSound(fr) /\ LanesApart(fr)
  <2>1. Ready(fr) = Ready(old)
    BY <1>2 DEF Ready
  <2>2. LanesApart(fr)
    BY <1>1, <1>2 DEF CreditInv, LanesOrdered, LanesApart
  <2>3. QED
    BY <1>1, <1>2, <2>1, <2>2 DEF FrameSound
<1>7. ASSUME NEW new \in Frame, frames' = Capped([frames EXCEPT ![f] = new])
      PROVE  frames'[f] = new
  <2>1. f \in Owed
    BY <1>1, ComingOwed
  <2>2. frames' = [frames EXCEPT ![f] = new]
    BY <1>7, <2>1, CappedSame
  <2>3. QED
    BY <1>1, <2>2
<1>8. CASE ~Completes(fr) /\ frames' = Capped([frames EXCEPT ![f] = fr])
           /\ settledOrder' = settledOrder
  <2>1. frames'[f] = fr
    BY <1>2, <1>7, <1>8
  <2>2. QED
    BY <1>5, <1>8, <2>1 DEF Alive
<1>9. CASE Completes(fr) /\ frames' = Capped([frames EXCEPT ![f] = Leftover(fr)])
  <2>1. Leftover(fr) \in Frame
    BY <1>6, LeftoverSound DEF FrameSound
  <2>2. frames'[f] = Leftover(fr)
    BY <1>7, <1>9, <2>1
  <2>3. Over(Leftover(fr), link', f) /\ SentWhole(upto, m, sent)
    BY <1>1, <1>5, <1>6, <1>9, CompleteIsOver
  <2>4. QED
    BY <2>2, <2>3
<1>10. QED
  BY <1>4, <1>8, <1>9

-----------------------------------------------------------------------------
(* The steps *)

(* No message of frame n comes or goes. *)
Elsewhere(n) ==
  \/ link' = link
  \/ Removed(link, link') /\ link[1].frame # Id(n)
  \/ \E x : Appended(link, link', x) /\ x.frame # Id(n)

(* What a frame's health depends on stays as it is. *)
LEMMA HealthSame ==
  ASSUME CreditInv, NEW n \in 0 .. (opened - 1), Health(n), Elsewhere(n),
         frames'[Id(n)] = frames[Id(n)],
         Id(n) \in Range(settledOrder') => Id(n) \in Range(settledOrder),
         \/ UNCHANGED <<opened, sending, slots, passed, metaPassed>>
         \/ ~(sending /\ n = Current) /\ ~(sending' /\ n = Current')
  PROVE  Health(n)'
<1> DEFINE f == Id(n)
           fr == frames[f]
<1>1. Len(link) \in Nat
  BY DEF CreditInv, CreditTypes
<1>2. Over(fr, link, f) => Over(fr, link', f)
  BY <1>1, Undisturbed DEF Elsewhere
<1>3. \A pics, m, upto, sent : Alive(fr, link, f, pics, m, upto, sent)
                                 => Alive(fr, link', f, pics, m, upto, sent)
  BY <1>1, Undisturbed DEF Elsewhere
<1>4. CASE UNCHANGED <<opened, sending, slots, passed, metaPassed>>
  <2>1. /\ sending' = sending /\ Current' = Current /\ (Intact' <=> Intact)
        /\ slots' = slots /\ passed' = passed /\ metaPassed' = metaPassed
    BY <1>4 DEF Current, Intact, Populated
  <2>2. CASE sending /\ n = Current
    BY <1>2, <1>3, <2>1, <2>2 DEF Health
  <2>3. CASE ~(sending /\ n = Current)
    BY <1>2, <1>3, <2>1, <2>3 DEF Health
  <2>4. QED
    BY <2>2, <2>3
<1>5. CASE ~(sending /\ n = Current) /\ ~(sending' /\ n = Current')
  BY <1>2, <1>3, <1>5 DEF Health
<1>6. QED
  BY <1>4, <1>5

(* Ids of different frames of the run differ. *)
LEMMA IdInjective ==
  ASSUME CreditTypes, NEW n \in 0 .. (opened - 1), NEW k \in 0 .. (opened - 1), Id(n) = Id(k)
  PROVE  n = k
BY OpenedFacts

(* A call of the assembler that concerns frame f and retires only spoiled frames. *)
Retiring(S) == /\ S \subseteq FrameIds
               /\ \A g \in S : \E n \in spoiled \cap (0 .. (opened - 1)) : g = Id(n)
               /\ Range(settledOrder') \subseteq Range(settledOrder) \cup S
               /\ \A g \in FrameIds : frames'[g] = frames[g] \/ g \in S

LEMMA RetiringKeeps ==
  ASSUME CreditInv, HealthInv, NEW S, Retiring(S), NEW n \in 0 .. (opened - 1), n \notin spoiled,
         Elsewhere(n), UNCHANGED <<opened, sending, slots, passed, metaPassed>>
  PROVE  Health(n)'
<1>1. CreditTypes /\ Id(n) \in FrameIds /\ Health(n)
  BY OpenedFacts DEF CreditInv, HealthInv
<1>2. Id(n) \notin S
  BY <1>1, IdInjective DEF Retiring
<1>3. /\ frames'[Id(n)] = frames[Id(n)]
      /\ Id(n) \in Range(settledOrder') => Id(n) \in Range(settledOrder)
  BY <1>1, <1>2 DEF Retiring
<1>4. QED
  BY <1>1, <1>3, HealthSame

(* What reading a message leaves behind of the other frames. *)
LEMMA ReadOutcome ==
  ASSUME CreditInv, CapSuffices, HostReads, NEW f, f = link[1].frame
  PROVE  /\ \A g \in FrameIds \ {f} : frames'[g] = frames[g] \/ g \in OlderThan(f)
         /\ Range(settledOrder') \subseteq Range(settledOrder) \cup OlderThan(f) \cup {f}
         /\ result'.discarded \subseteq OlderThan(f)
<1>1. /\ link # <<>> /\ link[1] \in Message
      /\ \/ link[1].chunk # None /\ Ingest(link[1].chunk)
         \/ link[1].chunk = None /\ AddMetadata(f, link[1].meta)
  BY HeadFacts DEF HostReads
<1>2. CASE link[1].chunk # None /\ Ingest(link[1].chunk)
  <2>1. link[1].chunk \in Chunk /\ link[1].chunk.frame = f
    BY <1>1, <1>2, MessageFacts
  <2>2. QED
    BY <1>2, <2>1, IngestOutcome
<1>3. CASE link[1].chunk = None /\ AddMetadata(f, link[1].meta)
  <2>1. link[1].meta \in Metas
    BY <1>1, <1>3, MessageFacts
  <2>2. QED
    BY <1>1, <1>3, <2>1, RecordOutcome
<1>4. QED
  BY <1>1, <1>2, <1>3

(* The message read belongs to a frame that loses nothing. *)
LEMMA HeadKept ==
  ASSUME CreditInv, CapSuffices, HostReads, NEW f, f = link[1].frame, f \notin Range(settledOrder),
         NEW pics, NEW m, NEW sent, NEW upto \in [Cameras -> 0 .. ImageChunks], Within(upto, m),
         Alive(frames[f], link, f, pics, m, upto, sent)
  PROVE  \/ f \notin Range(settledOrder') /\ Alive(frames'[f], link', f, pics, m, upto, sent)
         \/ Over(frames'[f], link', f) /\ SentWhole(upto, m, sent)
<1>1. /\ link # <<>> /\ link' = Tail(link) /\ link[1] \in Message
      /\ \/ link[1].chunk # None /\ Ingest(link[1].chunk)
         \/ link[1].chunk = None /\ AddMetadata(f, link[1].meta)
  BY HeadFacts DEF HostReads
<1>2. CASE link[1].chunk # None /\ Ingest(link[1].chunk)
  <2>1. link[1].chunk \in Chunk /\ link[1].chunk.frame = f
    BY <1>1, <1>2, MessageFacts
  <2>2. QED
    BY <1>1, <1>2, <2>1, PieceKept
<1>3. CASE link[1].chunk = None /\ AddMetadata(f, link[1].meta)
  BY <1>1, <1>3, RecordKept
<1>4. QED
  BY <1>1, <1>2, <1>3

LEMMA WholeFacts ==
  ASSUME NEW m
  PROVE  Whole(m) \in [Cameras -> 0 .. ImageChunks] /\ Within(Whole(m), m)
BY ChunksAssumption DEF Whole, Within

(* Reading a message. *)
LEMMA ReadsHealthy ==
  ASSUME CreditInv, HealthInv, CapSuffices, HostReads
  PROVE  HealthInv'
<1> DEFINE f == link[1].frame
<1>1. /\ link # <<>> /\ link' = Tail(link) /\ spoiled' = spoiled
      /\ UNCHANGED <<opened, sending, slots, passed, metaPassed>> /\ UNCHANGED agentVars
  BY DEF HostReads, agentVars
<1>2. /\ CreditTypes /\ f \in FrameIds /\ Number(f) \in 0 .. (opened - 1)
      /\ Removed(link, link') /\ 1 \in 1 .. Len(link)
  BY <1>1, HeadFacts, TailRemoved DEF CreditInv
<1>3. \A g \in OlderThan(f) : \E n \in spoiled \cap (0 .. (opened - 1)) : g = Id(n)
  BY <1>1, OlderSpoiled
<1>4. /\ \A g \in FrameIds \ {f} : frames'[g] = frames[g] \/ g \in OlderThan(f)
      /\ Range(settledOrder') \subseteq Range(settledOrder) \cup OlderThan(f) \cup {f}
      /\ result'.discarded \subseteq OlderThan(f)
  BY ReadOutcome
<1>5. ASSUME NEW n \in 0 .. (opened - 1), n \notin spoiled, Id(n) # f
      PROVE  Health(n)'
  <2>1. Id(n) \in FrameIds /\ Health(n)
    BY <1>2, <1>5, OpenedFacts DEF HealthInv
  <2>2. Id(n) \notin OlderThan(f)
    BY <1>2, <1>3, <1>5, IdInjective
  <2>3. /\ frames'[Id(n)] = frames[Id(n)]
        /\ Id(n) \in Range(settledOrder') => Id(n) \in Range(settledOrder)
    BY <1>4, <1>5, <2>1, <2>2
  <2>4. Elsewhere(n)
    BY <1>2, <1>5 DEF Elsewhere
  <2>5. QED
    BY <1>1, <2>1, <2>3, <2>4, HealthSame
<1>6. ASSUME NEW n \in 0 .. (opened - 1), n \notin spoiled, Id(n) = f
      PROVE  Health(n)'
  <2>1. Health(n) /\ ~Over(frames[f], link, f)
    <3>1. 1 \in Of(link, f)
      BY <1>2 DEF Of
    <3>2. QED
      BY <1>6, <3>1 DEF HealthInv, Over
  <2>2. CASE sending /\ n = Current
    <3>1. /\ f \notin Range(settledOrder)
          /\ Alive(frames[f], link, f, Captured[n], slots, passed, metaPassed)
      BY <1>6, <2>1, <2>2 DEF Health
    <3>2. Within(passed, slots) /\ passed \in [Cameras -> 0 .. ImageChunks]
      BY <1>2, <2>2 DEF HealthInv, PassedDeclared, Within, CreditTypes
    <3>3. \/ /\ f \notin Range(settledOrder')
             /\ Alive(frames'[f], link', f, Captured[n], slots, passed, metaPassed)
          \/ Over(frames'[f], link', f) /\ SentWhole(passed, slots, metaPassed)
      BY <3>1, <3>2, HeadKept
    <3>4. SentWhole(passed, slots, metaPassed) => Intact'
      BY <1>1 DEF SentWhole, Intact, Populated, Declared
    <3>5. sending' /\ n = Current'
      BY <1>1, <2>2 DEF Current
    <3>6. QED
      BY <1>1, <1>6, <3>3, <3>4, <3>5 DEF Health
  <2>3. CASE ~(sending /\ n = Current)
    <3>1. f \notin Range(settledOrder)
      BY <1>6, <2>1, <2>3 DEF Health
    <3>2. PICK m \in Metas : /\ Declared(m) # {}
                             /\ Alive(frames[f], link, f, Captured[n], m, Whole(m), TRUE)
      BY <1>6, <2>1, <2>3 DEF Health
    <3>3. \/ /\ f \notin Range(settledOrder')
             /\ Alive(frames'[f], link', f, Captured[n], m, Whole(m), TRUE)
          \/ Over(frames'[f], link', f)
      BY <3>1, <3>2, WholeFacts, HeadKept
    <3>4. ~(sending' /\ n = Current')
      BY <1>1, <2>3 DEF Current
    <3>5. QED
      BY <1>6, <3>2, <3>3, <3>4 DEF Health
  <2>4. QED
    BY <2>2, <2>3
<1>7. SpoiledOnly' /\ PassedDeclared'
  BY <1>1, <1>3, <1>4 DEF SpoiledOnly, PassedDeclared, HealthInv
<1>8. QED
  BY <1>1, <1>5, <1>6, <1>7 DEF HealthInv

(* Retiring what has been overdue. *)
LEMMA ExpiresHealthy ==
  ASSUME CreditInv, HealthInv, HostExpires
  PROVE  HealthInv'
<1>1. /\ Expire /\ spoiled' = spoiled /\ link' = link
      /\ UNCHANGED <<opened, sending, slots, passed, metaPassed>>
  BY DEF HostExpires, agentVars
<1>2. PICK history \in HistoriesAfter(Overdue) :
        /\ frames' = [g \in FrameIds |-> IF g \in Overdue THEN NoFrame ELSE frames[g]]
        /\ settledOrder' = history /\ result' = Discarding(Overdue)
  BY <1>1 DEF Expire
<1>3. /\ CreditTypes /\ HistoryType /\ Overdue \in SUBSET FrameIds
      /\ Overdue \subseteq Working /\ Overdue \cap Range(settledOrder) = {}
  BY WorkFacts DEF CreditInv, IInv
<1>4. ASSUME NEW g \in Overdue
      PROVE  \E n \in spoiled \cap (0 .. (opened - 1)) : g = Id(n)
  <2> DEFINE n == Number(g)
  <2>1. g \in FrameIds /\ g \in Seen /\ frames[g].overdue
    BY <1>3 DEF Seen, Overdue
  <2>2. n \in 0 .. (opened - 1) /\ Id(n) = g
    BY <1>3, <2>1, OpenedFacts DEF CreditInv, InOrder
  <2>3. ~Over(frames[g], link, g)
    BY <2>1 DEF Over, NoFrame
  <2>4. \A pics, m, upto, sent : ~Alive(frames[g], link, g, pics, m, upto, sent)
    BY <2>1 DEF Alive, Flows
  <2>5. ~Health(n)
    BY <2>2, <2>3, <2>4 DEF Health
  <2>6. QED
    BY <2>2, <2>5 DEF HealthInv
<1>5. Settles(Overdue) = Overdue /\ Range(settledOrder') \subseteq Range(settledOrder) \cup Overdue
  BY <1>2, <1>3, RetiredRemembered DEF Remembers
<1>6. Retiring(Overdue)
  BY <1>2, <1>3, <1>4, <1>5 DEF Retiring
<1>7. \A n \in 0 .. (opened - 1) : n \in spoiled \/ Health(n)'
  BY <1>1, <1>6, RetiringKeeps DEF Elsewhere
<1>8. result'.discarded = Overdue
  BY <1>2, <1>5 DEF Discarding
<1>9. SpoiledOnly' /\ PassedDeclared'
  BY <1>1, <1>4, <1>8 DEF SpoiledOnly, PassedDeclared, HealthInv
<1>10. QED
  BY <1>1, <1>7, <1>9 DEF HealthInv

(* A second without progress: whoever is on the timer is spoiled. *)
LEMMA TicksHealthy ==
  ASSUME CreditInv, HealthInv, ClockTicks
  PROVE  HealthInv'
<1>1. /\ frames' = [g \in FrameIds |-> [frames[g] EXCEPT !.overdue = frames[g].started]]
      /\ result' = NoResult /\ settledOrder' = settledOrder /\ link' = link
      /\ spoiled' = spoiled \cup {n \in outstanding : frames[Id(n)].started}
      /\ UNCHANGED <<opened, sending, slots, passed, metaPassed>>
  BY DEF ClockTicks, SecondPasses, agentVars
<1>2. CreditTypes
  BY DEF CreditInv
<1>3. ASSUME NEW n \in 0 .. (opened - 1), n \notin spoiled'
      PROVE  Health(n)'
  <2> DEFINE f == Id(n)
  <2>1. f \in FrameIds /\ Number(f) = n /\ Health(n) /\ n \notin spoiled
    BY <1>1, <1>2, <1>3, OpenedFacts DEF HealthInv
  <2>2. frames[f] \in Frame
    BY <2>1 DEF CreditInv, IInv
  <2>3. ~frames[f].started
    <3>1. f \in Working => n \in outstanding
      BY <2>1 DEF CreditInv, WorkOwed, Owed
    <3>2. QED
      BY <1>1, <1>3, <2>1, <3>1 DEF Working
  <2>4. ~frames[f].overdue
    <3>1. Over(frames[f], link, f) => ~frames[f].overdue
      BY DEF Over, NoFrame
    <3>2. \A pics, m, upto, sent : Alive(frames[f], link, f, pics, m, upto, sent)
                                     => ~frames[f].overdue
      BY DEF Alive, Flows
    <3>3. QED
      BY <2>1, <3>1, <3>2 DEF Health
  <2>5. frames[f].overdue = frames[f].started
    BY <2>2, <2>3, <2>4 DEF Frame
  <2>6. [frames[f] EXCEPT !.overdue = frames[f].started] = frames[f]
    BY <2>2, <2>5 DEF Frame
  <2>7. frames'[f] = frames[f]
    BY <1>1, <2>1, <2>6
  <2>8. QED
    BY <1>1, <2>1, <2>7, HealthSame DEF Elsewhere
<1>4. SpoiledOnly' /\ PassedDeclared'
  BY <1>1 DEF SpoiledOnly, PassedDeclared, HealthInv, NoResult
<1>5. QED
  BY <1>1, <1>3, <1>4 DEF HealthInv

(* Nothing of the frames happens. *)
LEMMA IdleHealthy ==
  ASSUME CreditInv, HealthInv, spoiled' = spoiled, link' = link, UNCHANGED vars,
         UNCHANGED <<opened, sending, slots, passed, metaPassed>>
  PROVE  HealthInv'
<1>1. UNCHANGED <<frames, settledOrder, result>>
  BY DEF vars
<1>2. ASSUME NEW n \in 0 .. (opened - 1), n \notin spoiled
      PROVE  Health(n)'
  BY <1>1, <1>2, HealthSame DEF Elsewhere, HealthInv
<1>3. SpoiledOnly' /\ PassedDeclared'
  BY <1>1 DEF SpoiledOnly, PassedDeclared, HealthInv
<1>4. QED
  BY <1>2, <1>3 DEF HealthInv

(* Of a frame not opened yet nothing has arrived. *)
LEMMA FreshRecord ==
  ASSUME IInv, WorkOwed, NEW f \in FrameIds, f \notin Seen
  PROVE  LET fr == frames[f]
         IN  /\ fr.invalid = {} /\ ~fr.overdue /\ fr.metadata = None /\ ~Completes(fr)
             /\ \A c \in Cameras : fr.pending[c] = <<>> /\ fr.ready[c] = <<>>
<1>1. /\ frames[f] \in Frame /\ FrameSound(frames[f]) /\ ~frames[f].started
      /\ Timed(frames[f])
  BY DEF IInv, FrameSound, WorkOwed, Seen, Working
<1>2. ~HasPartial(frames[f]) /\ frames[f].metadata = None
  BY <1>1 DEF FrameSound
<1>3. QED
  BY <1>1, <1>2 DEF HasPartial, Ready, Pending, Timed, Completes

(* A frame is opened: it has lost nothing yet. *)
LEMMA OpensHealthy ==
  ASSUME CreditInv, HealthInv, AgentOpens
  PROVE  HealthInv'
<1> DEFINE f == Id(opened)
           fr == frames[f]
<1>1. /\ opened < MaxFrames /\ ~sending /\ opened' = opened + 1 /\ sending'
      /\ passed' = [c \in Cameras |-> 0] /\ metaPassed' = FALSE /\ slots' \in Metas
      /\ UNCHANGED vars /\ link' = link /\ spoiled' = spoiled
  BY DEF AgentOpens
<1>2. /\ CreditTypes /\ opened \in Nat /\ f \in FrameIds /\ Number(f) = opened
      /\ UNCHANGED <<frames, settledOrder, result>>
  BY <1>1, NextIdFacts, OpenedFacts DEF CreditInv, vars
<1>3. f \notin Seen
  BY <1>2 DEF CreditInv, InOrder
<1>4. /\ fr.invalid = {} /\ ~fr.overdue /\ fr.metadata = None /\ ~Completes(fr)
      /\ \A c \in Cameras : fr.pending[c] = <<>> /\ fr.ready[c] = <<>>
  BY <1>2, <1>3, FreshRecord DEF CreditInv
<1>5. Of(link, f) = {}
  BY <1>2 DEF CreditInv, InOrder, Of
<1>6. \A pics, m : Alive(fr, link, f, pics, m, [c \in Cameras |-> 0], FALSE)
  <2> TAKE pics, m
  <2>1. Records(link, f) = {} /\ Damaged(link, f) = {} /\ \A c \in Cameras : Pieces(link, f, c) = {}
    BY <1>5 DEF Of, Records, Damaged, Pieces, IsPiece
  <2>2. MetaAlive(fr, link, f, m, FALSE)
    BY <1>4, <2>1 DEF MetaAlive
  <2>3. ASSUME NEW c \in Cameras
        PROVE  LaneAlive(fr, link, f, pics, c, 0)
    <3>1. Had(fr, c) = 0
      BY <1>4 DEF Had
    <3>2. QED
      BY <1>4, <2>1, <3>1 DEF LaneAlive
  <2>4. QED
    BY <1>4, <2>1, <2>2, <2>3 DEF Alive, Flows
<1>7. ASSUME NEW n, n = opened
      PROVE  Health(n)'
  <2>1. /\ sending' /\ Current' = n
    BY <1>1, <1>2, <1>7 DEF Current
  <2>2. f \notin Range(settledOrder)
    BY <1>3 DEF Seen
  <2>3. Alive(fr, link, f, Captured[n], slots', passed', metaPassed')
    BY <1>1, <1>6
  <2>4. Id(n) = f /\ link' = link /\ frames' = frames /\ settledOrder' = settledOrder
    BY <1>1, <1>2, <1>7
  <2> HIDE DEF f
  <2>5. QED
    BY <2>1, <2>2, <2>3, <2>4 DEF Health
<1>8. ASSUME NEW n \in 0 .. (opened - 1), n \notin spoiled
      PROVE  Health(n)'
  <2>1. ~(sending /\ n = Current) /\ ~(sending' /\ n = Current')
    BY <1>1, <1>2 DEF Current
  <2>2. QED
    BY <1>1, <1>2, <1>8, <2>1, HealthSame DEF Elsewhere, HealthInv
<1>9. SpoiledOnly' /\ PassedDeclared'
  <2>1. PassedDeclared'
    BY <1>1 DEF PassedDeclared
  <2>2. SpoiledOnly'
    BY <1>1, <1>2 DEF SpoiledOnly, HealthInv
  <2>3. QED
    BY <2>1, <2>2
<1>10. QED
  <2>1. \A n \in 0 .. (opened' - 1) : n \in 0 .. (opened - 1) \/ n = opened
    BY <1>1, <1>2
  <2>2. QED
    BY <1>1, <1>7, <1>8, <1>9, <2>1 DEF HealthInv

(* A step of the Agent on the frame it is sending leaves the other frames alone. *)
LEMMA SendingHealthy ==
  ASSUME CreditInv, HealthInv, sending, UNCHANGED <<vars, opened>>,
         spoiled \subseteq spoiled',
         link' = link \/ \E x : Appended(link, link', x) /\ x.frame = Id(Current),
         Current \in spoiled' \/ Health(Current)',
         PassedDeclared'
  PROVE  HealthInv'
<1>1. /\ CreditTypes /\ opened \in Nat /\ opened > 0 /\ Current \in 0 .. (opened - 1)
      /\ Current' = Current /\ opened' = opened
      /\ UNCHANGED <<frames, settledOrder, result>>
  BY OpenedFacts DEF CreditInv, CreditTypes, vars, Current
<1>2. ASSUME NEW n \in 0 .. (opened - 1), n \notin spoiled, n # Current
      PROVE  Health(n)'
  <2>1. Id(n) # Id(Current)
    BY <1>1, <1>2, IdInjective
  <2>2. QED
    BY <1>1, <1>2, <2>1, HealthSame DEF Elsewhere, HealthInv
<1>3. \A n \in 0 .. (opened' - 1) : n \in spoiled' \/ Health(n)'
  BY <1>1, <1>2
<1>4. SpoiledOnly'
  BY <1>1 DEF SpoiledOnly, HealthInv
<1>5. QED
  BY <1>3, <1>4 DEF HealthInv

LEMMA TransmitAppends ==
  ASSUME CreditTypes, NEW x, Transmit(x)
  PROVE  Appended(link, link', x)
BY DEF Transmit, Appended, CreditTypes

(* The next piece of a slot: sent, of another image, malformed or missing. *)
LEMMA PassesHealthy ==
  ASSUME CreditInv, HealthInv, ~StrayImages, NEW c \in Cameras,
         AgentSendsPiece(c) \/ AgentSendsMalformed(c) \/ AgentMissesPiece(c)
  PROVE  HealthInv'
<1>1. AgentPasses(c)
  BY DEF AgentSendsPiece, AgentSendsMalformed, AgentMissesPiece
<1>2. /\ sending /\ opened > 0 /\ UNCHANGED <<vars, opened, sending, slots>>
      /\ c \in Declared(slots) /\ passed[c] \in 0 .. (ImageChunks - 1)
      /\ Id(Current) \in FrameIds /\ metaPassed' = metaPassed
      /\ passed' = [passed EXCEPT ![c] = @ + 1]
      /\ CreditTypes
  BY <1>1, PassesFacts DEF AgentPasses, CreditInv
<1>3. /\ UNCHANGED <<frames, settledOrder, result>> /\ Current' = Current
      /\ passed \in [Cameras -> 0 .. ImageChunks]
  BY <1>2 DEF vars, Current, CreditTypes
<1>4. PassedDeclared'
  BY <1>2, <1>3 DEF PassedDeclared, HealthInv
<1>5. ~Intact
  BY <1>2, ChunksAssumption DEF Intact, Populated, Declared
<1>6. CASE AgentMissesPiece(c) \/ AgentSendsMalformed(c)
  <2>1. spoiled' = spoiled \cup {Current}
    BY <1>6 DEF AgentMissesPiece, AgentSendsMalformed
  <2>2. link' = link \/ \E x : Appended(link, link', x) /\ x.frame = Id(Current)
    <3>1. CASE AgentMissesPiece(c)
      BY <3>1 DEF AgentMissesPiece
    <3>2. CASE AgentSendsMalformed(c)
      <4>1. PICK camera \in {c, None} : Transmit(ChunkMessage(
               [camera |-> camera, frame |-> Id(Current), image |-> None, offset |-> 0]))
        BY <3>2 DEF AgentSendsMalformed
      <4>2. QED
        BY <1>2, <4>1, TransmitAppends DEF ChunkMessage
    <3>3. QED
      BY <1>6, <3>1, <3>2
  <2>3. QED
    BY <1>2, <1>4, <2>1, <2>2, SendingHealthy
<1>7. CASE AgentSendsPiece(c)
  <2>1. PICK i \in Images :
          /\ Transmit(ChunkMessage(
               [camera |-> c, frame |-> Id(Current), image |-> i, offset |-> passed[c]]))
          /\ spoiled' = IF i = Captured[Current][c] THEN spoiled ELSE spoiled \cup {Current}
    BY <1>7 DEF AgentSendsPiece
  <2> DEFINE f == Id(Current)
             x == ChunkMessage([camera |-> c, frame |-> f, image |-> i, offset |-> passed[c]])
  <2>2. /\ Appended(link, link', x) /\ x.frame = f /\ IsPiece(x, f, c)
        /\ x.chunk.offset = passed[c] /\ x.chunk.image = i
    <3>1. i # None
      BY CamerasAssumption
    <3>2. x.chunk # None
      <4>1. x.chunk \in Chunk
        BY <1>2, ChunksAssumption DEF ChunkMessage, Chunk
      <4>2. QED
        BY <4>1, NoneAssumption
    <3>3. QED
      BY <1>2, <2>1, <3>1, <3>2, TransmitAppends DEF ChunkMessage, IsPiece
  <2> HIDE DEF x
  <2>3. ASSUME NEW n, n = Current, n \notin spoiled'
        PROVE  Health(n)'
    <3>1. n \in 0 .. (opened - 1) /\ n \notin spoiled /\ i = Captured[n][c]
      BY <1>2, <2>1, <2>3, OpenedFacts DEF Current
    <3>2. /\ f \notin Range(settledOrder)
          /\ Alive(frames[f], link, f, Captured[n], slots, passed, metaPassed)
      BY <1>2, <1>5, <2>3, <3>1 DEF HealthInv, Health
    <3>3. FrameSound(frames[f]) /\ link \in Seq(Message)
      BY <1>2 DEF CreditInv, IInv, CreditTypes
    <3>4. Alive(frames[f], link', f, Captured[n], slots, [passed EXCEPT ![c] = @ + 1], metaPassed)
      BY <1>3, <2>2, <3>1, <3>2, <3>3, PieceSentAlive
    <3>5. /\ Alive(frames'[f], link', f, Captured[n], slots', passed', metaPassed')
          /\ f \notin Range(settledOrder') /\ sending' /\ n = Current' /\ Id(n) = f
      BY <1>2, <1>3, <2>3, <3>2, <3>4
    <3> HIDE DEF f
    <3>6. QED
      BY <3>5 DEF Health
  <2>4. Current \in spoiled' \/ Health(Current)'
    <3>1. PICK n : n = Current
      OBVIOUS
    <3>2. n = Current'
      BY <1>3, <3>1
    <3>3. n \in spoiled' \/ Health(n)'
      BY <2>3, <3>1
    <3>4. QED
      BY <3>1, <3>2, <3>3 DEF Health
  <2>5. spoiled \subseteq spoiled'
    BY <2>1
  <2>6. QED
    BY <1>2, <1>4, <2>2, <2>4, <2>5, SendingHealthy
<1>8. QED
  BY <1>6, <1>7

(* The metadata is sent. *)
LEMMA AnnouncesHealthy ==
  ASSUME CreditInv, HealthInv, AgentSendsMetadata
  PROVE  HealthInv'
<1> DEFINE f == Id(Current)
           x == MetaMessage(f, slots)
<1>1. /\ sending /\ ~metaPassed /\ metaPassed' = TRUE /\ Transmit(x)
      /\ UNCHANGED <<vars, opened, sending, passed, slots>> /\ spoiled' = spoiled
  BY DEF AgentSendsMetadata
<1>2. CreditTypes /\ opened > 0 /\ Current' = Current /\ UNCHANGED <<frames, settledOrder, result>>
  BY <1>1 DEF CreditInv, CreditTypes, Current, vars
<1>3. Appended(link, link', x) /\ x.frame = f /\ x.chunk = None /\ x.meta = slots
  BY <1>1, <1>2, TransmitAppends DEF MetaMessage
<1> HIDE DEF x
<1>4. PICK n : n = Current
  OBVIOUS
<1>5. ASSUME n \notin spoiled
      PROVE  Health(n)'
  <2>1. n \in 0 .. (opened - 1)
    BY <1>2, <1>4, OpenedFacts DEF Current
  <2>2. /\ f \notin Range(settledOrder)
        /\ Alive(frames[f], link, f, Captured[n], slots, passed, metaPassed)
    BY <1>1, <1>4, <1>5, <2>1 DEF HealthInv, Health, Intact
  <2>3. Alive(frames[f], link', f, Captured[n], slots, passed, TRUE)
    <3>1. Alive(frames[f], link, f, Captured[n], slots, passed, FALSE)
      BY <1>1, <2>2 DEF Alive, Flows, MetaAlive
    <3>2. QED
      BY <1>3, <3>1, RecordSentAlive
  <2>4. /\ Alive(frames'[f], link', f, Captured[n], slots', passed', metaPassed')
        /\ f \notin Range(settledOrder') /\ sending' /\ n = Current' /\ Id(n) = f
    BY <1>1, <1>2, <1>4, <2>2, <2>3
  <2> HIDE DEF f
  <2>5. QED
    BY <2>4 DEF Health
<1>6. Current \in spoiled' \/ Health(Current)'
  <2>1. n \in spoiled' \/ Health(n)'
    BY <1>1, <1>5
  <2>2. n = Current'
    BY <1>2, <1>4
  <2>3. QED
    BY <1>4, <2>1, <2>2 DEF Health
<1>7. PassedDeclared'
  BY <1>1 DEF PassedDeclared, HealthInv
<1>8. QED
  BY <1>1, <1>2, <1>3, <1>6, <1>7, SendingHealthy

(* The frame is over: it has been sent whole, or it is spoiled. *)
LEMMA ClosesHealthy ==
  ASSUME CreditInv, HealthInv, AgentCloses
  PROVE  HealthInv'
<1> DEFINE f == Id(Current)
<1>1. /\ sending /\ sending' = FALSE /\ link' = link
      /\ spoiled' = IF Intact THEN spoiled ELSE spoiled \cup {Current}
      /\ UNCHANGED <<vars, opened, passed, slots, metaPassed>>
  BY DEF AgentCloses
<1>2. CreditTypes /\ opened > 0 /\ Current' = Current /\ UNCHANGED <<frames, settledOrder, result>>
  BY <1>1 DEF CreditInv, CreditTypes, Current, vars
<1>3. PICK n : n = Current
  OBVIOUS
<1>4. ASSUME n \notin spoiled'
      PROVE  Health(n)'
  <2>1. n \in 0 .. (opened - 1) /\ n \notin spoiled /\ Intact
    BY <1>1, <1>2, <1>3, <1>4, OpenedFacts DEF Current
  <2>2. \/ Over(frames[f], link, f)
        \/ /\ f \notin Range(settledOrder)
           /\ Alive(frames[f], link, f, Captured[n], slots, passed, metaPassed)
    BY <1>1, <1>3, <2>1 DEF HealthInv, Health
  <2>3. metaPassed /\ Declared(slots) # {} /\ slots \in Metas /\ passed = Whole(slots)
    <3>1. /\ passed \in [Cameras -> 0 .. ImageChunks] /\ slots \in Metas
          /\ Populated = Declared(slots)
      BY <1>2 DEF CreditTypes, Populated, Declared
    <3>2. \A c \in Cameras : passed[c] = Whole(slots)[c]
      BY <2>1, <3>1 DEF Intact, Whole
    <3>3. passed = Whole(slots)
      BY <3>1, <3>2 DEF Whole
    <3>4. QED
      BY <2>1, <3>1, <3>3 DEF Intact
  <2>4. \A pics : Alive(frames[f], link, f, pics, slots, passed, metaPassed)
                    => Alive(frames[f], link, f, pics, slots, passed, TRUE)
    BY <2>3 DEF Alive, Flows, MetaAlive
  <2>5. \/ Over(frames'[f], link', f)
        \/ /\ f \notin Range(settledOrder')
           /\ Alive(frames'[f], link', f, Captured[n], slots, Whole(slots), TRUE)
    BY <1>1, <1>2, <2>2, <2>3, <2>4
  <2>6. ~sending' /\ Id(n) = f
    BY <1>1, <1>3
  <2> HIDE DEF f
  <2>7. QED
    BY <2>3, <2>5, <2>6 DEF Health
<1>5. Current \in spoiled' \/ Health(Current)'
  <2>1. n \in spoiled' \/ Health(n)'
    BY <1>4
  <2>2. n = Current'
    BY <1>2, <1>3
  <2>3. QED
    BY <1>3, <2>1, <2>2 DEF Health
<1>6. PassedDeclared'
  BY <1>1 DEF PassedDeclared
<1>7. spoiled \subseteq spoiled'
  BY <1>1
<1>8. QED
  BY <1>1, <1>5, <1>6, <1>7, SendingHealthy

LEMMA HealthStart == CreditInit => HealthInv
<1> SUFFICES ASSUME CreditInit PROVE HealthInv
  OBVIOUS
<1>1. opened = 0 /\ sending = FALSE /\ result = NoResult
  BY DEF CreditInit, Init
<1>2. 0 .. (opened - 1) = {}
  BY <1>1
<1>3. QED
  BY <1>1, <1>2 DEF HealthInv, SpoiledOnly, PassedDeclared, NoResult

LEMMA HealthStep ==
  ASSUME ~StrayImages, CapSuffices
  PROVE  CreditInv /\ HealthInv /\ [CreditNext]_creditVars => HealthInv'
<1> SUFFICES ASSUME CreditInv, HealthInv, [CreditNext]_creditVars PROVE HealthInv'
  OBVIOUS
<1>1. CASE AgentOpens
  BY <1>1, OpensHealthy
<1>2. CASE \E c \in Cameras : AgentSendsPiece(c) \/ AgentSendsMalformed(c) \/ AgentMissesPiece(c)
  BY <1>2, PassesHealthy
<1>3. CASE AgentSendsMetadata
  BY <1>3, AnnouncesHealthy
<1>4. CASE AgentCloses
  BY <1>4, ClosesHealthy
<1>5. CASE AgentReceivesAck
  BY <1>5, IdleHealthy DEF AgentReceivesAck
<1>6. CASE HostExpires
  BY <1>6, ExpiresHealthy
<1>7. CASE HostReads
  BY <1>7, ReadsHealthy
<1>8. CASE HostTimesOut
  BY <1>8, IdleHealthy DEF HostTimesOut, agentVars
<1>9. CASE ClockTicks
  BY <1>9, TicksHealthy
<1>10. CASE UNCHANGED creditVars
  BY <1>10, IdleHealthy DEF creditVars, agentVars
<1>11. QED
  BY <1>1, <1>2, <1>3, <1>4, <1>5, <1>6, <1>7, <1>8, <1>9, <1>10 DEF CreditNext

(* Whoever is reported as discarded has lost something. *)
LEMMA DiscardedSpoiled ==
  ASSUME CreditInv, CreditInv', HealthInv', opened' = opened \/ opened' = opened + 1
  PROVE  \A n \in outstanding : Id(n) \in result'.discarded => n \in spoiled'
<1> SUFFICES ASSUME NEW n \in outstanding, Id(n) \in result'.discarded PROVE n \in spoiled'
  OBVIOUS
<1>1. /\ opened \in Nat /\ n \in 0 .. (opened - 1) /\ opened' \in Nat /\ opened' <= MaxFrames
      /\ MaxFrames \in Nat /\ 2 * MaxFrames <= IdModulus /\ IdModulus \in Nat
  BY CreditAssumption, IdAssumption DEF CreditInv, CreditTypes
<1>2. PICK k \in spoiled' \cap (0 .. (opened' - 1)) : Id(n) = Id(k)
  BY DEF HealthInv, SpoiledOnly, Id
<1>3. n \in 0 .. (IdModulus - 1) /\ k \in 0 .. (IdModulus - 1)
  BY <1>1, <1>2
<1>4. QED
  BY <1>2, <1>3, NumberFacts

(* A frame sent whole without a second of silence is never retired, whatever is lost, *)
(* mixed up, malformed or late in the frames around it, for every number of slots,    *)
(* images, pieces and metadata records, as long as the cap on metadata records is no  *)
(* less than the window (16 and 4 in the code).                                        *)
THEOREM HealthyComplete ==
  ASSUME ~StrayImages, Window <= MetaCap
  PROVE  CreditSpec => HealthyFramesComplete
<1>1. CapSuffices
  BY DEF CapSuffices
<1>2. CreditSpec => []CreditInv
  BY CreditInvariant
<1>3. CreditInit => HealthInv
  BY HealthStart
<1>4. CreditInv /\ HealthInv /\ [CreditNext]_creditVars => HealthInv'
  BY <1>1, HealthStep
<1>5. CreditInv /\ CreditInv' /\ HealthInv' /\ [CreditNext]_creditVars =>
        [\A n \in outstanding : Id(n) \in result'.discarded => n \in spoiled']_creditVars
  <2> SUFFICES ASSUME CreditInv, CreditInv', HealthInv', CreditNext
               PROVE  \A n \in outstanding : Id(n) \in result'.discarded => n \in spoiled'
    OBVIOUS
  <2>1. opened' = opened \/ opened' = opened + 1
    BY DEF CreditNext, AgentOpens, AgentSendsPiece, AgentSendsMalformed, AgentMissesPiece, AgentPasses,
       AgentSendsMetadata, AgentCloses, AgentReceivesAck, HostExpires, HostReads, HostTimesOut,
       ClockTicks, agentVars
  <2>2. QED
    BY <2>1, DiscardedSpoiled
<1>6. QED
  BY <1>2, <1>3, <1>4, <1>5, PTL DEF CreditSpec, HealthyFramesComplete
=============================================================================
