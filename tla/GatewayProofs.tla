--------------------------- MODULE GatewayProofs ----------------------------
(***************************************************************************)
(* Store and forward, alone and in the gateway, for every number of        *)
(* messages and power cuts, every size of the queue and every geometry of  *)
(* the chip.  First what holds of the loop of CacheTask over the ring,     *)
(* whatever fails and whatever client it has; then the composed gateway,   *)
(* whose loop takes the steps of CacheTask, so that all of it holds with a *)
(* client under the loop, and no message gets lost unnoticed on its way    *)
(* through the client's outbox.                                            *)
(***************************************************************************)
EXTENDS Gateway, FlashStorageProofs

(***************************************************************************)
(* Elements and order of sequences.                                        *)
(***************************************************************************)
LEMMA SeqWiden ==
  ASSUME NEW S, NEW T, S \subseteq T, NEW s \in Seq(S)
  PROVE  s \in Seq(T)
  OBVIOUS

(* The elements of a sequence over S are members of S.                     *)
LEMMA ElementsType ==
  ASSUME NEW S, NEW s \in Seq(S)
  PROVE  Elements(s) \subseteq S
  BY DEF Elements

(* Appending adds one element: a queue send, an append to the store.       *)
LEMMA ElementsAppend ==
  ASSUME NEW S, NEW s \in Seq(S), NEW e \in S
  PROVE  /\ Append(s, e) \in Seq(S)
         /\ Elements(Append(s, e)) = Elements(s) \cup {e}
<1>1. Append(s, e) \in Seq(S) /\ Len(Append(s, e)) = Len(s) + 1
  OBVIOUS
<1>2. \A i \in 1 .. Len(s) : Append(s, e)[i] = s[i]
  OBVIOUS
<1>3. Append(s, e)[Len(s) + 1] = e
  OBVIOUS
<1>4. 1 .. Len(s) + 1 = (1 .. Len(s)) \cup {Len(s) + 1}
  OBVIOUS
<1> QED
  BY <1>1, <1>2, <1>3, <1>4 DEF Elements

(* The elements are the head and those of the tail: a queue receive.       *)
LEMMA ElementsTail ==
  ASSUME NEW S, NEW s \in Seq(S), s # <<>>
  PROVE  /\ Head(s) \in S
         /\ Tail(s) \in Seq(S)
         /\ Elements(s) = Elements(Tail(s)) \cup {Head(s)}
<1>1. Tail(s) \in Seq(S) /\ Len(Tail(s)) = Len(s) - 1 /\ Len(s) > 0
  OBVIOUS
<1>2. \A i \in 1 .. Len(s) - 1 : Tail(s)[i] = s[i + 1]
  OBVIOUS
<1>3. Head(s) = s[1] /\ s[1] \in S
  OBVIOUS
<1>4. ASSUME NEW i \in 1 .. Len(s)
      PROVE  i = 1 \/ i - 1 \in 1 .. Len(s) - 1
  OBVIOUS
<1> QED
  BY <1>1, <1>2, <1>3, <1>4 DEF Elements

(* What is left after the first n is a suffix: a drop of the oldest.       *)
LEMMA ElementsSuffix ==
  ASSUME NEW S, NEW s \in Seq(S), NEW n \in 0 .. Len(s)
  PROVE  /\ SubSeq(s, n + 1, Len(s)) \in Seq(S)
         /\ Elements(s) = {s[i] : i \in 1 .. n}
                            \cup Elements(SubSeq(s, n + 1, Len(s)))
<1> DEFINE t == SubSeq(s, n + 1, Len(s))
<1>1. t \in Seq(S) /\ Len(t) = Len(s) - n
  OBVIOUS
<1>2. \A i \in 1 .. Len(s) - n : t[i] = s[n + i]
  OBVIOUS
<1> HIDE DEF t
<1>3. \A i \in 1 .. Len(s) : i \in 1 .. n \/ i - n \in 1 .. Len(s) - n
  OBVIOUS
<1>4. \A i \in 1 .. Len(s) - n : n + i \in 1 .. Len(s) /\ (n + i) - n = i
  OBVIOUS
<1>5. \A i \in 1 .. n : i \in 1 .. Len(s)
  OBVIOUS
<1>6. Elements(s) \subseteq {s[i] : i \in 1 .. n} \cup Elements(t)
  <2>1. SUFFICES ASSUME NEW i \in 1 .. Len(s), i \notin 1 .. n
                 PROVE  s[i] \in Elements(t)
    BY DEF Elements
  <2>2. i - n \in 1 .. Len(s) - n /\ n + (i - n) = i
    BY <2>1, <1>3
  <2> QED
    BY <2>2, <1>1, <1>2 DEF Elements
<1>7. Elements(t) \subseteq Elements(s)
  BY <1>1, <1>2, <1>4 DEF Elements
<1> QED
  BY <1>1, <1>5, <1>6, <1>7 DEF Elements, t

Before(s, t) == \A a \in Elements(s), b \in Elements(t) : a < b

(* Length, items and elements of one place followed by another.            *)
LEMMA Concatenation ==
  ASSUME NEW S, NEW s \in Seq(S), NEW t \in Seq(S)
  PROVE  /\ s \o t \in Seq(S)
         /\ Elements(s \o t) = Elements(s) \cup Elements(t)
<1>1. s \o t \in Seq(S) /\ Len(s \o t) = Len(s) + Len(t)
  OBVIOUS
<1>2. \A i \in 1 .. Len(s) : i \in 1 .. Len(s \o t) /\ (s \o t)[i] = s[i]
  OBVIOUS
<1>3. \A i \in 1 .. Len(t) :
        Len(s) + i \in 1 .. Len(s \o t) /\ (s \o t)[Len(s) + i] = t[i]
  OBVIOUS
<1>4. \A i \in 1 .. Len(s \o t) :
        \/ i \in 1 .. Len(s)
        \/ i - Len(s) \in 1 .. Len(t) /\ Len(s) + (i - Len(s)) = i
  BY <1>1
<1>5. Elements(s \o t) \subseteq Elements(s) \cup Elements(t)
  <2>1. SUFFICES ASSUME NEW i \in 1 .. Len(s \o t)
                 PROVE  (s \o t)[i] \in Elements(s) \cup Elements(t)
    BY DEF Elements
  <2>2. CASE i \in 1 .. Len(s)
    BY <2>2, <1>2 DEF Elements
  <2>3. CASE i - Len(s) \in 1 .. Len(t) /\ Len(s) + (i - Len(s)) = i
    BY <2>3, <1>3 DEF Elements
  <2> QED
    BY <2>2, <2>3, <1>4
<1>6. Elements(s) \cup Elements(t) \subseteq Elements(s \o t)
  BY <1>2, <1>3 DEF Elements
<1> QED
  BY <1>1, <1>5, <1>6

(* Two ascending places, all of one below the other, ascend as one.        *)
LEMMA ConcatenationOrder ==
  ASSUME NEW s \in Seq(Nat), NEW t \in Seq(Nat)
  PROVE  Ascending(s \o t) <=> Ascending(s) /\ Ascending(t) /\ Before(s, t)
<1>1. s \o t \in Seq(Nat) /\ Len(s \o t) = Len(s) + Len(t)
  OBVIOUS
<1>2. \A i \in 1 .. Len(s) : i \in 1 .. Len(s \o t) /\ (s \o t)[i] = s[i]
  OBVIOUS
<1>3. \A i \in 1 .. Len(t) :
        Len(s) + i \in 1 .. Len(s \o t) /\ (s \o t)[Len(s) + i] = t[i]
  OBVIOUS
<1>4. \A i \in 1 .. Len(s \o t) :
        \/ i \in 1 .. Len(s)
        \/ i - Len(s) \in 1 .. Len(t) /\ (s \o t)[i] = t[i - Len(s)]
  BY <1>1, <1>3
<1>5. ASSUME Ascending(s \o t)
      PROVE  Ascending(s) /\ Ascending(t) /\ Before(s, t)
  <2>1. Ascending(s)
    BY <1>5, <1>2 DEF Ascending
  <2>2. Ascending(t)
    <3>1. SUFFICES ASSUME NEW i \in 1 .. Len(t), NEW j \in 1 .. Len(t), i < j
                   PROVE  t[i] < t[j]
      BY DEF Ascending
    <3>2. Len(s) + i < Len(s) + j
      BY <3>1
    <3> QED
      BY <3>2, <1>5, <1>3 DEF Ascending
  <2>3. Before(s, t)
    <3>1. SUFFICES ASSUME NEW i \in 1 .. Len(s), NEW j \in 1 .. Len(t)
                   PROVE  s[i] < t[j]
      BY DEF Before, Elements
    <3>2. i < Len(s) + j
      OBVIOUS
    <3> QED
      BY <3>2, <1>5, <1>2, <1>3 DEF Ascending
  <2> QED
    BY <2>1, <2>2, <2>3
<1>6. ASSUME Ascending(s), Ascending(t), Before(s, t)
      PROVE  Ascending(s \o t)
  <2>1. SUFFICES ASSUME NEW i \in 1 .. Len(s \o t), NEW j \in 1 .. Len(s \o t),
                        i < j
                 PROVE  (s \o t)[i] < (s \o t)[j]
    BY DEF Ascending
  <2>2. CASE j \in 1 .. Len(s)
    <3>1. i \in 1 .. Len(s)
      BY <2>1, <2>2
    <3> QED
      BY <2>1, <2>2, <3>1, <1>2, <1>6 DEF Ascending
  <2>3. CASE i \in 1 .. Len(s) /\ j \notin 1 .. Len(s)
    <3>1. j - Len(s) \in 1 .. Len(t) /\ (s \o t)[j] = t[j - Len(s)]
      BY <2>3, <1>4
    <3> QED
      BY <2>3, <3>1, <1>2, <1>6 DEF Before, Elements
  <2>4. CASE i \notin 1 .. Len(s)
    <3>1. j \notin 1 .. Len(s)
      BY <2>1, <2>4
    <3>2. /\ i - Len(s) \in 1 .. Len(t) /\ (s \o t)[i] = t[i - Len(s)]
          /\ j - Len(s) \in 1 .. Len(t) /\ (s \o t)[j] = t[j - Len(s)]
      BY <2>4, <3>1, <1>4
    <3>3. i - Len(s) < j - Len(s)
      BY <2>1
    <3> QED
      BY <3>2, <3>3, <1>6 DEF Ascending
  <2> QED
    BY <2>2, <2>3, <2>4
<1> QED
  BY <1>5, <1>6

(***************************************************************************)
(* What a step does to sequences that ascend.                              *)
(***************************************************************************)
LEMMA AscendingAppend ==
  ASSUME NEW s \in Seq(Nat), NEW e \in Nat, Ascending(s),
         \A a \in Elements(s) : a < e
  PROVE  Ascending(Append(s, e))
<1>1. Len(Append(s, e)) = Len(s) + 1
  OBVIOUS
<1>2. \A i \in 1 .. Len(s) : Append(s, e)[i] = s[i] /\ s[i] \in Elements(s)
  BY DEF Elements
<1>3. Append(s, e)[Len(s) + 1] = e
  OBVIOUS
<1>4. SUFFICES ASSUME NEW i \in 1 .. Len(s) + 1, NEW j \in 1 .. Len(s) + 1, i < j
               PROVE  Append(s, e)[i] < Append(s, e)[j]
  BY <1>1 DEF Ascending
<1>5. i \in 1 .. Len(s)
  BY <1>4
<1>6. CASE j = Len(s) + 1
  BY <1>2, <1>3, <1>5, <1>6
<1>7. CASE j \in 1 .. Len(s)
  BY <1>2, <1>4, <1>5, <1>7 DEF Ascending
<1> QED
  BY <1>6, <1>7

(* A suffix of an ascending sequence ascends.                              *)
LEMMA AscendingSuffix ==
  ASSUME NEW s \in Seq(Nat), NEW n \in 0 .. Len(s), Ascending(s)
  PROVE  /\ Ascending(SubSeq(s, n + 1, Len(s)))
         /\ \A i \in 1 .. n, b \in Elements(SubSeq(s, n + 1, Len(s))) : s[i] < b
<1> DEFINE t == SubSeq(s, n + 1, Len(s))
<1>1. t \in Seq(Nat) /\ Len(t) = Len(s) - n
  OBVIOUS
<1>2. \A i \in 1 .. Len(s) - n : t[i] = s[n + i] /\ n + i \in 1 .. Len(s)
  OBVIOUS
<1> HIDE DEF t
<1>3. ASSUME NEW i \in 1 .. Len(t), NEW j \in 1 .. Len(t), i < j
      PROVE  t[i] < t[j]
  <2>1. n + i < n + j
    BY <1>3
  <2> QED
    BY <2>1, <1>1, <1>2 DEF Ascending
<1>4. ASSUME NEW i \in 1 .. n, NEW j \in 1 .. Len(t)
      PROVE  s[i] < t[j]
  <2>1. i < n + j /\ i \in 1 .. Len(s)
    OBVIOUS
  <2> QED
    BY <2>1, <1>1, <1>2 DEF Ascending
<1> QED
  BY <1>3, <1>4 DEF Ascending, Elements, t

(* The tail of an ascending sequence ascends, above its head.              *)
LEMMA AscendingTail ==
  ASSUME NEW s \in Seq(Nat), s # <<>>, Ascending(s)
  PROVE  /\ Ascending(Tail(s))
         /\ \A b \in Elements(Tail(s)) : Head(s) < b
<1> DEFINE n == 1
<1>1. /\ Tail(s) = SubSeq(s, n + 1, Len(s)) /\ Head(s) = s[n]
      /\ n \in 0 .. Len(s) /\ n \in 1 .. n
  OBVIOUS
<1> HIDE DEF n
<1>2. /\ Ascending(SubSeq(s, n + 1, Len(s)))
      /\ \A i \in 1 .. n, b \in Elements(SubSeq(s, n + 1, Len(s))) : s[i] < b
  BY <1>1, AscendingSuffix
<1> QED
  BY <1>1, <1>2

(***************************************************************************)
(* The messages on the chip.                                               *)
(***************************************************************************)
(* Each message lies in one slot.                                          *)
EachOnce ==
  \A a, b \in Slots : flash[a] \in Payload /\ flash[a] = flash[b] => a = b

LEMMA ChipFact ==
  ASSUME NEW m
  PROVE  m \in Chip <=> m \in Payload /\ \E a \in Slots : flash[a] = m
  BY DEF Chip

LEMMA ChipSame ==
  ASSUME flash' = flash
  PROVE  Chip' = Chip
  BY DEF Chip

(* A step of the store brings at most the entry being written to the chip, *)
(* and that into one slot.                                                 *)
LEMMA ChipStep ==
  ASSUME FlashMoves
  PROVE  Chip' \subseteq Chip \cup (IF pc = "program" THEN {entry} ELSE {})
<1> SUFFICES ASSUME NEW m \in Chip'
             PROVE  m \in Chip \/ (pc = "program" /\ m = entry)
  OBVIOUS
<1>1. PICK a \in Slots : flash'[a] = m /\ m \in Payload
  BY DEF Chip
<1> QED
  BY <1>1, ChipFact DEF FlashMoves

LEMMA OnceStep ==
  ASSUME EachOnce, FlashMoves, pc = "program" => entry \notin Chip
  PROVE  EachOnce'
<1> SUFFICES ASSUME NEW a \in Slots, NEW b \in Slots,
                    flash'[a] \in Payload, flash'[a] = flash'[b]
             PROVE  a = b
  BY DEF EachOnce
<1>1. \A c \in {a, b} :
        \/ flash'[c] = flash[c]
        \/ pc = "program" /\ c = writeAddr /\ flash'[c] = entry
  BY DEF FlashMoves
<1>2. \A c \in Slots : flash[c] \in Payload => flash[c] \in Chip
  BY ChipFact
<1> QED
  BY <1>1, <1>2 DEF EachOnce

(* A sector's worth of slots in a row.                                     *)
LEMMA SectorInterval ==
  ASSUME NEW n \in Nat
  PROVE  /\ IsFiniteSet(n .. n + SectorSlots - 1)
         /\ Cardinality(n .. n + SectorSlots - 1) = SectorSlots
<1> DEFINE last == n + SectorSlots - 1
<1>1. last \in Int /\ last >= n /\ last - n + 1 = SectorSlots /\ n \in Int
  BY CapacityFact
<1> HIDE DEF last
<1>2. IsFiniteSet(n .. last) /\ Cardinality(n .. last) = SectorSlots
  BY <1>1, FS_Interval
<1> QED
  BY <1>2 DEF last

(* The sector under a pointer has no more slots than a sector has.         *)
LEMMA SectorCardinality ==
  ASSUME NEW a \in Slots, NEW S, S \subseteq {flash[b] : b \in SectorOf(a)}
  PROVE  IsFiniteSet(S) /\ Cardinality(S) <= SectorSlots
<1> DEFINE base == SectorBase(a)
           I == base .. base + SectorSlots - 1
           T == {flash[b] : b \in SectorOf(a)}
           U == {flash[b] : b \in I}
<1>1. base \in Nat /\ SectorSlots \in Nat
  BY SectorFact, CapacityFact DEF Slots
<1> HIDE DEF base
<1>2. IsFiniteSet(I) /\ Cardinality(I) = SectorSlots
  BY <1>1, SectorInterval
<1>3. SectorOf(a) \subseteq I
  <2>1. ASSUME NEW b \in Slots, SectorBase(b) = base PROVE b \in I
    <3>1. SectorBase(b) <= b /\ b < SectorBase(b) + SectorSlots
      BY SectorFact
    <3> QED
      BY <1>1, <2>1, <3>1 DEF Slots
  <2> QED
    BY <2>1 DEF SectorOf, base
<1>4. IsFiniteSet(U) /\ Cardinality(U) <= SectorSlots
  <2> DEFINE f == [b \in I |-> flash[b]]
  <2>1. f \in Surjection(I, U)
    BY DEF Surjection
  <2> HIDE DEF f, I, U
  <2>2. IsFiniteSet(U) /\ Cardinality(U) <= Cardinality(I)
    BY <1>2, <2>1, FS_Surjection
  <2> QED
    BY <1>2, <2>2
<1>5. S \subseteq U
  BY <1>3
<1> HIDE DEF U
<1>6. IsFiniteSet(S) /\ Cardinality(S) <= Cardinality(U)
  BY <1>4, <1>5, FS_Subset
<1> QED
  BY <1>4, <1>6, <1>1, FS_CardinalityType

(* What an erase takes from the chip lay in the sector it erased.          *)
LEMMA EraseTakes ==
  ASSUME StoreInv, EraseFull \/ EraseWrap
  PROVE  /\ Chip' \subseteq Chip
         /\ IsFiniteSet(Chip \ Chip')
         /\ Cardinality(Chip \ Chip') <= SectorSlots
<1>1. flash' = Erased /\ writeAddr \in Slots /\ pc = "erase"
  BY DEF EraseFull, DropSector, EraseWrap, StoreInv, TypeOK
<1>2. Chip' \subseteq Chip
  BY <1>1, MarksNoPayload DEF Chip, Erased
<1>3. Chip \ Chip' \subseteq {flash[b] : b \in SectorOf(writeAddr)}
  BY <1>1 DEF Chip, Erased
<1> QED
  BY <1>1, <1>2, <1>3, SectorCardinality

(* In an orderly ring the queue holds what is on the chip.                 *)
LEMMA QueueIsChip ==
  ASSUME OrderlyInv
  PROVE  Elements(Contents) = Chip
<1>1. ContentsShape
  BY ContentsFact
<1>2. readAddr \in Slots /\ count \in 0 .. Capacity
  BY DEF OrderlyInv, StoreInv, TypeOK, CountBounded
<1>3. ASSUME NEW m \in Elements(Contents) PROVE m \in Chip
  <2>1. PICK i \in 1 .. count : m = flash[Wrap(readAddr + i - 1)]
    BY <1>1 DEF Elements, ContentsShape
  <2>2. i - 1 \in 0 .. count - 1 /\ readAddr + i - 1 = readAddr + (i - 1)
    BY <1>2 DEF Slots
  <2>3. Wrap(readAddr + i - 1) \in Slots
    BY <2>2, WindowFact
  <2>4. m \in Payload
    <3>1. Contents[i] \in Payload /\ Contents[i] = m
      BY <1>1, <2>1, ElementOfSeq DEF ContentsShape
    <3> QED
      BY <3>1
  <2> QED
    BY <2>1, <2>3, <2>4 DEF Chip
<1>4. ASSUME NEW m \in Chip PROVE m \in Elements(Contents)
  <2>1. PICK a \in Slots : flash[a] = m /\ m \in Payload
    BY DEF Chip
  <2>2. Distance(a) < count
    BY <2>1, MarksFact DEF OrderlyInv, RingShape
  <2>3. Distance(a) \in Nat /\ a = Wrap(readAddr + Distance(a))
    BY WindowFact
  <2>4. /\ Distance(a) + 1 \in 1 .. count
        /\ readAddr + (Distance(a) + 1) - 1 = readAddr + Distance(a)
    BY <1>2, <2>2, <2>3 DEF Slots
  <2>5. Contents[Distance(a) + 1] = m
    BY <1>1, <2>1, <2>3, <2>4 DEF ContentsShape
  <2> QED
    BY <1>1, <2>4, <2>5 DEF Elements, ContentsShape
<1> QED
  BY <1>3, <1>4

(* An orderly erase of a full ring takes exactly a sector of messages, and *)
(* any other orderly erase none.                                           *)
LEMMA FullTakes ==
  ASSUME OrderlyInv, EachOnce, EraseFull
  PROVE  Cardinality(Chip \ Chip') = SectorSlots
<1> DEFINE I == writeAddr .. writeAddr + SectorSlots - 1
           T == {flash[b] : b \in I}
           f == [b \in I |-> flash[b]]
<1>1. /\ flash' = Erased /\ pc = "erase" /\ count = Capacity
      /\ readAddr \in Slots
  BY DEF EraseFull, DropSector, OrderlyInv, StoreInv, TypeOK
<1>2. /\ writeAddr \in Slots /\ writeAddr + SectorSlots <= Capacity
      /\ \A a \in Slots : Erased[a] = IF a \in I THEN Blank ELSE flash[a]
  BY <1>1, ErasedRing
<1>3. I \subseteq Slots
  BY <1>2, CapacityFact DEF Slots
<1>4. \A a \in Slots : flash[a] \in Payload
  <2>1. \A a \in Slots : Distance(a) < count
    BY <1>1, CapacityFact DEF Distance, Slots
  <2> QED
    BY <2>1 DEF OrderlyInv, RingShape
<1> HIDE DEF I
<1>5. Chip \ Chip' = T
  <2>1. ASSUME NEW m \in Chip \ Chip' PROVE m \in T
    BY <1>1, <1>2, <2>1 DEF Chip
  <2>2. ASSUME NEW b \in I PROVE flash[b] \in Chip \ Chip'
    <3>1. flash[b] \in Chip
      BY <1>3, <1>4 DEF Chip
    <3>2. ASSUME NEW a \in Slots, flash'[a] = flash[b] PROVE FALSE
      <4>1. CASE a \in I
        BY <1>1, <1>2, <1>3, <1>4, <3>2, <4>1, MarksNoPayload
      <4>2. CASE a \notin I
        <5>1. flash[a] = flash[b] /\ flash[a] \in Payload
          BY <1>1, <1>2, <1>4, <3>2, <4>2
        <5>2. a = b
          BY <5>1, <1>3 DEF EachOnce
        <5> QED
          BY <4>2, <5>2
      <4> QED
        BY <4>1, <4>2
    <3> QED
      BY <3>1, <3>2 DEF Chip
  <2> QED
    BY <2>1, <2>2
<1>6. f \in Bijection(I, T)
  BY <1>3, <1>4
  DEF Bijection, Injection, Surjection, IsInjective, EachOnce
<1>7. ExistsBijection(I, T)
  BY <1>6 DEF ExistsBijection
<1> HIDE DEF f, T
<1>8. IsFiniteSet(I) /\ Cardinality(I) = SectorSlots
  BY <1>2, SectorInterval DEF I, Slots
<1>9. Cardinality(T) = Cardinality(I)
  BY <1>7, <1>8, FS_Bijection
<1> QED
  BY <1>5, <1>8, <1>9

LEMMA WrapTakes ==
  ASSUME OrderlyInv, EraseWrap
  PROVE  Chip' = Chip
<1>1. /\ flash' = Erased /\ pc = "erase" /\ readAddr \in Slots
      /\ count \in 0 .. Capacity /\ count # Capacity
      /\ writeAddr = Wrap(readAddr + count)
  BY DEF EraseWrap, OrderlyInv, RingShape, StoreInv, TypeOK, CountBounded
<1>2. count <= Capacity - SectorSlots
  BY <1>1 DEF OrderlyInv, RingShape, EntersOrderly
<1>3. /\ writeAddr \in Slots /\ writeAddr + SectorSlots <= Capacity
      /\ \A a \in Slots :
           Erased[a] = IF a \in writeAddr .. writeAddr + SectorSlots - 1
                         THEN Blank ELSE flash[a]
  BY <1>1, ErasedRing
<1>4. ASSUME NEW a \in Slots, a \in writeAddr .. writeAddr + SectorSlots - 1
      PROVE  flash[a] \notin Payload
  <2>1. ~(Distance(a) < count)
    BY <1>1, <1>2, <1>3, <1>4, CapacityFact DEF Distance, Wrap, Slots
  <2>2. flash[a] \in {Blank, Sent}
    BY <2>1 DEF OrderlyInv, RingShape
  <2> QED
    BY <2>2, MarksNoPayload
<1> QED
  BY <1>1, <1>3, <1>4, MarksNoPayload DEF Chip

(* In an orderly history an entry that is programmed arrives.              *)
LEMMA ProgramArrives ==
  ASSUME OrderlyInv, ProgramEntry
  PROVE  Chip' = Chip \cup {entry}
<1>1. /\ ProgramTo(entry) /\ entry \in Payload /\ pc = "program"
      /\ flash \in [Slots -> Cell] /\ writeAddr \in Slots
  BY ProgramBlank DEF OrderlyInv, StoreInv, TypeOK
<1>2. flash' = [flash EXCEPT ![writeAddr] = entry]
  BY <1>1 DEF ProgramTo
<1>3. flash[writeAddr] = Blank
  <2>1. writeAddr \in SectorOf(writeAddr) /\ writeAddr >= writeAddr
    BY <1>1 DEF SectorOf, Slots
  <2> QED
    BY <1>1, <2>1 DEF OrderlyInv, RingShape
<1> QED
  BY <1>1, <1>2, <1>3, MarksNoPayload DEF Chip

(***************************************************************************)
(* The loop over the store: its steps are steps of FlashStorage.           *)
(***************************************************************************)
QueueOK ==
  /\ built \in 0 .. MaxMessages
  /\ sending \in 0 .. built
  /\ mqttQueue \in Seq(1 .. built) /\ Len(mqttQueue) <= QueueDepth
  /\ msg \in 0 .. built
PlaceOK ==
  /\ at \in {"receive", "route", "publish", "store", "storing", "edge",
             "report", "reporting", "backfill", "reading", "resend", "mark"}
  /\ pc \in InStore
  /\ msg # NoMessage <=> at \in {"route", "publish", "store", "storing"}
  /\ at = "storing" => entry = msg
FlagsOK ==
  /\ online \in BOOLEAN
  /\ onlineNow \in BOOLEAN
  /\ lastOnline \in BOOLEAN
  /\ gapOver \in BOOLEAN
ChipOK == Chip \subseteq 1 .. built
Typed == QueueOK /\ PlaceOK /\ FlagsOK /\ ChipOK
Sound == StoreInv /\ WhileOrderly /\ HandShape /\ TakenShape

LEMMA TypedIsType == Sound /\ Typed => TaskTypeOK
  BY DEF Sound, StoreInv, Typed, QueueOK, PlaceOK, FlagsOK, ChipOK, TaskTypeOK

(* The steps that touch neither a message nor the chip.                    *)
QuietTask ==
  \/ ReceiveTimesOut \/ Route \/ PublishFails \/ WriteMessage \/ SaveCount
  \/ Edge \/ TakeCount \/ Reported \/ ReportFails \/ NoBackfill \/ ReadStore
  \/ Fetch \/ FindNothing \/ ResendFails \/ SetOnline \/ GapPasses
  \/ UNCHANGED allVars

messageVars ==
  <<built, sending, mqttQueue, msg, accepted, refused, givenUp, counted,
    overwritten, spoilt, cutShort, unmarked, cuts>>

LEMMA QuietFrame ==
  ASSUME QuietTask
  PROVE  /\ UNCHANGED <<messageVars, flash>>
         /\ at' = "mark" \/ at = "mark" => at' = at /\ entry' = entry
<1> USE DEF messageVars, app, loop, sent, losses, power, durable, ram, vars, Go
<1>1. CASE \/ ReceiveTimesOut \/ Route \/ PublishFails \/ Edge \/ NoBackfill
           \/ SetOnline \/ GapPasses
  BY <1>1 DEF ReceiveTimesOut, Route, PublishFails, Edge, NoBackfill,
     SetOnline, GapPasses
<1>2. CASE WriteMessage \/ SaveCount
  BY <1>2 DEF WriteMessage, WriteBegin, SaveCount, PersistOverflow,
     PersistFault, Persist
<1>3. CASE TakeCount
  BY <1>3 DEF TakeCount, TakeOverflow, TakeFault, Take
<1>4. CASE Reported
  BY <1>4 DEF Reported, OverflowReported
<1>5. CASE ReportFails
  BY <1>5 DEF ReportFails, GiveBackOverflow, GiveBackFault, GiveBack
<1>6. CASE ReadStore \/ Fetch \/ FindNothing
  BY <1>6 DEF ReadStore, Fetch, FindNothing, ReadBegin, ReadHit, ReadEmpty
<1>7. CASE ResendFails
  BY <1>7 DEF ResendFails, PublishFailed, Settle
<1>8. CASE UNCHANGED allVars
  BY <1>8 DEF allVars, taskVars
<1> QED
  BY <1>1, <1>2, <1>3, <1>4, <1>5, <1>6, <1>7, <1>8 DEF QuietTask

LEMMA QuietOrNot ==
  ASSUME [TaskNext]_allVars
  PROVE  \/ QuietTask
         \/ Build \/ BuildFails \/ QueueSend \/ QueueSendTimesOut
         \/ Receive \/ Published \/ GiveUpSector \/ EnterSector \/ StoreMessage
         \/ PassOver \/ Resent \/ MarkEntry \/ MarkSkipped \/ PowerCut
  BY DEF TaskNext, AppTask, CacheTask, QuietTask

LEMMA MessageIsPayload ==
  ASSUME QueueOK, NEW m \in 1 .. built
  PROVE  m \in Payload
  BY CacheTaskAssumption DEF QueueOK

LEMMA StoreSteps ==
  ASSUME QueueOK, PlaceOK, [TaskNext]_allVars
  PROVE  [Next]_vars
<1> USE DEF Next, Progress, Fault
<1>1. CASE \/ Build \/ BuildFails \/ QueueSend \/ QueueSendTimesOut
           \/ Receive \/ ReceiveTimesOut \/ Route \/ Published \/ PublishFails
           \/ Edge \/ NoBackfill \/ Resent \/ SetOnline \/ GapPasses
           \/ UNCHANGED allVars
  BY <1>1 DEF Build, BuildFails, QueueSend, QueueSendTimesOut, Receive,
     ReceiveTimesOut, Route, Published, PublishFails, Edge, NoBackfill, Resent,
     SetOnline, GapPasses, allVars
<1>2. CASE WriteMessage
  <2>1. WriteBegin(msg) /\ at = "store"
    BY <1>2 DEF WriteMessage, Go
  <2>2. msg \in 1 .. built
    BY <2>1, CacheTaskAssumption DEF PlaceOK, QueueOK, NoMessage
  <2> QED
    BY <2>1, <2>2, MessageIsPayload DEF Write
<1>3. CASE GiveUpSector \/ SaveCount \/ EnterSector \/ StoreMessage
  BY <1>3 DEF GiveUpSector, SaveCount, EnterSector, StoreMessage
<1>4. CASE TakeCount \/ Reported \/ ReportFails
  BY <1>4 DEF TakeCount, Reported, ReportFails
<1>5. CASE \/ ReadStore \/ Fetch \/ PassOver \/ FindNothing \/ ResendFails
           \/ MarkEntry \/ MarkSkipped
  BY <1>5 DEF ReadStore, Fetch, PassOver, FindNothing, ResendFails, MarkEntry,
     MarkSkipped
<1>6. CASE PowerCut
  <2>1. CutImages \subseteq {flash} \cup Interrupted
    BY DEF CutImages
  <2> QED
    BY <1>6, <2>1 DEF PowerCut, Restart, FaultyBoot
<1> QED
  BY <1>1, <1>2, <1>3, <1>4, <1>5, <1>6 DEF TaskNext, AppTask, CacheTask

LEMMA SoundStep ==
  ASSUME Sound, QueueOK, PlaceOK, [TaskNext]_allVars
  PROVE  Sound'
<1>1. [Next]_vars
  BY StoreSteps
<1> QED
  BY <1>1, StoreInvStep, WhileOrderlyStep, HandsStep DEF Sound

LEMMA QueueStep ==
  ASSUME QueueOK, PlaceOK, [TaskNext]_allVars
  PROVE  QueueOK' /\ built <= built'
<1> USE CacheTaskAssumption DEF QueueOK, NoMessage, app, loop
<1>1. CASE QuietTask
  BY <1>1, QuietFrame DEF messageVars
<1>2. CASE Build \/ BuildFails
  <2>1. /\ built' = built + 1 /\ built + 1 \in 0 .. MaxMessages
        /\ mqttQueue' = mqttQueue /\ msg' = msg
        /\ sending' \in {sending, built + 1}
    BY <1>2 DEF Build, BuildFails
  <2>2. 1 .. built \subseteq 1 .. built + 1
    OBVIOUS
  <2>3. mqttQueue \in Seq(1 .. built + 1)
    BY <2>2, SeqWiden
  <2> QED
    BY <2>1, <2>3
<1>3. CASE QueueSend
  <2>1. /\ sending \in 1 .. built /\ Len(mqttQueue) < QueueDepth
        /\ mqttQueue' = Append(mqttQueue, sending) /\ sending' = 0
        /\ built' = built /\ msg' = msg
    BY <1>3 DEF QueueSend
  <2> QED
    BY <2>1
<1>4. CASE QueueSendTimesOut
  BY <1>4 DEF QueueSendTimesOut
<1>5. CASE Receive
  <2>1. /\ Head(mqttQueue) \in 1 .. built
        /\ Tail(mqttQueue) \in Seq(1 .. built)
        /\ Len(Tail(mqttQueue)) <= QueueDepth
    BY <1>5 DEF Receive
  <2> QED
    BY <1>5, <2>1 DEF Receive
<1>6. CASE Published \/ StoreMessage
  BY <1>6 DEF Published, StoreMessage
<1>7. CASE \/ GiveUpSector \/ EnterSector \/ PassOver \/ Resent \/ MarkEntry
           \/ MarkSkipped
  BY <1>7 DEF GiveUpSector, EnterSector, PassOver, Resent, MarkEntry,
     MarkSkipped
<1>8. CASE PowerCut
  <2>1. <<>> \in Seq(1 .. built) /\ Len(<<>>) <= QueueDepth
    OBVIOUS
  <2>2. built' = built /\ sending' = 0 /\ mqttQueue' = <<>> /\ msg' = 0
    BY <1>8 DEF PowerCut
  <2> QED
    BY <2>1, <2>2
<1> QED
  BY <1>1, <1>2, <1>3, <1>4, <1>5, <1>6, <1>7, <1>8, QuietOrNot

LEMMA PlaceStep ==
  ASSUME QueueOK, PlaceOK, [TaskNext]_allVars
  PROVE  PlaceOK'
<1> USE DEF PlaceOK, InStore, NoMessage, Go, vars, app, loop, durable, ram
<1>1. CASE \/ Build \/ BuildFails \/ QueueSend \/ QueueSendTimesOut
           \/ SetOnline \/ GapPasses \/ UNCHANGED allVars
  BY <1>1 DEF Build, BuildFails, QueueSend, QueueSendTimesOut, SetOnline,
     GapPasses, allVars, taskVars
<1>2. CASE Receive
  <2>1. Head(mqttQueue) \in 1 .. built
    BY <1>2 DEF Receive, QueueOK
  <2>2. Head(mqttQueue) # 0
    BY <2>1
  <2> QED
    BY <1>2, <2>2 DEF Receive
<1>3. CASE \/ ReceiveTimesOut \/ Route \/ Published \/ PublishFails \/ Edge
           \/ NoBackfill \/ Resent
  BY <1>3 DEF ReceiveTimesOut, Route, Published, PublishFails, Edge,
     NoBackfill, Resent
<1>4. CASE WriteMessage
  BY <1>4 DEF WriteMessage, WriteBegin
<1>5. CASE GiveUpSector \/ EnterSector
  BY <1>5 DEF GiveUpSector, EraseFull, DropSector, EnterSector, EraseWrap
<1>6. CASE SaveCount
  BY <1>6 DEF SaveCount, PersistOverflow, PersistFault, Persist
<1>7. CASE StoreMessage
  BY <1>7 DEF StoreMessage, ProgramEntry, ProgramFault, ProgramTo
<1>8. CASE TakeCount
  BY <1>8 DEF TakeCount, TakeOverflow, TakeFault, Take
<1>9. CASE Reported \/ ReportFails
  BY <1>9 DEF Reported, OverflowReported, ReportFails, GiveBackOverflow,
     GiveBackFault, GiveBack
<1>10. CASE ReadStore \/ Fetch \/ FindNothing
  BY <1>10 DEF ReadStore, Fetch, FindNothing, ReadBegin, ReadHit, ReadEmpty
<1>11. CASE PassOver
  BY <1>11 DEF PassOver, ReadSkip, ReadFault, SkipFault, Skip
<1>12. CASE ResendFails \/ MarkEntry \/ MarkSkipped
  BY <1>12 DEF ResendFails, PublishFailed, MarkEntry, MarkSent, MarkSkipped,
     MarkFault, Settle
<1>13. CASE PowerCut
  <2>1. at' = "receive" /\ msg' = 0
    BY <1>13 DEF PowerCut
  <2>2. pc' = "idle"
    BY <1>13 DEF PowerCut, Restart, CleanCut, TornCut, Boot, BootScanFault,
       BootNvsFault, Reset
  <2> QED
    BY <2>1, <2>2
<1> QED
  BY <1>1, <1>2, <1>3, <1>4, <1>5, <1>6, <1>7, <1>8, <1>9, <1>10, <1>11,
     <1>12, <1>13 DEF TaskNext, AppTask, CacheTask

LEMMA FlagsStep ==
  ASSUME FlagsOK, [TaskNext]_allVars
  PROVE  FlagsOK'
<1> USE DEF FlagsOK, loop
<1>1. CASE \/ Build \/ BuildFails \/ QueueSend \/ QueueSendTimesOut
           \/ ReceiveTimesOut \/ Route \/ PublishFails \/ WriteMessage
           \/ GiveUpSector \/ SaveCount \/ EnterSector
  BY <1>1 DEF Build, BuildFails, QueueSend, QueueSendTimesOut,
     ReceiveTimesOut, Route, PublishFails, WriteMessage, GiveUpSector,
     SaveCount, EnterSector
<1>2. CASE \/ TakeCount \/ ReportFails \/ NoBackfill \/ ReadStore \/ Fetch
           \/ PassOver \/ FindNothing \/ ResendFails \/ MarkEntry
           \/ MarkSkipped \/ Receive \/ StoreMessage \/ UNCHANGED allVars
  BY <1>2 DEF TakeCount, ReportFails, NoBackfill, ReadStore, Fetch, PassOver,
     FindNothing, ResendFails, MarkEntry, MarkSkipped, Receive, StoreMessage,
     allVars, taskVars
<1>3. CASE Published \/ Reported \/ Resent \/ GapPasses
  <2>1. /\ gapOver' = FALSE \/ gapOver' = TRUE
        /\ UNCHANGED <<online, onlineNow, lastOnline>>
    BY <1>3 DEF Published, Reported, Resent, GapPasses
  <2> QED
    BY <2>1
<1>4. CASE Edge
  <2>1. /\ onlineNow' = online /\ lastOnline' = online
        /\ UNCHANGED <<online, gapOver>>
    BY <1>4 DEF Edge
  <2> QED
    BY <2>1
<1>5. CASE SetOnline
  <2>1. online' = ~online /\ UNCHANGED <<onlineNow, lastOnline, gapOver>>
    BY <1>5 DEF SetOnline
  <2> QED
    BY <2>1
<1>6. CASE PowerCut
  <2>1. /\ online' = FALSE /\ onlineNow' = FALSE /\ lastOnline' = FALSE
        /\ gapOver' = TRUE
    BY <1>6 DEF PowerCut
  <2> QED
    BY <2>1
<1> QED
  BY <1>1, <1>2, <1>3, <1>4, <1>5, <1>6 DEF TaskNext, AppTask, CacheTask

(* While a message is programmed it is the one in the task's hands.        *)
LEMMA ProgrammedIsMsg ==
  ASSUME QueueOK, PlaceOK, pc \in {"erase", "persist", "program"}
  PROVE  at = "storing" /\ entry = msg /\ msg \in 1 .. built
  BY CacheTaskAssumption DEF PlaceOK, InStore, QueueOK, NoMessage

LEMMA ChipOKStep ==
  ASSUME Sound, Typed, [TaskNext]_allVars
  PROVE  ChipOK'
<1>1. FlashMoves
  BY StoreSteps, FlashStep DEF Sound, Typed
<1>2. built <= built' /\ built \in Nat /\ built' \in Nat
  BY QueueStep, CacheTaskAssumption DEF Typed, QueueOK
<1>3. Chip' \subseteq 1 .. built
  BY <1>1, ChipStep, ProgrammedIsMsg DEF Typed, ChipOK
<1> QED
  BY <1>2, <1>3 DEF ChipOK

LEMMA TypedStep == Sound /\ Typed /\ [TaskNext]_allVars => Sound' /\ Typed'
  BY SoundStep, QueueStep, PlaceStep, FlagsStep, ChipOKStep DEF Typed

LEMMA TypedInit == TaskInit => Sound /\ Typed
<1> SUFFICES ASSUME TaskInit PROVE Sound /\ Typed
  OBVIOUS
<1> USE DEF TaskInit
<1>1. Init
  OBVIOUS
<1>2. StoreInv /\ EarlyInv
  BY <1>1, StoreInvInit, EarlyInvInit
<1>3. Sound
  BY <1>1, <1>2 DEF Sound, WhileOrderly, HandShape, TakenShape, Init
<1>4. QueueOK
  <2>1. <<>> \in Seq(1 .. 0) /\ Len(<<>>) <= QueueDepth
    BY CacheTaskAssumption
  <2> QED
    BY <2>1, CacheTaskAssumption DEF QueueOK, NoMessage
<1>5. PlaceOK
  BY DEF PlaceOK, InStore, NoMessage, Init
<1>6. FlagsOK
  BY DEF FlagsOK
<1>7. Chip = {}
  BY MarksNoPayload DEF Init, Chip
<1> QED
  BY <1>3, <1>4, <1>5, <1>6, <1>7 DEF Typed, ChipOK

(***************************************************************************)
(* Where the messages are: on the chip, in a task's hands, or past.        *)
(***************************************************************************)
InHand == {msg} \ {NoMessage}
Queued == Elements(mqttQueue)
InSend == {sending} \ {NoMessage}
Held == InHand \cup Queued \cup InSend

FreshInOrder ==
  /\ Ascending(mqttQueue)
  /\ \A a \in InHand, b \in Queued \cup InSend : a < b
  /\ \A a \in Queued, b \in InSend : a < b

(* The sequence of one message, or of none when no message is held.        *)
LEMMA OneOfFact ==
  ASSUME NEW n \in Nat, NEW m \in 0 .. n
  PROVE  /\ OneOf(m) \in Seq(1 .. n)
         /\ Elements(OneOf(m)) = {m} \ {NoMessage}
         /\ Ascending(OneOf(m))
<1>1. CASE m = NoMessage
  BY <1>1 DEF OneOf, Elements, Ascending
<1>2. CASE m # NoMessage
  <2>1. OneOf(m) = <<m>> /\ m \in 1 .. n
    BY <1>2 DEF OneOf, NoMessage
  <2>2. Len(<<m>>) = 1 /\ <<m>>[1] = m
    OBVIOUS
  <2>3. Elements(<<m>>) = {m}
    BY <2>2 DEF Elements
  <2> QED
    BY <1>2, <2>1, <2>2, <2>3 DEF Ascending
<1> QED
  BY <1>1, <1>2

LEMMA BuiltFact ==
  ASSUME QueueOK
  PROVE  built \in Nat /\ 1 .. built \subseteq Nat
  BY CacheTaskAssumption DEF QueueOK

(* What waits outside the store is the task's hands and the queue.         *)
LEMMA FreshFact ==
  ASSUME QueueOK
  PROVE  /\ Fresh \in Seq(1 .. built)
         /\ Elements(Fresh) = Held
         /\ Ascending(Fresh) <=> FreshInOrder
<1> DEFINE b == OneOf(msg)
           c == mqttQueue
           d == OneOf(sending)
           bc == b \o c
<1>1. built \in Nat /\ 1 .. built \subseteq Nat
  BY BuiltFact
<1>2. c \in Seq(1 .. built) /\ msg \in 0 .. built /\ sending \in 0 .. built
  BY DEF QueueOK
<1>3. /\ b \in Seq(1 .. built) /\ Elements(b) = InHand /\ Ascending(b)
      /\ d \in Seq(1 .. built) /\ Elements(d) = InSend /\ Ascending(d)
  BY <1>1, <1>2, OneOfFact DEF InHand, InSend
<1>4. Elements(c) = Queued
  BY DEF Queued
<1>5. Fresh = bc \o d /\ bc = b \o c
  BY DEF Fresh
<1>6. FreshInOrder <=>
        /\ Ascending(c)
        /\ \A x \in InHand, y \in Queued \cup InSend : x < y
        /\ \A x \in Queued, y \in InSend : x < y
  BY DEF FreshInOrder
<1> HIDE DEF b, c, d, bc
<1>7. /\ bc \in Seq(1 .. built)
      /\ Elements(bc) = InHand \cup Queued
  BY <1>2, <1>3, <1>4, <1>5, Concatenation
<1>8. Fresh \in Seq(1 .. built) /\ Elements(Fresh) = Held
  <2>1. /\ bc \o d \in Seq(1 .. built)
        /\ Elements(bc \o d) = Elements(bc) \cup Elements(d)
    BY <1>3, <1>7, Concatenation
  <2> QED
    BY <2>1, <1>3, <1>5, <1>7 DEF Held
<1>9. /\ b \in Seq(Nat) /\ c \in Seq(Nat) /\ d \in Seq(Nat)
      /\ bc \in Seq(Nat)
  BY <1>1, <1>2, <1>3, <1>7, SeqWiden
<1>10. Ascending(bc) <=> Ascending(c) /\ \A x \in InHand, y \in Queued : x < y
  BY <1>3, <1>4, <1>5, <1>9, ConcatenationOrder DEF Before
<1>11. Ascending(Fresh) <=>
         /\ Ascending(bc)
         /\ \A x \in InHand \cup Queued, y \in InSend : x < y
  BY <1>3, <1>5, <1>7, <1>9, ConcatenationOrder DEF Before
<1> QED
  BY <1>6, <1>8, <1>10, <1>11

LEMMA HeldType ==
  ASSUME QueueOK
  PROVE  Held \subseteq 1 .. built
  BY FreshFact, ElementsType

(* The waiting messages stay in order, and a step holds no message that    *)
(* was not held, but the one it builds.                                    *)
HeldMoves == Held' \subseteq Held \cup (built + 1 .. built')

LEMMA FreshStep ==
  ASSUME QueueOK, PlaceOK, FreshInOrder, [TaskNext]_allVars
  PROVE  FreshInOrder' /\ HeldMoves
<1>1. built \in Nat /\ 1 .. built \subseteq Nat /\ Held \subseteq 1 .. built
  BY BuiltFact, HeldType
<1> USE DEF InHand, InSend, Held, NoMessage, app, loop
<1>2. CASE UNCHANGED <<built, sending, mqttQueue, msg>>
  BY <1>2 DEF FreshInOrder, HeldMoves, Queued, Ascending, Elements
<1>3. CASE Build \/ BuildFails
  <2>1. /\ built' = built + 1 /\ mqttQueue' = mqttQueue /\ msg' = msg
        /\ sending' \in {built + 1, sending}
    BY <1>3 DEF Build, BuildFails
  <2>2. /\ Queued' = Queued /\ InHand' = InHand
        /\ InSend' \subseteq InSend \cup {built + 1}
    BY <2>1 DEF Queued
  <2>3. Ascending(mqttQueue)'
    BY <2>1 DEF FreshInOrder, Ascending
  <2>4. HeldMoves
    BY <2>1, <2>2, <1>1 DEF HeldMoves
  <2>5. \A a \in Held : a < built + 1
    BY <1>1
  <2> QED
    BY <2>2, <2>3, <2>4, <2>5 DEF FreshInOrder
<1>4. CASE QueueSend
  <2>1. /\ sending \in 1 .. built /\ mqttQueue' = Append(mqttQueue, sending)
        /\ sending' = 0 /\ msg' = msg /\ mqttQueue \in Seq(1 .. built)
    BY <1>4 DEF QueueSend, QueueOK
  <2>2. Queued' = Queued \cup {sending}
    <3>1. Elements(Append(mqttQueue, sending)) = Elements(mqttQueue) \cup {sending}
      <4> DEFINE S == 1 .. built
      <4>1. sending \in S /\ mqttQueue \in Seq(S)
        BY <2>1
      <4> HIDE DEF S
      <4> QED
        BY <4>1, ElementsAppend
    <3>2. Queued' = Elements(Append(mqttQueue, sending))
      BY <2>1 DEF Queued, Elements
    <3> QED
      BY <3>1, <3>2 DEF Queued
  <2>3. InHand' = InHand /\ InSend' = {} /\ InSend = {sending}
    BY <2>1
  <2>4. HeldMoves
    BY <2>2, <2>3 DEF HeldMoves
  <2>5. Ascending(mqttQueue')
    <3>1. mqttQueue \in Seq(Nat) /\ sending \in Nat
      BY <1>1, <2>1, SeqWiden
    <3>2. Ascending(mqttQueue) /\ \A a \in Elements(mqttQueue) : a < sending
      BY <2>3 DEF FreshInOrder, Queued
    <3> QED
      BY <2>1, <3>1, <3>2, AscendingAppend
  <2>6. Ascending(mqttQueue)'
    BY <2>5 DEF Ascending
  <2>7. \A a \in InHand, b \in Queued \cup {sending} : a < b
    BY <2>3 DEF FreshInOrder
  <2> QED
    BY <2>2, <2>3, <2>4, <2>6, <2>7 DEF FreshInOrder
<1>5. CASE Receive
  <2>1. /\ mqttQueue \in Seq(1 .. built) /\ mqttQueue # <<>> /\ msg = 0
        /\ msg' = Head(mqttQueue) /\ mqttQueue' = Tail(mqttQueue)
        /\ sending' = sending
    BY <1>5 DEF Receive, Go, PlaceOK, QueueOK
  <2>2. /\ Head(mqttQueue) \in 1 .. built
        /\ Queued = Queued' \cup {Head(mqttQueue)}
    BY <2>1, ElementsTail DEF Queued
  <2>3. /\ Ascending(Tail(mqttQueue))
        /\ \A b \in Elements(Tail(mqttQueue)) : Head(mqttQueue) < b
    <3>1. mqttQueue \in Seq(Nat)
      BY <1>1, <2>1, SeqWiden
    <3> QED
      BY <3>1, <2>1, AscendingTail DEF FreshInOrder
  <2>4. /\ Ascending(mqttQueue)'
        /\ \A b \in Queued' : Head(mqttQueue) < b
    BY <2>1, <2>3 DEF Ascending, Queued, Elements
  <2>5. InHand' = {Head(mqttQueue)} /\ InSend' = InSend
    BY <2>1, <2>2
  <2>6. HeldMoves
    BY <2>2, <2>5 DEF HeldMoves
  <2>7. \A a \in Queued, b \in InSend : a < b
    BY DEF FreshInOrder
  <2> QED
    BY <2>2, <2>4, <2>5, <2>6, <2>7 DEF FreshInOrder
<1>6. CASE QueueSendTimesOut \/ Published \/ StoreMessage
  <2>1. /\ mqttQueue' = mqttQueue /\ built' = built
        /\ msg' \in {msg, 0} /\ sending' \in {sending, 0}
    BY <1>6 DEF QueueSendTimesOut, Published, StoreMessage
  <2>2. Queued' = Queued /\ InHand' \subseteq InHand /\ InSend' \subseteq InSend
    BY <2>1 DEF Queued
  <2>3. Ascending(mqttQueue)'
    BY <2>1 DEF FreshInOrder, Ascending
  <2> QED
    BY <2>2, <2>3 DEF FreshInOrder, HeldMoves
<1>7. CASE PowerCut
  <2>1. msg' = 0 /\ sending' = 0 /\ mqttQueue' = <<>>
    BY <1>7 DEF PowerCut
  <2>2. Queued' = {} /\ Ascending(mqttQueue)'
    BY <2>1 DEF Queued, Elements, Ascending
  <2>3. InHand' = {} /\ InSend' = {}
    BY <2>1
  <2> QED
    BY <2>2, <2>3 DEF FreshInOrder, HeldMoves
<1>8. CASE QuietTask
  BY <1>8, <1>2, QuietFrame DEF messageVars
<1>9. CASE \/ GiveUpSector \/ EnterSector \/ PassOver \/ Resent \/ MarkEntry
           \/ MarkSkipped
  BY <1>9, <1>2 DEF GiveUpSector, EnterSector, PassOver, Resent, MarkEntry,
     MarkSkipped
<1> QED
  BY <1>3, <1>4, <1>5, <1>6, <1>7, <1>8, <1>9, QuietOrNot

(* The messages the store or the cloud has had: all older than those held. *)
Past == Chip \cup givenUp \cup (Elements(accepted) \cap Payload)
PastIsOlder == \A p \in Past, m \in Held : p < m

AcceptedOK == accepted \in Seq(1 .. built \cup {Garbage})
SetsOK ==
  /\ refused \subseteq 1 .. built
  /\ givenUp \subseteq 1 .. built
  /\ overwritten \subseteq 1 .. built
  /\ spoilt \subseteq 1 .. built
  /\ cutShort \subseteq 1 .. built
  /\ unmarked \subseteq 1 .. built \cup {Garbage}
TalliesOK ==
  /\ reported \in Nat /\ counted \in Nat /\ uncounted \in Nat
  /\ nvsFailed \in BOOLEAN
  /\ cuts \in 0 .. MaxCuts

(* An entry that is read and published is a message of the chip, or a      *)
(* damaged one.                                                            *)
LEMMA EntryFact ==
  ASSUME Sound, PlaceOK, at \in {"resend", "mark"}
  PROVE  /\ pc = "sending" /\ readAddr \in Slots /\ entry = flash[readAddr]
         /\ entry \in Chip \cup {Garbage}
<1>1. pc = "sending"
  BY DEF PlaceOK, InStore
<1>2. readAddr \in Slots /\ entry = flash[readAddr] /\ Readable(entry)
  BY <1>1 DEF Sound, HandShape, StoreInv, TypeOK
<1> QED
  BY <1>1, <1>2 DEF Readable, Chip

LEMMA AppFrame ==
  ASSUME Build \/ BuildFails \/ QueueSend \/ QueueSendTimesOut \/ Receive
  PROVE  /\ UNCHANGED <<vars, accepted, reported, givenUp, counted, nvsFailed,
                        overwritten, spoilt, cuts, cutShort, unmarked,
                        uncounted>>
         /\ at' = "mark" \/ at = "mark" => at' = at
  BY DEF Build, BuildFails, QueueSend, QueueSendTimesOut, Receive, Go, app,
     sent, losses, power

(* The message in the task's hands is no longer held.                      *)
Spent == Held' \subseteq Queued \cup InSend

LEMMA SpentFact ==
  ASSUME msg' = NoMessage, mqttQueue' \in {mqttQueue, <<>>},
         sending' \in {sending, NoMessage}
  PROVE  Spent
<1>1. InHand' = {} /\ InSend' \subseteq InSend
  BY DEF InHand, InSend
<1>2. Queued' \subseteq Queued
  BY DEF Queued, Elements
<1> QED
  BY <1>1, <1>2 DEF Spent, Held

(* The chip gains no message but the one in the task's hands.              *)
LEMMA ChipGain ==
  ASSUME Sound, Typed, [TaskNext]_allVars
  PROVE  \/ Chip' \subseteq Chip
         \/ Chip' \subseteq Chip \cup InHand /\ Spent
<1>1. FlashMoves
  BY StoreSteps, FlashStep DEF Sound, Typed
<1>2. pc = "program" => entry = msg /\ msg # NoMessage
  BY ProgrammedIsMsg DEF Typed, NoMessage
<1>3. Chip' \subseteq Chip \cup (IF pc = "program" THEN {entry} ELSE {})
  BY <1>1, ChipStep
<1>4. Chip' \subseteq Chip \cup InHand
  BY <1>2, <1>3 DEF InHand
<1>5. CASE QuietTask
  BY <1>5, QuietFrame, ChipSame
<1>6. CASE Build \/ BuildFails \/ QueueSend \/ QueueSendTimesOut \/ Receive
  BY <1>6, AppFrame, ChipSame DEF vars
<1>7. CASE Published \/ Resent
  BY <1>7, ChipSame DEF Published, Resent, vars
<1>8. CASE GiveUpSector \/ EnterSector
  BY <1>3, <1>8 DEF GiveUpSector, EnterSector, EraseFull, DropSector, EraseWrap
<1>9. CASE PassOver
  BY <1>3, <1>9 DEF PassOver, ReadSkip, ReadFault, SkipFault, Skip
<1>10. CASE MarkEntry \/ MarkSkipped
  BY <1>3, <1>10 DEF MarkEntry, MarkSkipped, MarkSent, MarkFault, Settle
<1>11. CASE StoreMessage \/ PowerCut
  BY <1>4, <1>11, SpentFact DEF StoreMessage, PowerCut, app
<1> QED
  BY <1>5, <1>6, <1>7, <1>8, <1>9, <1>10, <1>11, QuietOrNot

(* What a step adds to the messages the client accepted.                   *)
LEMMA AcceptedMoves ==
  ASSUME [TaskNext]_allVars
  PROVE  \/ accepted' = accepted
         \/ /\ at = "publish" /\ accepted' = Append(accepted, msg)
            /\ Spent
         \/ at = "resend" /\ accepted' = Append(accepted, entry)
<1>1. CASE QuietTask
  BY <1>1, QuietFrame DEF messageVars
<1>2. CASE Published \/ Resent
  BY <1>2, SpentFact DEF Published, Resent, Go, app
<1>3. CASE \/ Build \/ BuildFails \/ QueueSend \/ QueueSendTimesOut \/ Receive
  BY <1>3, AppFrame
<1>4. CASE \/ GiveUpSector \/ EnterSector \/ StoreMessage \/ PassOver
           \/ MarkEntry \/ MarkSkipped \/ PowerCut
  BY <1>4 DEF GiveUpSector, EnterSector, StoreMessage, PassOver, MarkEntry,
     MarkSkipped, PowerCut, sent
<1> QED
  BY <1>1, <1>2, <1>3, <1>4, QuietOrNot

LEMMA BuiltStep ==
  ASSUME QueueOK, PlaceOK, [TaskNext]_allVars
  PROVE  1 .. built \subseteq 1 .. built'
<1>1. built <= built' /\ built \in Nat /\ built' \in Nat
  BY QueueStep, CacheTaskAssumption DEF QueueOK
<1> QED
  BY <1>1

LEMMA AcceptedOKStep ==
  ASSUME Sound, Typed, AcceptedOK, [TaskNext]_allVars
  PROVE  AcceptedOK'
<1> DEFINE S == 1 .. built \cup {Garbage}
<1>1. S \subseteq (1 .. built \cup {Garbage})'
  BY BuiltStep DEF Typed
<1>2. accepted \in Seq(S)
  BY DEF AcceptedOK
<1>3. CASE accepted' = accepted
  BY <1>1, <1>2, <1>3, SeqWiden DEF AcceptedOK
<1>4. CASE at = "publish" /\ accepted' = Append(accepted, msg)
  <2>1. msg \in S
    BY <1>4 DEF Typed, QueueOK, PlaceOK, NoMessage
  <2> HIDE DEF S
  <2>2. accepted' \in Seq(S)
    BY <1>2, <1>4, <2>1, ElementsAppend
  <2> QED
    BY <1>1, <2>2, SeqWiden DEF AcceptedOK
<1>5. CASE at = "resend" /\ accepted' = Append(accepted, entry)
  <2>1. entry \in S
    BY <1>5, EntryFact DEF Typed, ChipOK
  <2> HIDE DEF S
  <2>2. accepted' \in Seq(S)
    BY <1>2, <1>5, <2>1, ElementsAppend
  <2> QED
    BY <1>1, <2>2, SeqWiden DEF AcceptedOK
<1> QED
  BY <1>3, <1>4, <1>5, AcceptedMoves

(* The elements of accepted after it grew.                                 *)
LEMMA AcceptedGrows ==
  ASSUME AcceptedOK, NEW e, accepted' = Append(accepted, e),
         e \in 1 .. built \cup {Garbage}
  PROVE  Elements(accepted)' = Elements(accepted) \cup {e}
<1> DEFINE S == 1 .. built \cup {Garbage}
<1>1. accepted \in Seq(S) /\ e \in S
  BY DEF AcceptedOK
<1> HIDE DEF S
<1>2. Elements(Append(accepted, e)) = Elements(accepted) \cup {e}
  BY <1>1, ElementsAppend
<1>3. Elements(accepted)' = Elements(Append(accepted, e))
  BY DEF Elements
<1> QED
  BY <1>2, <1>3

LEMMA PastMoves ==
  ASSUME Sound, Typed, AcceptedOK, [TaskNext]_allVars
  PROVE  \/ Past' \subseteq Past
         \/ Past' \subseteq Past \cup InHand /\ Spent
<1>1. \/ Chip' \subseteq Chip
      \/ Chip' \subseteq Chip \cup InHand /\ Spent
  BY ChipGain
<1>2. givenUp' \subseteq givenUp \cup Chip
  <2>1. CASE GiveUpSector
    BY <2>1 DEF GiveUpSector
  <2>2. CASE \/ EnterSector \/ StoreMessage \/ PassOver \/ MarkEntry
             \/ MarkSkipped \/ PowerCut \/ Published \/ Resent
    BY <2>2 DEF EnterSector, StoreMessage, PassOver, MarkEntry, MarkSkipped,
       PowerCut, Published, Resent, losses
  <2>3. CASE \/ Build \/ BuildFails \/ QueueSend \/ QueueSendTimesOut
             \/ Receive
    BY <2>3, AppFrame
  <2>4. CASE QuietTask
    BY <2>4, QuietFrame DEF messageVars
  <2> QED
    BY <2>1, <2>2, <2>3, <2>4, QuietOrNot
<1>3. CASE accepted' = accepted
  BY <1>1, <1>2, <1>3 DEF Past, Elements
<1>4. CASE /\ at = "publish" /\ accepted' = Append(accepted, msg)
           /\ Spent
  <2>1. msg \in 1 .. built /\ msg # NoMessage
    BY <1>4 DEF Typed, QueueOK, PlaceOK, NoMessage
  <2>2. Elements(accepted)' = Elements(accepted) \cup {msg}
    BY <1>4, <2>1, AcceptedGrows
  <2>3. InHand = {msg}
    BY <2>1 DEF InHand
  <2> QED
    BY <1>1, <1>2, <1>4, <2>2, <2>3 DEF Past
<1>5. CASE at = "resend" /\ accepted' = Append(accepted, entry)
  <2>1. entry \in Chip \cup {Garbage} /\ entry \in 1 .. built \cup {Garbage}
    BY <1>5, EntryFact DEF Typed, ChipOK
  <2>2. Elements(accepted)' = Elements(accepted) \cup {entry}
    BY <1>5, <2>1, AcceptedGrows
  <2> QED
    BY <1>1, <1>2, <2>1, <2>2, MarksNoPayload DEF Past
<1> QED
  BY <1>3, <1>4, <1>5, AcceptedMoves

LEMMA PastType ==
  ASSUME Typed, AcceptedOK, SetsOK
  PROVE  Past \subseteq 1 .. built
<1>1. Elements(accepted) \subseteq 1 .. built \cup {Garbage}
  BY ElementsType DEF AcceptedOK
<1> QED
  BY <1>1, MarksNoPayload DEF Past, Typed, ChipOK, SetsOK

LEMMA PastStep ==
  ASSUME Sound, Typed, AcceptedOK, SetsOK, FreshInOrder, PastIsOlder,
         [TaskNext]_allVars
  PROVE  PastIsOlder'
<1>1. /\ built \in Nat /\ Held \subseteq 1 .. built /\ Past \subseteq 1 .. built
  BY BuiltFact, HeldType, PastType DEF Typed
<1>2. Held' \subseteq Held \cup (built + 1 .. built') /\ built' \in Nat
  BY FreshStep, QueueStep, CacheTaskAssumption DEF HeldMoves, Typed, QueueOK
<1>3. InHand \subseteq Held
  BY DEF Held
<1> SUFFICES ASSUME NEW p \in Past', NEW m \in Held'
             PROVE  p < m
  BY DEF PastIsOlder
<1>4. CASE m \in built + 1 .. built'
  <2>1. p \in Past \cup InHand
    BY PastMoves
  <2>2. p \in 1 .. built
    BY <2>1, <1>1, <1>3
  <2> QED
    BY <1>1, <1>2, <1>4, <2>2
<1>5. CASE m \in Held /\ p \in Past
  BY <1>5 DEF PastIsOlder
<1>6. CASE m \in Held /\ p \in InHand /\ Spent
  BY <1>6 DEF FreshInOrder, Spent
<1> QED
  BY <1>2, <1>4, <1>5, <1>6, PastMoves

(***************************************************************************)
(* What becomes of a message.                                              *)
(***************************************************************************)
GivenUpGone == givenUp \cap Chip = {}
Kept ==
  Chip \cup Held \cup Elements(accepted) \cup refused \cup givenUp
    \cup cutShort \cup overwritten \cup spoilt
AllKept == 1 .. built \subseteq Kept
NoneSpoilt == orderly => overwritten = {} /\ spoilt = {}
StoreAscends == orderly => Ascending(Contents)
AcceptedGone ==
  \A m \in Elements(accepted) \cap Chip :
    m \in unmarked \/ (at = "mark" /\ m = entry)
MarkEarned == at = "mark" => entry \in Elements(accepted)
GivenUpCounted ==
  /\ IsFiniteSet(givenUp)
  /\ Cardinality(givenUp) <= counted
  /\ orderly => Cardinality(givenUp) = counted

MessageInv ==
  /\ AcceptedOK /\ SetsOK /\ TalliesOK
  /\ EachOnce
  /\ FreshInOrder /\ PastIsOlder
  /\ GivenUpGone /\ GivenUpCounted
  /\ AllKept /\ NoneSpoilt /\ StoreAscends
  /\ AcceptedGone /\ MarkEarned /\ AcceptedOnce
TaskInv == Sound /\ Typed /\ MessageInv

(* Nothing past is in the task's hands.                                    *)
LEMMA HandIsNew ==
  ASSUME Typed, AcceptedOK, SetsOK, PastIsOlder
  PROVE  Past \cap InHand = {}
<1>1. built \in Nat /\ Held \subseteq 1 .. built /\ InHand \subseteq Held
  BY BuiltFact, HeldType DEF Typed, Held
<1>2. \A m \in 1 .. built : ~(m < m)
  OBVIOUS
<1> QED
  BY <1>1, <1>2 DEF PastIsOlder

LEMMA EachOnceStep ==
  ASSUME TaskInv, [TaskNext]_allVars
  PROVE  EachOnce'
<1>1. FlashMoves
  BY StoreSteps, FlashStep DEF TaskInv, Sound, Typed
<1>2. pc = "program" => entry = msg /\ msg # NoMessage
  BY ProgrammedIsMsg DEF TaskInv, Typed, NoMessage
<1>3. pc = "program" => entry \notin Chip
  BY <1>2, HandIsNew DEF TaskInv, MessageInv, InHand, Past
<1> QED
  BY <1>1, <1>3, OnceStep DEF TaskInv, MessageInv

(* What an erase takes from a store that is full is given up, from one     *)
(* that is not is overwritten.                                             *)
LEMMA SetsOKStep ==
  ASSUME TaskInv, [TaskNext]_allVars
  PROVE  SetsOK'
<1>1. /\ 1 .. built \subseteq 1 .. built' /\ Chip \subseteq 1 .. built
      /\ msg \in 0 .. built
  BY BuiltStep DEF TaskInv, Typed, ChipOK, QueueOK
<1> USE DEF SetsOK
<1>2. SetsOK
  BY DEF TaskInv, MessageInv
<1>3. CASE QuietTask
  BY <1>1, <1>2, <1>3, QuietFrame DEF messageVars
<1>4. CASE Build \/ QueueSend \/ Receive
  <2>1. refused' = refused
    BY <1>4 DEF Build, QueueSend, Receive, app
  <2> QED
    BY <1>1, <1>2, <1>4, <2>1, AppFrame
<1>5. CASE BuildFails
  <2>1. refused' = refused \cup {built + 1} /\ built' = built + 1
    BY <1>5 DEF BuildFails
  <2>2. built \in Nat
    BY BuiltFact DEF TaskInv, Typed
  <2>3. built + 1 \in 1 .. built'
    BY <2>1, <2>2
  <2> QED
    BY <1>1, <1>2, <1>5, <2>1, <2>3, AppFrame
<1>6. CASE QueueSendTimesOut
  <2>1. refused' = refused \cup {sending} /\ sending \in 1 .. built
    BY <1>6 DEF QueueSendTimesOut, TaskInv, Typed, QueueOK, NoMessage
  <2> QED
    BY <1>1, <1>2, <1>6, <2>1, AppFrame
<1>7. CASE Published \/ Resent \/ MarkEntry
  BY <1>1, <1>2, <1>7 DEF Published, Resent, MarkEntry, app, losses, power
<1>8. CASE GiveUpSector \/ EnterSector \/ PassOver
  BY <1>1, <1>2, <1>8 DEF GiveUpSector, EnterSector, PassOver, app, power
<1>9. CASE StoreMessage
  <2>1. msg \in 1 .. built
    BY <1>9 DEF StoreMessage, Go, TaskInv, Typed, PlaceOK, QueueOK, NoMessage
  <2> QED
    BY <1>1, <1>2, <1>9, <2>1 DEF StoreMessage, app, power
<1>10. CASE MarkSkipped
  <2>1. entry \in 1 .. built \cup {Garbage}
    BY <1>1, <1>10, EntryFact DEF MarkSkipped, Go, TaskInv, Typed
  <2> QED
    BY <1>1, <1>2, <1>10, <2>1 DEF MarkSkipped, app, losses
<1>11. CASE PowerCut
  <2>1. at = "mark" => entry \in 1 .. built \cup {Garbage}
    BY <1>1, EntryFact DEF TaskInv, Typed
  <2>2. InRam \subseteq 1 .. built
    BY HeldType DEF TaskInv, Typed, InRam, Held, InHand, InSend, Queued
  <2>3. /\ cutShort' \subseteq cutShort \cup InRam \cup Chip
        /\ unmarked' \subseteq unmarked
                                 \cup (IF at = "mark" THEN {entry} ELSE {})
        /\ UNCHANGED <<refused, givenUp, overwritten, spoilt>>
    BY <1>11 DEF PowerCut
  <2> QED
    BY <1>1, <1>2, <2>1, <2>2, <2>3
<1> QED
  BY <1>3, <1>4, <1>5, <1>6, <1>7, <1>8, <1>9, <1>10, <1>11, QuietOrNot

LEMMA GivenUpGoneStep ==
  ASSUME TaskInv, [TaskNext]_allVars
  PROVE  GivenUpGone'
<1>1. Chip' \subseteq Chip \cup InHand
  BY ChipGain DEF TaskInv
<1>2. givenUp \cap (Chip \cup InHand) = {}
  BY HandIsNew DEF TaskInv, MessageInv, GivenUpGone, Past
<1>3. CASE GiveUpSector
  BY <1>1, <1>2, <1>3 DEF GiveUpSector, GivenUpGone
<1>4. CASE \/ EnterSector \/ StoreMessage \/ PassOver \/ MarkEntry
           \/ MarkSkipped \/ PowerCut \/ Published \/ Resent
  BY <1>1, <1>2, <1>4 DEF EnterSector, StoreMessage, PassOver, MarkEntry,
     MarkSkipped, PowerCut, Published, Resent, losses, GivenUpGone
<1>5. CASE Build \/ BuildFails \/ QueueSend \/ QueueSendTimesOut \/ Receive
  BY <1>1, <1>2, <1>5, AppFrame DEF GivenUpGone
<1>6. CASE QuietTask
  BY <1>1, <1>2, <1>6, QuietFrame DEF messageVars, GivenUpGone
<1> QED
  BY <1>3, <1>4, <1>5, <1>6, QuietOrNot

(* The task is in the store: the entry it works on.                        *)
LEMMA MarkedLeaves ==
  ASSUME TaskInv, MarkEntry
  PROVE  Chip' = Chip \ {entry}
<1>1. /\ at = "mark" /\ flash' = [flash EXCEPT ![readAddr] = Sent]
      /\ flash \in [Slots -> Cell]
  BY DEF MarkEntry, MarkSent, Settle, Go, TaskInv, Sound, StoreInv, TypeOK
<1>2. readAddr \in Slots /\ entry = flash[readAddr]
  BY <1>1, EntryFact DEF TaskInv, Typed
<1>3. EachOnce
  BY DEF TaskInv, MessageInv
<1>4. ASSUME NEW m PROVE m \in Chip' <=> m \in Chip /\ m # entry
  <2>1. m \in Chip' <=> m \in Payload /\ \E a \in Slots : flash'[a] = m
    BY DEF Chip
  <2>2. ASSUME m \in Payload PROVE m # Sent
    BY <2>2, MarksNoPayload
  <2>3. CASE m \in Payload /\ m # entry
    BY <1>1, <1>2, <2>1, <2>2, <2>3, ChipFact
  <2>4. CASE m \in Payload /\ m = entry
    <3>1. \A a \in Slots : flash[a] = m => a = readAddr
      BY <1>2, <1>3, <2>4 DEF EachOnce
    <3> QED
      BY <1>1, <1>2, <2>1, <2>2, <2>4, <3>1
  <2> QED
    BY <2>1, <2>3, <2>4, ChipFact
<1> QED
  BY <1>4

LEMMA KeptStep ==
  ASSUME TaskInv, [TaskNext]_allVars
  PROVE  AllKept'
<1>1. AllKept /\ QueueOK /\ PlaceOK /\ AcceptedOK
  BY DEF TaskInv, MessageInv, Typed
<1>2. SUFFICES /\ Kept \subseteq Kept'
               /\ 1 .. built' \subseteq 1 .. built \cup Kept'
  BY <1>1 DEF AllKept
<1>3. CASE QuietTask
  <2>1. Held' = Held
    BY <1>3, QuietFrame DEF messageVars, Held, InHand, InSend, Queued, Elements
  <2> QED
    BY <1>3, <2>1, QuietFrame, ChipSame DEF messageVars, Kept, Elements
<1>4. CASE Build \/ BuildFails
  <2>1. /\ built' = built + 1 /\ mqttQueue' = mqttQueue /\ msg' = msg
        /\ sending = 0
        /\ \/ sending' = built + 1 /\ refused' = refused
           \/ sending' = 0 /\ refused' = refused \cup {built + 1}
    BY <1>4 DEF Build, BuildFails, NoMessage, loop
  <2>2. built \in Nat
    BY <1>1, BuiltFact
  <2>3. Queued' = Queued /\ InHand' = InHand
    BY <2>1 DEF Queued, Elements, InHand
  <2>4. Held \subseteq Held'
    BY <2>1, <2>3 DEF Held, InSend, NoMessage
  <2>5. built + 1 \in InSend' \cup refused'
    BY <2>1, <2>2 DEF InSend, NoMessage
  <2>6. UNCHANGED <<vars, accepted, givenUp, cutShort, overwritten, spoilt>>
    BY <1>4, AppFrame
  <2>7. Chip' = Chip /\ Elements(accepted)' = Elements(accepted)
    BY <2>6, ChipSame DEF vars, Elements
  <2>8. Kept \subseteq Kept'
    BY <2>1, <2>4, <2>6, <2>7 DEF Kept
  <2>9. 1 .. built' = 1 .. built \cup {built + 1}
    BY <2>1, <2>2
  <2> QED
    BY <2>5, <2>8, <2>9 DEF Kept, Held
<1>5. CASE QueueSend \/ QueueSendTimesOut \/ Receive
  <2>1. /\ UNCHANGED <<vars, accepted, givenUp, cutShort, overwritten, spoilt>>
        /\ built' = built
    BY <1>5, AppFrame DEF QueueSend, QueueSendTimesOut, Receive, app
  <2>2. Chip' = Chip /\ Elements(accepted)' = Elements(accepted)
    BY <2>1, ChipSame DEF vars, Elements
  <2>3. CASE QueueSendTimesOut
    <3>1. /\ mqttQueue' = mqttQueue /\ msg' = msg
          /\ refused' = refused \cup {sending}
      BY <2>3 DEF QueueSendTimesOut, loop
    <3>2. Held \subseteq Held' \cup {sending}
      BY <3>1 DEF Held, InHand, InSend, Queued, Elements
    <3> QED
      BY <2>1, <2>2, <3>1, <3>2 DEF Kept
  <2>4. CASE QueueSend
    <3>1. /\ mqttQueue' = Append(mqttQueue, sending) /\ msg' = msg
          /\ refused' = refused /\ sending \in 1 .. built
          /\ mqttQueue \in Seq(1 .. built)
      BY <1>1, <2>4 DEF QueueSend, loop, QueueOK, NoMessage
    <3>2. Elements(Append(mqttQueue, sending)) = Queued \cup {sending}
      <4> DEFINE S == 1 .. built
      <4>1. sending \in S /\ mqttQueue \in Seq(S)
        BY <3>1
      <4> HIDE DEF S
      <4> QED
        BY <4>1, ElementsAppend DEF Queued
    <3>3. Queued' = Queued \cup {sending}
      BY <3>1, <3>2 DEF Queued, Elements
    <3>4. Held \subseteq Held'
      BY <3>1, <3>3 DEF Held, InHand, InSend
    <3> QED
      BY <2>1, <2>2, <3>1, <3>4 DEF Kept
  <2>5. CASE Receive
    <3>1. /\ mqttQueue' = Tail(mqttQueue) /\ msg' = Head(mqttQueue)
          /\ mqttQueue # <<>> /\ sending' = sending
          /\ refused' = refused /\ msg = 0
          /\ mqttQueue \in Seq(1 .. built)
      BY <1>1, <2>5 DEF Receive, Go, app, QueueOK, PlaceOK, NoMessage
    <3>2. /\ Head(mqttQueue) \in 1 .. built
          /\ Queued = Elements(Tail(mqttQueue)) \cup {Head(mqttQueue)}
      <4> DEFINE S == 1 .. built
      <4>1. mqttQueue \in Seq(S) /\ mqttQueue # <<>>
        BY <3>1
      <4> HIDE DEF S
      <4>2. /\ Head(mqttQueue) \in S
            /\ Queued = Elements(Tail(mqttQueue)) \cup {Head(mqttQueue)}
        BY <4>1, ElementsTail DEF Queued
      <4> QED
        BY <4>2 DEF S
    <3>3. Queued' = Elements(Tail(mqttQueue))
      BY <3>1 DEF Queued, Elements
    <3>4. Held \subseteq Held'
      BY <3>1, <3>2, <3>3 DEF Held, InHand, InSend, NoMessage
    <3> QED
      BY <2>1, <2>2, <3>1, <3>4 DEF Kept
  <2> QED
    BY <1>5, <2>3, <2>4, <2>5
<1>6. CASE Published
  <2>1. /\ at = "publish" /\ accepted' = Append(accepted, msg)
        /\ mqttQueue' = mqttQueue /\ flash' = flash
        /\ UNCHANGED <<built, sending, refused, givenUp, cutShort, overwritten,
                       spoilt>>
    BY <1>6 DEF Published, Go, vars, app, losses, power
  <2>2. msg \in 1 .. built
    BY <1>1, <2>1 DEF QueueOK, PlaceOK, NoMessage
  <2>3. Elements(accepted)' = Elements(accepted) \cup {msg}
    BY <1>1, <2>1, <2>2, AcceptedGrows
  <2>4. Held \subseteq Held' \cup {msg}
    BY <2>1 DEF Held, InHand, InSend, Queued, Elements
  <2> QED
    BY <2>1, <2>3, <2>4, ChipSame DEF Kept
<1>7. CASE \/ GiveUpSector \/ EnterSector \/ PassOver \/ MarkSkipped
           \/ MarkEntry \/ Resent
  <2>1. UNCHANGED <<built, refused, cutShort, mqttQueue, msg, sending>>
    BY <1>7 DEF GiveUpSector, EnterSector, PassOver, MarkSkipped, MarkEntry,
       Resent, app, loop, power
  <2>2. Held' = Held
    BY <2>1 DEF Held, InHand, InSend, Queued, Elements
  <2>3. CASE GiveUpSector \/ EnterSector \/ PassOver
    <3>1. /\ accepted' = accepted
          /\ givenUp \subseteq givenUp' /\ overwritten \subseteq overwritten'
          /\ spoilt \subseteq spoilt'
          /\ Chip \ Chip' \subseteq givenUp' \cup overwritten' \cup spoilt'
      BY <2>3 DEF GiveUpSector, EnterSector, PassOver, sent
    <3> QED
      BY <2>1, <2>2, <3>1 DEF Kept, Elements
  <2>4. CASE MarkSkipped
    BY <2>1, <2>2, <2>4, ChipSame
    DEF MarkSkipped, MarkFault, Settle, sent, losses, Kept, Elements
  <2>5. CASE MarkEntry
    <3>1. at = "mark" /\ UNCHANGED <<sent, losses>>
      BY <2>5 DEF MarkEntry, Go
    <3>2. entry \in Elements(accepted)
      BY <3>1 DEF TaskInv, MessageInv, MarkEarned
    <3>3. Chip' = Chip \ {entry}
      BY <2>5, MarkedLeaves
    <3> QED
      BY <2>1, <2>2, <3>1, <3>2, <3>3 DEF Kept, Elements, sent, losses
  <2>6. CASE Resent
    <3>1. /\ at = "resend" /\ accepted' = Append(accepted, entry)
          /\ flash' = flash /\ UNCHANGED losses
      BY <2>6 DEF Resent, Go, vars
    <3>2. entry \in 1 .. built \cup {Garbage}
      BY <3>1, EntryFact DEF TaskInv, Typed, ChipOK
    <3>3. Elements(accepted)' = Elements(accepted) \cup {entry}
      BY <1>1, <3>1, <3>2, AcceptedGrows
    <3> QED
      BY <2>1, <2>2, <3>1, <3>3, ChipSame DEF Kept, losses
  <2> QED
    BY <1>7, <2>3, <2>4, <2>5, <2>6
<1>8. CASE StoreMessage
  <2>1. /\ spoilt' = spoilt \cup ((Chip \cup {msg}) \ Chip')
        /\ mqttQueue' = mqttQueue /\ accepted' = accepted
        /\ UNCHANGED <<built, sending, refused, givenUp, cutShort, overwritten>>
    BY <1>8 DEF StoreMessage, app, sent, power
  <2>2. Held \subseteq Held' \cup {msg}
    BY <2>1 DEF Held, InHand, InSend, Queued, Elements
  <2> QED
    BY <2>1, <2>2 DEF Kept, Elements
<1>9. CASE PowerCut
  <2>1. /\ cutShort' = cutShort \cup ((InRam \cup Chip) \ Chip')
        /\ UNCHANGED <<built, refused, accepted, givenUp, overwritten, spoilt>>
    BY <1>9 DEF PowerCut, sent
  <2>2. Held \subseteq InRam
    <3>1. \A m \in Held : m # 0
      BY <1>1, HeldType
    <3> QED
      BY <3>1 DEF Held, InHand, InSend, Queued, InRam, NoMessage
  <2> QED
    BY <2>1, <2>2 DEF Kept, Elements
<1> QED
  BY <1>3, <1>4, <1>5, <1>6, <1>7, <1>8, <1>9, QuietOrNot

(***************************************************************************)
(* In an orderly history no message is spoilt and the store ascends.       *)
(***************************************************************************)
LEMMA StaysOrderly ==
  ASSUME TaskInv, [TaskNext]_allVars, orderly'
  PROVE  /\ orderly /\ EarlyInv /\ OrderlyInv
         /\ [EarlyCutNext]_vars
         /\ EarlyInv' /\ OrderlyInv'
<1>1. [Next]_vars
  BY StoreSteps DEF TaskInv, Typed
<1>2. orderly /\ [EarlyCutNext]_vars
  BY <1>1, OrderlySteps
<1>3. WhileOrderly /\ WhileOrderly'
  BY <1>1, WhileOrderlyStep DEF TaskInv, Sound
<1> QED
  BY <1>2, <1>3 DEF WhileOrderly, EarlyInv

LEMMA NoneSpoiltStep ==
  ASSUME TaskInv, [TaskNext]_allVars
  PROVE  NoneSpoilt'
<1> SUFFICES ASSUME orderly' PROVE overwritten' = {} /\ spoilt' = {}
  BY DEF NoneSpoilt
<1>1. orderly /\ OrderlyInv
  BY StaysOrderly
<1>2. overwritten = {} /\ spoilt = {}
  BY <1>1 DEF TaskInv, MessageInv, NoneSpoilt
<1>3. CASE EnterSector
  <2>1. Chip' = Chip
    BY <1>1, <1>3, WrapTakes DEF EnterSector
  <2> QED
    BY <1>2, <1>3, <2>1 DEF EnterSector
<1>4. CASE StoreMessage
  <2>1. ~ProgramFault
    BY DEF ProgramFault, Disturbed
  <2>2. ProgramEntry /\ pc = "program"
    BY <1>4, <2>1 DEF StoreMessage, ProgramEntry, ProgramTo
  <2>3. Chip' = Chip \cup {msg}
    BY <1>1, <2>2, ProgramArrives, ProgrammedIsMsg DEF TaskInv, Typed
  <2> QED
    BY <1>2, <1>4, <2>3 DEF StoreMessage
<1>5. CASE PassOver
  BY <1>1, <1>5, NothingToSkip
  DEF PassOver, ReadFault, SkipFault, Disturbed
<1>6. CASE \/ Published \/ GiveUpSector \/ Resent \/ MarkEntry \/ MarkSkipped
           \/ PowerCut
  BY <1>2, <1>6 DEF Published, GiveUpSector, Resent, MarkEntry, MarkSkipped,
     PowerCut, losses
<1>7. CASE Build \/ BuildFails \/ QueueSend \/ QueueSendTimesOut \/ Receive
  BY <1>2, <1>7, AppFrame
<1>8. CASE QuietTask
  BY <1>2, <1>8, QuietFrame DEF messageVars
<1> QED
  BY <1>3, <1>4, <1>5, <1>6, <1>7, <1>8, QuietOrNot

LEMMA StoreAscendsStep ==
  ASSUME TaskInv, [TaskNext]_allVars
  PROVE  StoreAscends'
<1> SUFFICES ASSUME orderly' PROVE Ascending(Contents')
  BY DEF StoreAscends, Ascending
<1>1. orderly /\ EarlyInv /\ OrderlyInv /\ [EarlyCutNext]_vars /\ OrderlyInv'
  BY StaysOrderly
<1>2. Contents \in Seq(Nat) /\ Ascending(Contents)
  <2>1. Contents \in Seq(Payload) /\ Payload \subseteq Nat
    BY <1>1, ContentsFact, CacheTaskAssumption DEF ContentsShape
  <2> QED
    BY <1>1, <2>1, SeqWiden DEF TaskInv, MessageInv, StoreAscends
<1>3. CASE Contents' = Contents
  BY <1>2, <1>3
<1>4. CASE pc = "program" /\ Contents' = Append(Contents, entry)
  <2>1. entry = msg /\ msg \in 1 .. built
    BY <1>4, ProgrammedIsMsg DEF TaskInv, Typed
  <2>2. entry \in Nat /\ entry \in InHand
    BY <2>1, BuiltFact DEF TaskInv, Typed, InHand, NoMessage
  <2>3. \A a \in Elements(Contents) : a < entry
    BY <1>1, <2>2, QueueIsChip DEF TaskInv, MessageInv, PastIsOlder, Past, Held
  <2> QED
    BY <1>2, <1>4, <2>2, <2>3, AscendingAppend
<1>5. CASE /\ Len(Contents) = Capacity
           /\ Contents' = SubSeq(Contents, SectorSlots + 1, Capacity)
  <2>1. SectorSlots \in 0 .. Len(Contents)
    BY <1>5, CapacityFact
  <2> QED
    BY <1>2, <1>5, <2>1, AscendingSuffix
<1>6. CASE Contents # <<>> /\ Contents' = Tail(Contents)
  BY <1>2, <1>6, AscendingTail
<1> QED
  BY <1>1, <1>3, <1>4, <1>5, <1>6, ContentsStep

(***************************************************************************)
(* An accepted message is marked, or left unmarked for a reason.           *)
(***************************************************************************)
LEMMA UnmarkedGrows ==
  ASSUME [TaskNext]_allVars
  PROVE  unmarked \subseteq unmarked'
<1>1. CASE QuietTask
  BY <1>1, QuietFrame DEF messageVars
<1>2. CASE Build \/ BuildFails \/ QueueSend \/ QueueSendTimesOut \/ Receive
  BY <1>2, AppFrame
<1>3. CASE \/ Published \/ GiveUpSector \/ EnterSector \/ StoreMessage
           \/ PassOver \/ Resent \/ MarkEntry \/ MarkSkipped \/ PowerCut
  BY <1>3 DEF Published, GiveUpSector, EnterSector, StoreMessage, PassOver,
     Resent, MarkEntry, MarkSkipped, PowerCut, power
<1> QED
  BY <1>1, <1>2, <1>3, QuietOrNot

LEMMA AcceptedGoneStep ==
  ASSUME TaskInv, [TaskNext]_allVars
  PROVE  AcceptedGone'
<1>1. AcceptedOK /\ PlaceOK /\ QueueOK /\ Sound /\ unmarked \subseteq unmarked'
  BY UnmarkedGrows DEF TaskInv, MessageInv, Typed
<1>2. Elements(accepted) \cap InHand = {}
  <2>1. InHand \subseteq Payload
    BY HeldType, MessageIsPayload DEF TaskInv, Typed, Held
  <2> QED
    BY <2>1, HandIsNew DEF TaskInv, MessageInv, Past
<1> SUFFICES ASSUME NEW m \in Elements(accepted)', m \in Chip'
             PROVE  m \in unmarked' \/ (at' = "mark" /\ m = entry')
  BY DEF AcceptedGone
<1>3. ASSUME m \in Elements(accepted), m \notin unmarked
      PROVE  m \in Chip /\ at = "mark" /\ m = entry
  <2>1. Chip' \subseteq Chip \cup InHand
    BY ChipGain DEF TaskInv
  <2> QED
    BY <1>2, <1>3, <2>1 DEF TaskInv, MessageInv, AcceptedGone
<1>4. CASE QuietTask
  <2>1. /\ Elements(accepted)' = Elements(accepted)
        /\ at = "mark" => at' = at /\ entry' = entry
    BY <1>4, QuietFrame DEF messageVars, Elements
  <2> QED
    BY <1>1, <1>3, <2>1
<1>5. CASE Build \/ BuildFails \/ QueueSend \/ QueueSendTimesOut \/ Receive
  <2>1. /\ Elements(accepted)' = Elements(accepted)
        /\ at = "mark" => at' = at /\ entry' = entry
    BY <1>5, AppFrame DEF vars, Elements
  <2> QED
    BY <1>1, <1>3, <2>1
<1>6. CASE Published
  <2>1. /\ at = "publish" /\ accepted' = Append(accepted, msg)
        /\ flash' = flash
    BY <1>6 DEF Published, Go, vars
  <2>2. msg \in 1 .. built /\ msg \in InHand
    BY <1>1, <2>1 DEF QueueOK, PlaceOK, InHand, NoMessage
  <2>3. Elements(accepted)' = Elements(accepted) \cup {msg}
    BY <1>1, <2>1, <2>2, AcceptedGrows
  <2>4. msg \notin Chip
    BY <2>2, HandIsNew DEF TaskInv, MessageInv, Past
  <2> QED
    BY <1>1, <1>3, <2>1, <2>3, <2>4, ChipSame
<1>7. CASE Resent
  <2>1. /\ at = "resend" /\ at' = "mark" /\ entry' = entry
        /\ accepted' = Append(accepted, entry)
    BY <1>7 DEF Resent, Go, vars
  <2>2. entry \in 1 .. built \cup {Garbage}
    BY <1>1, <2>1, EntryFact DEF TaskInv, Typed, ChipOK
  <2>3. Elements(accepted)' = Elements(accepted) \cup {entry}
    BY <1>1, <2>1, <2>2, AcceptedGrows
  <2> QED
    BY <1>1, <1>3, <2>1, <2>3
<1>8. CASE GiveUpSector \/ EnterSector \/ StoreMessage \/ PassOver
  <2>1. at # "mark" /\ accepted' = accepted
    BY <1>1, <1>8 DEF GiveUpSector, EnterSector, StoreMessage, PassOver, Go, sent
  <2> QED
    BY <1>1, <1>3, <2>1 DEF Elements
<1>9. CASE MarkEntry
  <2>1. accepted' = accepted /\ Chip' = Chip \ {entry}
    BY <1>9, MarkedLeaves DEF MarkEntry, sent
  <2> QED
    BY <1>1, <1>3, <2>1 DEF Elements
<1>10. CASE MarkSkipped \/ PowerCut
  <2>1. /\ accepted' = accepted
        /\ at = "mark" => entry \in unmarked'
    BY <1>10 DEF MarkSkipped, PowerCut, sent
  <2> QED
    BY <1>1, <1>3, <2>1 DEF Elements
<1> QED
  BY <1>4, <1>5, <1>6, <1>7, <1>8, <1>9, <1>10, QuietOrNot

LEMMA MarkEarnedStep ==
  ASSUME TaskInv, [TaskNext]_allVars
  PROVE  MarkEarned'
<1>1. MarkEarned /\ AcceptedOK
  BY DEF TaskInv, MessageInv
<1>2. CASE QuietTask
  <2>1. /\ Elements(accepted)' = Elements(accepted)
        /\ at' = "mark" => at' = at /\ entry' = entry
    BY <1>2, QuietFrame DEF messageVars, Elements
  <2> QED
    BY <1>1, <2>1 DEF MarkEarned
<1>3. CASE Build \/ BuildFails \/ QueueSend \/ QueueSendTimesOut \/ Receive
  <2>1. /\ Elements(accepted)' = Elements(accepted)
        /\ at' = "mark" => at' = at /\ entry' = entry
    BY <1>3, AppFrame DEF vars, Elements
  <2> QED
    BY <1>1, <2>1 DEF MarkEarned
<1>4. CASE Resent
  <2>1. /\ at = "resend" /\ entry' = entry
        /\ accepted' = Append(accepted, entry)
    BY <1>4 DEF Resent, Go, vars
  <2>2. entry \in 1 .. built \cup {Garbage}
    BY <2>1, EntryFact DEF TaskInv, Typed, ChipOK
  <2>3. Elements(accepted)' = Elements(accepted) \cup {entry}
    BY <1>1, <2>1, <2>2, AcceptedGrows
  <2> QED
    BY <2>1, <2>3 DEF MarkEarned
<1>5. CASE \/ Published \/ GiveUpSector \/ EnterSector \/ StoreMessage
           \/ PassOver \/ MarkEntry \/ MarkSkipped \/ PowerCut
  <2>1. at' # "mark"
    BY <1>5 DEF Published, GiveUpSector, EnterSector, StoreMessage, PassOver,
       MarkEntry, MarkSkipped, PowerCut, Go
  <2> QED
    BY <2>1 DEF MarkEarned
<1> QED
  BY <1>2, <1>3, <1>4, <1>5, QuietOrNot

(* A sequence that gets one more element repeats only that one.            *)
LEMMA RepeatsAppend ==
  ASSUME NEW S, NEW s \in Seq(S), NEW e \in S, NEW t, t = Append(s, e),
         NEW U, NEW V, U \subseteq V,
         \A i, j \in 1 .. Len(s) :
           i < j /\ s[i] = s[j] /\ s[i] \in Payload => s[i] \in U,
         e \in Elements(s) \cap Payload => e \in V
  PROVE  \A i, j \in 1 .. Len(t) :
           i < j /\ t[i] = t[j] /\ t[i] \in Payload => t[i] \in V
<1>1. Len(t) = Len(s) + 1
  OBVIOUS
<1>2. \A i \in 1 .. Len(s) : t[i] = s[i] /\ s[i] \in Elements(s)
  BY DEF Elements
<1>3. t[Len(s) + 1] = e
  OBVIOUS
<1>4. SUFFICES ASSUME NEW i \in 1 .. Len(t), NEW j \in 1 .. Len(t),
                      i < j, t[i] = t[j], t[i] \in Payload
               PROVE  t[i] \in V
  OBVIOUS
<1>5. i \in 1 .. Len(s)
  BY <1>1, <1>4
<1>6. CASE j = Len(s) + 1
  BY <1>2, <1>3, <1>4, <1>5, <1>6
<1>7. CASE j \in 1 .. Len(s)
  BY <1>2, <1>4, <1>5, <1>7
<1> QED
  BY <1>1, <1>6, <1>7

LEMMA AcceptedOnceStep ==
  ASSUME TaskInv, [TaskNext]_allVars
  PROVE  AcceptedOnce'
<1>1. /\ AcceptedOK /\ PlaceOK /\ QueueOK /\ Sound /\ AcceptedOnce
      /\ unmarked \subseteq unmarked'
  BY UnmarkedGrows DEF TaskInv, MessageInv, Typed
<1>2. CASE accepted' = accepted
  BY <1>1, <1>2 DEF AcceptedOnce
<1> DEFINE S == 1 .. built \cup {Garbage}
<1>3. accepted \in Seq(S)
  BY <1>1 DEF AcceptedOK
<1>4. CASE at = "publish" /\ accepted' = Append(accepted, msg)
  <2>1. msg \in S /\ msg \in InHand
    BY <1>1, <1>4 DEF QueueOK, PlaceOK, InHand, NoMessage
  <2>2. msg \notin Elements(accepted) \cap Payload
    BY <2>1, HandIsNew DEF TaskInv, MessageInv, Past
  <2>3. \A i, j \in 1 .. Len(accepted) :
          i < j /\ accepted[i] = accepted[j] /\ accepted[i] \in Payload
            => accepted[i] \in unmarked
    BY <1>1 DEF AcceptedOnce
  <2>4. msg \in S /\ unmarked \subseteq unmarked'
    BY <1>1, <2>1
  <2>5. msg \in Elements(accepted) \cap Payload => msg \in unmarked'
    BY <2>2
  <2> HIDE DEF S
  <2>6. \A i, j \in 1 .. Len(accepted') :
          i < j /\ accepted'[i] = accepted'[j] /\ accepted'[i] \in Payload
            => accepted'[i] \in unmarked'
    BY ONLY <1>3, <1>4, <2>3, <2>4, <2>5, RepeatsAppend
  <2> QED
    BY <2>6 DEF AcceptedOnce
<1>5. CASE at = "resend" /\ accepted' = Append(accepted, entry)
  <2>1. entry \in Chip \cup {Garbage} /\ entry \in S
    BY <1>1, <1>5, EntryFact DEF TaskInv, Typed, ChipOK
  <2>2. entry \in Elements(accepted) \cap Payload => entry \in unmarked'
    BY <1>1, <1>5, <2>1, MarksNoPayload DEF TaskInv, MessageInv, AcceptedGone
  <2>3. \A i, j \in 1 .. Len(accepted) :
          i < j /\ accepted[i] = accepted[j] /\ accepted[i] \in Payload
            => accepted[i] \in unmarked
    BY <1>1 DEF AcceptedOnce
  <2>4. entry \in S /\ unmarked \subseteq unmarked'
    BY <1>1, <2>1
  <2>5. entry \in Elements(accepted) \cap Payload => entry \in unmarked'
    BY <2>2
  <2> HIDE DEF S
  <2>6. \A i, j \in 1 .. Len(accepted') :
          i < j /\ accepted'[i] = accepted'[j] /\ accepted'[i] \in Payload
            => accepted'[i] \in unmarked'
    BY ONLY <1>3, <1>5, <2>3, <2>4, <2>5, RepeatsAppend
  <2> QED
    BY <2>6 DEF AcceptedOnce
<1> QED
  BY <1>2, <1>4, <1>5, AcceptedMoves

(***************************************************************************)
(* What is given up is counted.                                            *)
(***************************************************************************)
LEMMA GivenUpCountedStep ==
  ASSUME TaskInv, [TaskNext]_allVars
  PROVE  GivenUpCounted'
<1>1. GivenUpCounted /\ counted \in Nat
  BY DEF TaskInv, MessageInv, TalliesOK
<1>2. orderly' => orderly
  BY StaysOrderly
<1>3. CASE GiveUpSector
  <2> DEFINE gone == Chip \ Chip'
  <2>1. givenUp' = givenUp \cup gone /\ counted' = counted + SectorSlots
    BY <1>3 DEF GiveUpSector
  <2>2. IsFiniteSet(gone) /\ Cardinality(gone) <= SectorSlots
    BY <1>3, EraseTakes DEF GiveUpSector, TaskInv, Sound
  <2>3. givenUp \cap gone = {}
    BY DEF TaskInv, MessageInv, GivenUpGone
  <2>4. orderly' => Cardinality(gone) = SectorSlots
    BY <1>3, StaysOrderly, FullTakes DEF GiveUpSector, TaskInv, MessageInv
  <2> HIDE DEF gone
  <2>5. /\ IsFiniteSet(givenUp \cup gone)
        /\ Cardinality(givenUp \cup gone)
             = Cardinality(givenUp) + Cardinality(gone) - Cardinality({})
    BY <1>1, <2>2, <2>3, FS_Union DEF GivenUpCounted
  <2>6. Cardinality({}) = 0
    BY FS_EmptySet
  <2>7. /\ Cardinality(givenUp) \in Nat /\ Cardinality(gone) \in Nat
        /\ SectorSlots \in Nat
    BY <1>1, <2>2, FS_CardinalityType, CapacityFact DEF GivenUpCounted
  <2> QED
    BY <1>1, <1>2, <2>1, <2>2, <2>4, <2>5, <2>6, <2>7 DEF GivenUpCounted
<1>4. CASE \/ EnterSector \/ StoreMessage \/ PassOver \/ MarkEntry
           \/ MarkSkipped \/ PowerCut \/ Published \/ Resent
  BY <1>1, <1>2, <1>4 DEF EnterSector, StoreMessage, PassOver, MarkEntry,
     MarkSkipped, PowerCut, Published, Resent, losses, GivenUpCounted
<1>5. CASE Build \/ BuildFails \/ QueueSend \/ QueueSendTimesOut \/ Receive
  BY <1>1, <1>2, <1>5, AppFrame DEF GivenUpCounted
<1>6. CASE QuietTask
  BY <1>1, <1>2, <1>6, QuietFrame DEF messageVars, GivenUpCounted
<1> QED
  BY <1>3, <1>4, <1>5, <1>6, QuietOrNot

LEMMA TalliesOKStep ==
  ASSUME TaskInv, [TaskNext]_allVars
  PROVE  TalliesOK'
<1>1. TalliesOK /\ taken \in Nat /\ SectorSlots \in Nat
  BY CapacityFact DEF TaskInv, MessageInv, Sound, StoreInv, TypeOK
<1> USE DEF TalliesOK, sent, losses, power
<1>2. CASE GiveUpSector
  BY <1>1, <1>2 DEF GiveUpSector
<1>3. CASE SaveCount \/ TakeCount \/ ReportFails
  <2>1. /\ UNCHANGED <<reported, counted, uncounted, cuts>>
        /\ nvsFailed' \in {nvsFailed, TRUE}
    BY <1>3 DEF SaveCount, TakeCount, ReportFails
  <2> QED
    BY <1>1, <2>1
<1>4. CASE Reported
  BY <1>1, <1>4 DEF Reported
<1>5. CASE \/ ReceiveTimesOut \/ Route \/ PublishFails \/ WriteMessage \/ Edge
           \/ NoBackfill \/ ReadStore \/ Fetch \/ FindNothing \/ ResendFails
           \/ SetOnline \/ GapPasses \/ UNCHANGED allVars
  BY <1>1, <1>5 DEF ReceiveTimesOut, Route, PublishFails, WriteMessage, Edge,
     NoBackfill, ReadStore, Fetch, FindNothing, ResendFails, SetOnline,
     GapPasses, allVars, taskVars
<1>6. CASE Build \/ BuildFails \/ QueueSend \/ QueueSendTimesOut \/ Receive
  BY <1>1, <1>6, AppFrame
<1>7. CASE \/ Published \/ EnterSector \/ StoreMessage \/ PassOver \/ Resent
           \/ MarkEntry \/ MarkSkipped
  BY <1>1, <1>7 DEF Published, EnterSector, StoreMessage, PassOver, Resent,
     MarkEntry, MarkSkipped
<1>8. CASE PowerCut
  <2>1. nvsFailed' \in {nvsFailed, TRUE}
    BY <1>8 DEF PowerCut, Restart
  <2>2. /\ cuts < MaxCuts /\ cuts' = cuts + 1
        /\ uncounted' = uncounted + taken + ((overflow - nvsOverflow) % CounterMod)
        /\ UNCHANGED <<reported, counted>>
    BY <1>8 DEF PowerCut
  <2>3. (overflow - nvsOverflow) % CounterMod \in Nat
    BY CounterFact DEF TaskInv, Sound, StoreInv, TypeOK
  <2>4. MaxCuts \in Nat
    BY CacheTaskAssumption
  <2>5. cuts' \in 0 .. MaxCuts
    BY <1>1, <2>2, <2>4
  <2>6. uncounted' \in Nat
    BY <1>1, <2>2, <2>3
  <2> QED
    BY <1>1, <2>1, <2>2, <2>5, <2>6
<1> QED
  BY <1>2, <1>3, <1>4, <1>5, <1>6, <1>7, <1>8, QuietOrNot DEF QuietTask

(***************************************************************************)
(* The invariant of the loop, and what follows.                            *)
(***************************************************************************)
LEMMA TaskInvInit == TaskInit => TaskInv
<1> SUFFICES ASSUME TaskInit PROVE TaskInv
  OBVIOUS
<1> USE DEF TaskInit
<1>1. Sound /\ Typed
  BY TypedInit
<1>2. Chip = {}
  BY MarksNoPayload DEF Init, Chip
<1>3. Contents = <<>> /\ Elements(accepted) = {}
  BY DEF Init, Contents, Elements
<1>4. InHand = {} /\ InSend = {} /\ Queued = {}
  BY DEF InHand, InSend, Queued, Elements, NoMessage
<1>5. AcceptedOK /\ SetsOK
  <2>1. <<>> \in Seq(1 .. built \cup {Garbage})
    OBVIOUS
  <2> QED
    BY <2>1 DEF AcceptedOK, SetsOK
<1>6. TalliesOK
  <2>1. nvsFailed \in BOOLEAN
    OBVIOUS
  <2>2. /\ reported \in Nat /\ counted \in Nat /\ uncounted \in Nat
        /\ cuts \in 0 .. MaxCuts
    BY CacheTaskAssumption
  <2> QED
    BY <2>1, <2>2 DEF TalliesOK
<1>7. EachOnce
  BY MarksNoPayload DEF EachOnce, Init
<1>8. FreshInOrder /\ PastIsOlder
  BY <1>4 DEF FreshInOrder, PastIsOlder, Held, Ascending
<1>9. GivenUpGone /\ GivenUpCounted
  BY FS_EmptySet DEF GivenUpGone, GivenUpCounted
<1>10. AllKept /\ NoneSpoilt
  BY DEF AllKept, NoneSpoilt
<1>11. StoreAscends
  BY <1>3 DEF StoreAscends, Ascending
<1>12. AcceptedGone /\ MarkEarned /\ AcceptedOnce
  BY <1>3 DEF AcceptedGone, MarkEarned, AcceptedOnce
<1> QED
  BY <1>1, <1>5, <1>6, <1>7, <1>8, <1>9, <1>10, <1>11, <1>12
  DEF TaskInv, MessageInv

LEMMA TaskInvStep == TaskInv /\ [TaskNext]_allVars => TaskInv'
<1> SUFFICES ASSUME TaskInv, [TaskNext]_allVars PROVE TaskInv'
  OBVIOUS
<1>1. Sound' /\ Typed'
  BY TypedStep DEF TaskInv
<1>2. AcceptedOK' /\ SetsOK' /\ TalliesOK'
  BY AcceptedOKStep, SetsOKStep, TalliesOKStep DEF TaskInv, MessageInv
<1>3. EachOnce' /\ FreshInOrder' /\ PastIsOlder'
  BY EachOnceStep, FreshStep, PastStep DEF TaskInv, MessageInv, Typed
<1>4. GivenUpGone' /\ GivenUpCounted' /\ AllKept'
  BY GivenUpGoneStep, GivenUpCountedStep, KeptStep
<1>5. NoneSpoilt' /\ StoreAscends'
  BY NoneSpoiltStep, StoreAscendsStep
<1>6. AcceptedGone' /\ MarkEarned' /\ AcceptedOnce'
  BY AcceptedGoneStep, MarkEarnedStep, AcceptedOnceStep
<1> QED
  BY <1>1, <1>2, <1>3, <1>4, <1>5, <1>6 DEF TaskInv, MessageInv

(* The inductive invariant of the loop over the ring, whatever fails.      *)
THEOREM TaskInvariant == TaskSpec => []TaskInv
<1> QED
  BY TaskInvInit, TaskInvStep, PTL DEF TaskSpec

(* Every variable of the loop stays in its range, a message is held just   *)
(* where cache_task holds one, and the histories name built messages only. *)
THEOREM TaskTypeCorrect == TaskSpec => [](TaskTypeOK /\ HistoryTypeOK)
<1>1. TaskInv => TaskTypeOK /\ HistoryTypeOK
  BY TypedIsType DEF TaskInv, MessageInv, AcceptedOK, SetsOK, TalliesOK,
     HistoryTypeOK
<1> QED
  BY <1>1, TaskInvariant, PTL

(* In an orderly history all that waits ascends as one sequence.           *)
LEMMA InvOrder == TaskInv => OrderKept
<1> SUFFICES ASSUME TaskInv PROVE OrderKept
  OBVIOUS
<1>1. /\ Fresh \in Seq(1 .. built) /\ Elements(Fresh) = Held
      /\ Ascending(Fresh)
  BY FreshFact DEF TaskInv, Typed, MessageInv
<1>2. \A m \in Chip, n \in Elements(Fresh) : m < n
  BY <1>1 DEF TaskInv, MessageInv, PastIsOlder, Past
<1>3. ASSUME orderly PROVE Ascending(Waiting)
  <2>1. OrderlyInv
    BY <1>3 DEF TaskInv, Sound, WhileOrderly, EarlyInv
  <2>2. Contents \in Seq(Payload) /\ Elements(Contents) = Chip
    BY <2>1, ContentsFact, QueueIsChip DEF ContentsShape
  <2>3. Contents \in Seq(Nat) /\ Fresh \in Seq(Nat)
    <3>1. Payload \subseteq Nat /\ 1 .. built \subseteq Nat
      BY CacheTaskAssumption, BuiltFact DEF TaskInv, Typed
    <3> QED
      BY <1>1, <2>2, <3>1, SeqWiden
  <2>4. Before(Contents, Fresh)
    BY <1>2, <2>2 DEF Before
  <2>5. Ascending(Contents)
    BY <1>3 DEF TaskInv, MessageInv, StoreAscends
  <2> QED
    BY <1>1, <2>3, <2>4, <2>5, ConcatenationOrder DEF Waiting
<1> QED
  BY <1>1, <1>2, <1>3 DEF OrderKept

(* Store and forward keeps the order of the messages across the queue, the *)
(* task's hands and the ring (cache_task.c:175-235).                       *)
THEOREM KeepsOrder == TaskSpec => []OrderKept
<1> QED
  BY TaskInvariant, InvOrder, PTL

LEMMA InvForgets == TaskInv => NothingForgotten
<1> SUFFICES ASSUME TaskInv, NEW m \in 1 .. built
             PROVE  \/ m \in IF orderly THEN Elements(Waiting)
                             ELSE Chip \cup Elements(Fresh)
                    \/ m \in Elements(accepted)
                    \/ m \in refused \cup givenUp \cup cutShort
                    \/ ~orderly /\ m \in overwritten \cup spoilt
  BY DEF NothingForgotten
<1>1. m \in Kept
  BY DEF TaskInv, MessageInv, AllKept
<1>2. Fresh \in Seq(1 .. built) /\ Elements(Fresh) = Held
  BY FreshFact DEF TaskInv, Typed
<1>3. ASSUME orderly PROVE Elements(Waiting) = Chip \cup Held
  <2>1. OrderlyInv
    BY <1>3 DEF TaskInv, Sound, WhileOrderly, EarlyInv
  <2>2. Contents \in Seq(Payload) /\ Elements(Contents) = Chip
    BY <2>1, ContentsFact, QueueIsChip DEF ContentsShape
  <2>3. 1 .. built \subseteq Payload
    BY MessageIsPayload DEF TaskInv, Typed
  <2>4. Fresh \in Seq(Payload)
    BY <1>2, <2>3, SeqWiden
  <2> QED
    BY <1>2, <2>2, <2>4, Concatenation DEF Waiting
<1>4. orderly => overwritten = {} /\ spoilt = {}
  BY DEF TaskInv, MessageInv, NoneSpoilt
<1> QED
  BY <1>1, <1>2, <1>3, <1>4 DEF Kept

(* No message disappears without a trace, whatever the power, the driver   *)
(* and the ring do; in an orderly history none is lost to an erase of a    *)
(* ring that is not full or to a skipped program.                          *)
THEOREM ForgetsNothing == TaskSpec => []NothingForgotten
<1> QED
  BY TaskInvariant, InvForgets, PTL

(* A message is accepted twice only when a cut or a driver without memory  *)
(* came between its publish and its mark.                                  *)
THEOREM AcceptsOnce == TaskSpec => []AcceptedOnce
<1>1. TaskInv => AcceptedOnce
  BY DEF TaskInv, MessageInv
<1> QED
  BY <1>1, TaskInvariant, PTL

(***************************************************************************)
(* The losses, counted modulo the width of the counter.                    *)
(***************************************************************************)
(* A sum reduced on the way is reduced all the same.                       *)
LEMMA CounterSum ==
  ASSUME NEW a \in Nat, NEW b \in Nat
  PROVE  ((a % CounterMod) + b) % CounterMod = (a + b) % CounterMod
<1> DEFINE s == CounterMod
           q == a \div s
           r == a % s
           c == r + b
           p == c \div s
           t == c % s
<1>1. s \in Nat \ {0}
  BY GeometryAssumption
<1> HIDE DEF s
<1>2. r \in 0 .. s - 1 /\ q \in Nat /\ a = s * q + r
  BY <1>1, DivModFact
<1> HIDE DEF q, r
<1>3. c \in Nat
  BY <1>1, <1>2
<1>4. t \in 0 .. s - 1 /\ p \in Nat /\ c = s * p + t
  BY <1>1, <1>3, DivModFact
<1>5. c = r + b
  OBVIOUS
<1> HIDE DEF c, p, t
<1>6. a + b = s * (q + p) + t
  <2>1. s * q \in Nat /\ s * p \in Nat /\ s * (q + p) = s * q + s * p
    BY <1>1, <1>2, <1>4
  <2> DEFINE sq == s * q
             sp == s * p
             sqp == s * (q + p)
  <2> HIDE DEF sq, sp, sqp
  <2>2. /\ sq \in Nat /\ sp \in Nat /\ sqp = sq + sp
        /\ a = sq + r /\ c = sp + t
    BY <2>1, <1>2, <1>4 DEF sq, sp, sqp
  <2>3. a + b = sqp + t
    BY <2>2, <1>1, <1>2, <1>4, <1>5
  <2> QED
    BY <2>3 DEF sqp
<1>7. q + p \in Nat
  BY <1>2, <1>4
<1>8. (s * (q + p) + t) % s = t
  BY <1>1, <1>4, <1>7, RemainderUnique
<1>9. (a + b) % s = c % s
  BY <1>6, <1>8 DEF t
<1> QED
  BY <1>9 DEF c, r, s

LEMMA CounterBelow ==
  ASSUME NEW a \in 0 .. CounterMod - 1
  PROVE  a % CounterMod = a
<1>1. CounterMod \in Nat \ {0}
  BY GeometryAssumption
<1>2. (CounterMod * 0 + a) % CounterMod = a
  BY <1>1, RemainderUnique
<1> QED
  BY <1>1, <1>2

(* What NVS says and what it lacks make what RAM said.                     *)
LEMMA CounterLack ==
  ASSUME NEW o \in 0 .. CounterMod - 1, NEW n \in 0 .. CounterMod - 1,
         NEW b \in Nat
  PROVE  (n + b + ((o - n) % CounterMod)) % CounterMod = (o + b) % CounterMod
<1> DEFINE s == CounterMod
           x == o - n
           q == x \div s
           r == x % s
<1>1. s \in Nat \ {0} /\ o \in 0 .. s - 1 /\ n \in 0 .. s - 1
  BY GeometryAssumption
<1>2. CASE n <= o
  <2>1. x \in 0 .. CounterMod - 1
    BY <1>1, <1>2
  <2>2. x % CounterMod = x
    BY <2>1, CounterBelow
  <2>3. n + b + x = o + b
    BY <1>1
  <2> QED
    BY <2>2, <2>3
<1>3. CASE o < n
  <2>1. x \in Int /\ x < 0 /\ x > 0 - s
    BY <1>1, <1>3
  <2> HIDE DEF s, x
  <2>2. q \in Int /\ r \in 0 .. s - 1 /\ x = s * q + r
    BY <1>1, <2>1
  <2> HIDE DEF q, r
  <2>3. q = -1
    <3> DEFINE y == s * q
    <3>1. q >= 0 => y >= 0
      BY <1>1, <2>2
    <3>2. q <= -2 => y <= 0 - s - s
      BY <1>1, <2>2
    <3>3. y \in Int /\ x = y + r
      BY <1>1, <2>2
    <3> HIDE DEF y
    <3>4. ~(q >= 0)
      BY <1>1, <2>1, <2>2, <3>1, <3>3
    <3>5. ~(q <= -2)
      BY <1>1, <2>1, <2>2, <3>2, <3>3
    <3> QED
      BY <2>2, <3>4, <3>5
  <2>4. r = x + s
    BY <1>1, <2>1, <2>2, <2>3
  <2>5. n + b + r = s + (o + b)
    BY <1>1, <2>4 DEF x
  <2>6. s % s = 0
    <3>1. (s * 1 + 0) % s = 0
      BY <1>1, RemainderUnique
    <3> QED
      BY <1>1, <3>1
  <2>7. ((s % s) + (o + b)) % s = (s + (o + b)) % s
    <3>1. o + b \in Nat /\ s \in Nat
      BY <1>1
    <3> QED
      BY <3>1, CounterSum DEF s
  <2>8. (n + b + r) % s = (o + b) % s
    BY <1>1, <2>5, <2>6, <2>7
  <2> QED
    BY <2>8 DEF r, x, s
<1> QED
  BY <1>1, <1>2, <1>3

CountMatches ==
  ~nvsFailed =>
    (overflow + taken + reported + uncounted) % CounterMod
      = counted % CounterMod

(* The steps that leave every count alone.                                 *)
tallies == <<overflow, taken, reported, uncounted, counted>>

LEMMA CountFrame ==
  ASSUME [TaskNext]_allVars
  PROVE  \/ GiveUpSector \/ TakeCount \/ Reported \/ ReportFails \/ PowerCut
         \/ UNCHANGED tallies /\ nvsFailed' \in {nvsFailed, TRUE}
<1> USE DEF tallies, sent, losses, power, vars, ram
<1>1. CASE \/ ReceiveTimesOut \/ Route \/ Published \/ PublishFails \/ Edge
           \/ NoBackfill \/ Resent \/ SetOnline \/ GapPasses
           \/ UNCHANGED allVars
  BY <1>1 DEF ReceiveTimesOut, Route, Published, PublishFails, Edge,
     NoBackfill, Resent, SetOnline, GapPasses, allVars, taskVars
<1>2. CASE Build \/ BuildFails \/ QueueSend \/ QueueSendTimesOut \/ Receive
  BY <1>2, AppFrame
<1>3. CASE WriteMessage
  BY <1>3 DEF WriteMessage, WriteBegin
<1>4. CASE SaveCount
  BY <1>4 DEF SaveCount, PersistOverflow, PersistFault, Persist
<1>5. CASE EnterSector \/ StoreMessage
  BY <1>5 DEF EnterSector, EraseWrap, StoreMessage, ProgramEntry, ProgramFault,
     ProgramTo
<1>6. CASE ReadStore \/ Fetch \/ FindNothing
  BY <1>6 DEF ReadStore, ReadBegin, Fetch, ReadHit, FindNothing, ReadEmpty
<1>7. CASE PassOver
  BY <1>7 DEF PassOver, ReadSkip, ReadFault, SkipFault, Skip
<1>8. CASE ResendFails \/ MarkEntry \/ MarkSkipped
  BY <1>8 DEF ResendFails, PublishFailed, MarkEntry, MarkSent, MarkSkipped,
     MarkFault, Settle
<1> QED
  BY <1>1, <1>2, <1>3, <1>4, <1>5, <1>6, <1>7, <1>8
  DEF TaskNext, AppTask, CacheTask

LEMMA CountMatchesStep ==
  ASSUME TaskInv, CountMatches, [TaskNext]_allVars
  PROVE  CountMatches'
<1> SUFFICES ASSUME ~nvsFailed'
             PROVE  (overflow' + taken' + reported' + uncounted') % CounterMod
                      = counted' % CounterMod
  BY DEF CountMatches
<1>1. /\ overflow \in 0 .. CounterMod - 1 /\ nvsOverflow \in 0 .. CounterMod - 1
      /\ taken \in 0 .. CounterMod - 1
      /\ reported \in Nat /\ counted \in Nat /\ uncounted \in Nat
      /\ SectorSlots \in Nat /\ CounterMod \in Nat
  BY CapacityFact, GeometryAssumption
  DEF TaskInv, MessageInv, Sound, StoreInv, TypeOK, TalliesOK
<1> DEFINE rest == taken + reported + uncounted
           seen == overflow + rest
<1>2. /\ rest \in Nat /\ seen \in Nat /\ overflow \in Nat /\ taken \in Nat
      /\ overflow + taken + reported + uncounted = seen
  BY <1>1
<1>3. ~nvsFailed => seen % CounterMod = counted % CounterMod
  BY <1>2 DEF CountMatches
<1>4. CASE UNCHANGED tallies /\ nvsFailed' \in {nvsFailed, TRUE}
  BY <1>2, <1>3, <1>4 DEF tallies
<1>5. CASE GiveUpSector
  <2>1. /\ overflow' = (overflow + SectorSlots) % CounterMod
        /\ counted' = counted + SectorSlots /\ nvsFailed' = nvsFailed
        /\ UNCHANGED <<taken, reported, uncounted>>
    BY <1>5 DEF GiveUpSector, EraseFull, DropSector, sent, power
  <2>2. /\ overflow' \in Nat
        /\ seen % CounterMod = counted % CounterMod
    BY <1>1, <1>3, <2>1, CounterFact
  <2>3. overflow' + taken' + reported' + uncounted' = overflow' + rest
    BY <1>1, <2>1, <2>2
  <2> HIDE DEF rest
  <2>4. (((overflow + SectorSlots) % CounterMod) + rest) % CounterMod
          = ((overflow + SectorSlots) + rest) % CounterMod
    <3>1. overflow + SectorSlots \in Nat
      BY <1>1
    <3> QED
      BY <3>1, <1>2, CounterSum
  <2>5. (overflow + SectorSlots) + rest = seen + SectorSlots
    BY <1>1, <1>2
  <2> HIDE DEF seen
  <2>6. (seen + SectorSlots) % CounterMod = (counted + SectorSlots) % CounterMod
    <3>1. seen \in Nat /\ counted \in Nat /\ SectorSlots \in Nat
      BY <1>1, <1>2
    <3>2. ((seen % CounterMod) + SectorSlots) % CounterMod
            = (seen + SectorSlots) % CounterMod
      BY <3>1, CounterSum
    <3>3. ((counted % CounterMod) + SectorSlots) % CounterMod
            = (counted + SectorSlots) % CounterMod
      BY <3>1, CounterSum
    <3> QED
      BY <2>2, <3>2, <3>3
  <2> QED
    BY <2>1, <2>3, <2>4, <2>5, <2>6
<1>6. CASE TakeCount
  <2>1. TakeOverflow /\ UNCHANGED nvsFailed
    BY <1>6 DEF TakeCount
  <2>2. /\ taken' = overflow /\ overflow' = 0 /\ pc = "idle"
        /\ UNCHANGED <<reported, uncounted, counted>>
    BY <1>6, <2>1 DEF TakeOverflow, Take, TakeCount, sent, power
  <2>3. taken = 0
    BY <2>2 DEF TaskInv, Sound, TakenShape
  <2>4. overflow' + taken' + reported' + uncounted' = seen
    BY <1>1, <2>2, <2>3
  <2> QED
    BY <1>3, <2>1, <2>2, <2>4
<1>7. CASE Reported
  <2>1. /\ taken' = 0 /\ reported' = reported + taken
        /\ UNCHANGED <<overflow, uncounted, counted, nvsFailed>>
    BY <1>7 DEF Reported, OverflowReported, losses, power, ram
  <2>2. overflow' + taken' + reported' + uncounted' = seen
    BY <1>1, <2>1
  <2> QED
    BY <1>3, <2>1, <2>2
<1>8. CASE ReportFails
  <2>1. GiveBackOverflow /\ UNCHANGED nvsFailed
    BY <1>8 DEF ReportFails
  <2>2. /\ overflow' = (overflow + taken) % CounterMod /\ taken' = 0
        /\ UNCHANGED <<reported, uncounted, counted>>
    BY <1>8, <2>1 DEF GiveBackOverflow, GiveBack, ReportFails, sent, power
  <2>3. overflow' \in Nat
    BY <1>1, <2>2, CounterFact
  <2>4. /\ overflow' + taken' + reported' + uncounted'
             = overflow' + (reported + uncounted)
        /\ reported + uncounted \in Nat /\ overflow + taken \in Nat
        /\ (overflow + taken) + (reported + uncounted) = seen
    BY <1>1, <2>2, <2>3
  <2>5. (((overflow + taken) % CounterMod) + (reported + uncounted)) % CounterMod
          = ((overflow + taken) + (reported + uncounted)) % CounterMod
    BY <2>4, CounterSum
  <2> QED
    BY <1>3, <2>1, <2>2, <2>4, <2>5
<1>9. CASE PowerCut
  <2>1. /\ nvsFailed' = nvsFailed
        /\ overflow' = nvsOverflow /\ taken' = 0
    <3>1. Restart
      BY <1>9 DEF PowerCut
    <3>2. CASE CleanCut /\ UNCHANGED nvsFailed
      BY <3>2 DEF CleanCut, Boot, Reset, Scan
    <3>3. CASE TornCut /\ UNCHANGED nvsFailed
      BY <3>3 DEF TornCut, Boot, Reset, Scan
    <3>4. CASE \E f \in CutImages : BootScanFault(f) /\ UNCHANGED nvsFailed
      BY <3>4 DEF BootScanFault, Reset, Scan
    <3> QED
      BY <3>1, <3>2, <3>3, <3>4 DEF Restart
  <2>2. /\ uncounted' = uncounted + taken
                          + ((overflow - nvsOverflow) % CounterMod)
        /\ UNCHANGED <<reported, counted>>
    BY <1>9 DEF PowerCut, sent
  <2> DEFINE lack == (overflow - nvsOverflow) % CounterMod
  <2>3. lack \in Nat
    BY <1>1, CounterFact
  <2>4. (nvsOverflow + rest + lack) % CounterMod
          = (overflow + rest) % CounterMod
    <3> HIDE DEF rest
    <3> QED
      BY <1>1, <1>2, CounterLack
  <2> HIDE DEF lack
  <2>5. overflow' + taken' + reported' + uncounted' = nvsOverflow + rest + lack
    BY <1>1, <2>1, <2>2, <2>3 DEF lack
  <2> QED
    BY <1>3, <2>1, <2>2, <2>4, <2>5
<1> QED
  BY <1>4, <1>5, <1>6, <1>7, <1>8, <1>9, CountFrame

(* While NVS works, what was counted is in the counter, in the report      *)
(* under way, reported, or met a cut in RAM; and the counter is never less *)
(* than what the full store gave up, just that in an orderly history.      *)
THEOREM CountsLosses == TaskSpec => []LossesCounted
<1>1. TaskInit => CountMatches
  BY DEF TaskInit, Init, CountMatches
<1>2. TaskInv /\ CountMatches /\ [TaskNext]_allVars => CountMatches'
  BY CountMatchesStep
<1>3. TaskInv /\ CountMatches => LossesCounted
  BY DEF TaskInv, MessageInv, GivenUpCounted, CountMatches, LossesCounted
<1> QED
  BY <1>1, <1>2, <1>3, TaskInvariant, PTL DEF TaskSpec

-----------------------------------------------------------------------------
(***************************************************************************)
(* The gateway: mqtt_app_publish answers as CacheTask lets it, and the     *)
(* state machine does nothing to the loop but set s_online.                *)
(***************************************************************************)
LEMMA PublishSteps ==
  ASSUME Publish
  PROVE  CacheTask \/ UNCHANGED allVars
<1>1. Succeeds \/ Refused => CacheTask
  BY DEF Succeeds, Refused, CacheTask
<1>2. CASE NotReady
  BY <1>1, <1>2 DEF NotReady
<1>3. CASE TestClient
  BY <1>3 DEF TestClient
<1>4. CASE CallClient
  BY <1>1, <1>4 DEF CallClient, Accepts, Refuses, CallsDestroyed
<1> QED
  BY <1>2, <1>3, <1>4 DEF Publish

LEMMA LoopSteps ==
  ASSUME Loop
  PROVE  AppTask \/ CacheTask \/ GapPasses
  BY DEF Loop, CacheTask

LEMMA OnlineSteps ==
  ASSUME online \in BOOLEAN, online' \in BOOLEAN, UNCHANGED Others
  PROVE  SetOnline \/ UNCHANGED allVars
<1>1. CASE online' = online
  BY <1>1 DEF Others, allVars, taskVars
<1>2. CASE online' # online
  <2>1. online' = ~online
    BY <1>2
  <2> QED
    BY <2>1 DEF Others, SetOnline
<1> QED
  BY <1>1, <1>2

LEMMA MachineSteps ==
  ASSUME online \in BOOLEAN, StateMachine \/ ClientTurns
  PROVE  (SetOnline \/ UNCHANGED allVars) /\ online' \in BOOLEAN
<1>1. CASE HandleCleared
  BY <1>1 DEF HandleCleared, allVars, taskVars
<1>2. CASE AppStart \/ GoOnline \/ GoOffline \/ ClientDestroyed \/ ClientTurns
  <2>1. online' \in BOOLEAN
    BY <1>2 DEF AppStart, GoOnline, GoOffline, ClientDestroyed, ClientTurns,
       Life!Start, Life!GoOnline, Life!GoOffline, Life!Destroy, Life!Join,
       Life!Lose, Life!Turn
  <2>2. UNCHANGED Others
    BY <1>2 DEF AppStart, GoOnline, GoOffline, ClientDestroyed, ClientTurns,
       Others
  <2> QED
    BY <2>1, <2>2, OnlineSteps
<1> QED
  BY <1>1, <1>2 DEF StateMachine

LEMMA LoopStep ==
  ASSUME online \in BOOLEAN, [GatewayNext]_gatewayVars
  PROVE  [TaskNext]_allVars
<1>1. CASE Loop
  BY <1>1, LoopSteps DEF TaskNext
<1>2. CASE Publish
  BY <1>2, PublishSteps DEF TaskNext
<1>3. CASE StateMachine \/ ClientTurns
  BY <1>3, MachineSteps DEF TaskNext
<1>4. CASE Acknowledged
  BY <1>4 DEF Acknowledged
<1>5. CASE Blackout
  BY <1>5 DEF Blackout, TaskNext
<1>6. CASE UNCHANGED gatewayVars
  BY <1>6 DEF gatewayVars
<1> QED
  BY <1>1, <1>2, <1>3, <1>4, <1>5, <1>6 DEF GatewayNext

LEMMA InvOnline == TaskInv => online \in BOOLEAN
  BY DEF TaskInv, Typed, FlagsOK

LEMMA GatewayLoopStep ==
  TaskInv /\ [GatewayNext]_gatewayVars => TaskInv' /\ [TaskNext]_allVars
  BY InvOnline, LoopStep, TaskInvStep

(* So what holds of the loop under any client holds of the gateway.        *)
LEMMA GatewayRunsTheLoop == GatewaySpec => TaskSpec
<1>1. GatewayInit => TaskInit
  BY DEF GatewayInit
<1> QED
  BY <1>1, TaskInvInit, GatewayLoopStep, PTL DEF GatewaySpec, TaskSpec

(***************************************************************************)
(* Types: the client, and what it keeps.                                   *)
(***************************************************************************)
ClientOK ==
  /\ conn \in {"none", "connecting", "connected", "lost"}
  /\ sClient \in {NULL, Latest}
  /\ exists \in BOOLEAN
  /\ exists <=> conn # "none"
  /\ exists => sClient # NULL
  /\ tested \in {NULL, Latest, Former}
  /\ tested # NULL => Publishing
  /\ online => exists

Items == [message : 0 .. built \cup {Garbage}, losses : 0 .. CounterMod - 1]
BoxOK ==
  /\ outbox \in Seq(Items)
  /\ outbox # <<>> => exists
  /\ delivered \subseteq 1 .. built
  /\ dropped \subseteq 1 .. built

LEMMA GatewayParts == GatewayTypeOK <=> ClientOK /\ BoxOK
  BY DEF GatewayTypeOK, ClientOK, BoxOK, Items

LEMMA GatewayPartsNext == GatewayTypeOK' <=> ClientOK' /\ BoxOK'
  BY DEF GatewayTypeOK, ClientOK, BoxOK, Items

(* The loop leaves s_online alone, and works on elsewhere only when it is  *)
(* not inside mqtt_app_publish.                                            *)
LEMMA LoopQuiet ==
  ASSUME Loop
  PROVE  /\ online' = online /\ (Publishing => Publishing')
         /\ accepted' = accepted /\ reported' = reported
<1> USE DEF Go, Publishing, sent
<1>1. CASE AppTask \/ Receive \/ ReceiveTimesOut \/ Route
  BY <1>1 DEF AppTask, Build, BuildFails, QueueSend, QueueSendTimesOut,
     Receive, ReceiveTimesOut, Route
<1>2. CASE \/ WriteMessage \/ GiveUpSector \/ SaveCount \/ EnterSector
           \/ StoreMessage \/ Edge \/ TakeCount
  BY <1>2 DEF WriteMessage, GiveUpSector, SaveCount, EnterSector,
     StoreMessage, Edge, TakeCount
<1>3. CASE \/ NoBackfill \/ ReadStore \/ Fetch \/ PassOver \/ FindNothing
           \/ MarkEntry \/ MarkSkipped \/ GapPasses
  BY <1>3 DEF NoBackfill, ReadStore, Fetch, PassOver, FindNothing, MarkEntry,
     MarkSkipped, GapPasses
<1> QED
  BY <1>1, <1>2, <1>3 DEF Loop

LEMMA PublishQuiet ==
  ASSUME Succeeds \/ Refused
  PROVE  online' = online /\ built' = built
  BY DEF Succeeds, Refused, Published, Reported, Resent, PublishFails,
     ReportFails, ResendFails, app

LEMMA ClientOKStep ==
  ASSUME ClientOK, [GatewayNext]_gatewayVars
  PROVE  ClientOK'
<1> USE DEF ClientOK, client, NULL, Latest, Former
<1>1. CASE Loop
  BY <1>1, LoopQuiet DEF Loop
<1>2. CASE NotReady
  BY <1>2, PublishQuiet DEF NotReady
<1>3. CASE TestClient
  BY <1>3 DEF TestClient, allVars, taskVars, Publishing
<1>4. CASE CallClient
  BY <1>4, PublishQuiet DEF CallClient, Accepts, Refuses, CallsDestroyed
<1>5. CASE AppStart
  BY <1>5 DEF AppStart, Life!Start, Others, Publishing
<1>6. CASE GoOnline \/ GoOffline
  BY <1>6 DEF GoOnline, GoOffline, Life!GoOnline, Life!GoOffline, Others,
     Publishing
<1>7. CASE ClientDestroyed
  BY <1>7 DEF ClientDestroyed, Life!Destroy, Others, Publishing
<1>8. CASE HandleCleared
  BY <1>8 DEF HandleCleared, allVars, taskVars, Publishing
<1>9. CASE ClientTurns
  BY <1>9 DEF ClientTurns, Life!Join, Life!Lose, Life!Turn, Others, Publishing
<1>10. CASE Acknowledged \/ UNCHANGED gatewayVars
  BY <1>10 DEF Acknowledged, gatewayVars, allVars, taskVars, Publishing
<1>11. CASE Blackout
  BY <1>11 DEF Blackout, PowerCut
<1> QED
  BY <1>1, <1>2, <1>3, <1>4, <1>5, <1>6, <1>7, <1>8, <1>9, <1>10, <1>11
     DEF GatewayNext, Publish, StateMachine

(* What the loop offers to the client.                                     *)
LEMMA OfferedFact ==
  ASSUME TaskInv, Publishing
  PROVE  /\ Offered \in Items
         /\ at = "publish" => Offered.message = msg /\ Offered.losses = 0
         /\ at = "reporting" =>
              Offered.message \notin Payload /\ Offered.losses = taken
         /\ at = "resend" => Offered.message = entry /\ Offered.losses = 0
<1>1. /\ built \in Nat /\ 0 \in 0 .. CounterMod - 1 /\ CounterMod \in Nat
      /\ 0 \notin Payload
  BY BuiltFact, GeometryAssumption, CacheTaskAssumption DEF TaskInv, Typed
<1>2. CASE at = "publish"
  <2>1. msg \in 0 .. built /\ Offered = Item(msg, 0)
    BY <1>2 DEF TaskInv, Typed, QueueOK, Offered
  <2> QED
    BY <1>1, <1>2, <2>1 DEF Item, Items
<1>3. CASE at = "reporting"
  <2>1. taken \in 0 .. CounterMod - 1 /\ Offered = Item(0, taken)
    BY <1>3 DEF TaskInv, Sound, StoreInv, TypeOK, Offered, NoMessage
  <2> QED
    BY <1>1, <1>3, <2>1 DEF Item, Items
<1>4. CASE at = "resend"
  <2>1. entry \in Chip \cup {Garbage}
    BY <1>4, EntryFact DEF TaskInv, Typed
  <2>2. entry \in 0 .. built \cup {Garbage}
    BY <1>1, <2>1 DEF TaskInv, Typed, ChipOK
  <2>3. Offered = Item(entry, 0)
    BY <1>4 DEF Offered
  <2> QED
    BY <1>1, <1>4, <2>2, <2>3 DEF Item, Items
<1> QED
  BY <1>2, <1>3, <1>4 DEF Publishing

LEMMA SucceedsFact ==
  ASSUME TaskInv, Succeeds
  PROVE  /\ Publishing /\ built' = built
         /\ reported' = reported + Offered.losses
         /\ \/ accepted' = accepted
            \/ accepted' = Append(accepted, Offered.message)
<1>1. reported \in Nat
  BY DEF TaskInv, MessageInv, TalliesOK
<1>2. CASE Published
  <2>1. /\ at = "publish" /\ Publishing /\ built' = built
        /\ accepted' = Append(accepted, msg) /\ reported' = reported
    BY <1>2 DEF Published, Go, Publishing, app
  <2>2. Offered.message = msg /\ Offered.losses = 0
    BY <2>1, OfferedFact
  <2> QED
    BY <1>1, <2>1, <2>2
<1>3. CASE Reported
  <2>1. /\ at = "reporting" /\ Publishing /\ built' = built
        /\ accepted' = accepted /\ reported' = reported + taken
    BY <1>3 DEF Reported, Go, Publishing, app
  <2>2. Offered.losses = taken
    BY <2>1, OfferedFact
  <2> QED
    BY <2>1, <2>2
<1>4. CASE Resent
  <2>1. /\ at = "resend" /\ Publishing /\ built' = built
        /\ accepted' = Append(accepted, entry) /\ reported' = reported
    BY <1>4 DEF Resent, Go, Publishing, app
  <2>2. Offered.message = entry /\ Offered.losses = 0
    BY <2>1, OfferedFact
  <2> QED
    BY <1>1, <2>1, <2>2
<1> QED
  BY <1>2, <1>3, <1>4 DEF Succeeds

LEMMA RefusedFact ==
  ASSUME Refused
  PROVE  accepted' = accepted /\ reported' = reported
  BY DEF Refused, PublishFails, ReportFails, ResendFails, sent


-----------------------------------------------------------------------------
(***************************************************************************)
(* The messages in the outbox: a send, and an acknowledgement.             *)
(***************************************************************************)
LEMMA MessagesFact ==
  ASSUME NEW s, NEW m
  PROVE  m \in Messages(s)
           <=> m \in Payload /\ \E i \in 1 .. Len(s) : s[i].message = m
BY DEF Messages

LEMMA MessagesAppend ==
  ASSUME NEW S, NEW s \in Seq(S), NEW e \in S
  PROVE  /\ Append(s, e) \in Seq(S)
         /\ Messages(Append(s, e)) = Messages(s) \cup ({e.message} \cap Payload)
<1>1. Append(s, e) \in Seq(S) /\ Len(Append(s, e)) = Len(s) + 1
  OBVIOUS
<1>2. \A i \in 1 .. Len(s) : Append(s, e)[i] = s[i]
  OBVIOUS
<1>3. Append(s, e)[Len(s) + 1] = e
  OBVIOUS
<1>4. 1 .. Len(s) + 1 = (1 .. Len(s)) \cup {Len(s) + 1}
  OBVIOUS
<1> DEFINE t == Append(s, e)
<1>6. ASSUME NEW m
      PROVE  m \in Messages(t) <=> m \in Messages(s) \cup ({e.message} \cap Payload)
  <2> HIDE DEF t
  <2>1. Len(s) \in Nat
    OBVIOUS
  <2>2. (\E i \in 1 .. Len(t) : t[i].message = m)
          <=> (\E i \in 1 .. Len(s) : s[i].message = m) \/ m = e.message
    BY <1>1, <1>2, <1>3, <1>4, <2>1 DEF t
  <2> QED
    BY <2>2, MessagesFact
<1> QED
  BY <1>1, <1>6

LEMMA MessagesOne ==
  ASSUME NEW e
  PROVE  Messages(<<e>>) = {e.message} \cap Payload
BY DEF Messages

LEMMA MessagesTail ==
  ASSUME NEW S, NEW s \in Seq(S), s # <<>>
  PROVE  /\ Head(s) \in S
         /\ Tail(s) \in Seq(S)
         /\ Messages(s) = Messages(Tail(s)) \cup Messages(<<Head(s)>>)
<1>1. Tail(s) \in Seq(S) /\ Len(Tail(s)) = Len(s) - 1 /\ Len(s) > 0
  OBVIOUS
<1>2. \A i \in 1 .. Len(s) - 1 : Tail(s)[i] = s[i + 1]
  OBVIOUS
<1>3. Head(s) = s[1] /\ s[1] \in S
  OBVIOUS
<1>4. ASSUME NEW i \in 1 .. Len(s)
      PROVE  i = 1 \/ i - 1 \in 1 .. Len(s) - 1
  OBVIOUS
<1> DEFINE t == Tail(s)
<1>5. ASSUME NEW m
      PROVE  m \in Messages(s)
               <=> m \in Messages(t) \cup Messages(<<Head(s)>>)
  <2>1. (\E i \in 1 .. Len(s) : s[i].message = m)
          => (\E i \in 1 .. Len(t) : t[i].message = m) \/ s[1].message = m
    <3> SUFFICES ASSUME NEW i \in 1 .. Len(s), s[i].message = m,
                        s[1].message # m
                 PROVE  \E j \in 1 .. Len(t) : t[j].message = m
      OBVIOUS
    <3>1. i - 1 \in 1 .. Len(t) /\ t[i - 1] = s[i]
      BY <1>1, <1>2, <1>4
    <3> QED
      BY <3>1
  <2>2. ASSUME NEW i \in 1 .. Len(t), t[i].message = m
        PROVE  \E j \in 1 .. Len(s) : s[j].message = m
    <3>1. i + 1 \in 1 .. Len(s) /\ s[i + 1] = t[i]
      BY <1>1, <1>2
    <3> QED
      BY <2>2, <3>1
  <2>3. 1 \in 1 .. Len(s)
    BY <1>1
  <2> HIDE DEF t
  <2> QED
    BY <1>3, <2>1, <2>2, <2>3, MessagesFact, MessagesOne
<1> QED
  BY <1>1, <1>3, <1>5

LEMMA MessagesEmpty == Messages(<<>>) = {}
BY DEF Messages

LEMMA GatewayBuilt ==
  ASSUME TaskInv
  PROVE  built \in Nat /\ (0 .. built \cup {Garbage}) \cap Payload = 1 .. built
<1>1. QueueOK /\ built \in 0 .. MaxMessages
  BY DEF TaskInv, Typed, QueueOK
<1>2. Garbage \notin Payload /\ Payload = 1 .. MaxMessages
  BY CacheTaskAssumption, PayloadAssumption DEF Marks
<1> QED
  BY <1>1, <1>2, BuiltFact, CacheTaskAssumption

LEMMA MessagesType ==
  ASSUME TaskInv, NEW s \in Seq(Items)
  PROVE  Messages(s) \subseteq 1 .. built
<1>1. \A i \in 1 .. Len(s) : s[i].message \in 0 .. built \cup {Garbage}
  <2>1. \A i \in 1 .. Len(s) : s[i] \in Items
    OBVIOUS
  <2> QED
    BY <2>1 DEF Items
<1>2. Messages(s) \subseteq (0 .. built \cup {Garbage}) \cap Payload
  BY <1>1, MessagesFact
<1> QED
  BY <1>2, GatewayBuilt

(* What a step does to the messages that were accepted and to the places   *)
(* where they can be: it adds at most one message, to both.                *)
LEMMA BoxStep ==
  ASSUME TaskInv, ClientOK, BoxOK, [GatewayNext]_gatewayVars, built <= built',
         built' \in Nat
  PROVE  /\ BoxOK'
         /\ InOutbox \cup delivered \cup dropped
              \subseteq (InOutbox \cup delivered \cup dropped)'
         /\ \/ accepted' = accepted
            \/ \E m \in 0 .. built \cup {Garbage} :
                 /\ accepted' = Append(accepted, m)
                 /\ {m} \cap Payload
                      \subseteq (InOutbox \cup delivered \cup dropped)'
<1>0. /\ Items \subseteq Items' /\ 1 .. built \subseteq 1 .. built'
      /\ outbox \in Seq(Items')
  <2>1. built \in Nat
    BY GatewayBuilt
  <2>2. /\ 0 .. built \cup {Garbage} \subseteq 0 .. built' \cup {Garbage}
        /\ 1 .. built \subseteq 1 .. built'
    BY <2>1
  <2>3. Items \subseteq Items'
    BY <2>2 DEF Items
  <2> QED
    BY <2>2, <2>3, SeqWiden DEF BoxOK
<1>1. CASE /\ outbox' = outbox /\ UNCHANGED <<cloud, fate, accepted>>
           /\ exists => exists'
  <2>1. Messages(outbox)' = Messages(outbox)
    BY <1>1 DEF Messages
  <2> QED
    BY <1>0, <1>1, <2>1 DEF BoxOK, InOutbox, cloud, fate
<1>2. CASE Loop \/ NotReady \/ TestClient \/ UNCHANGED gatewayVars
  BY <1>1, <1>2, LoopQuiet, RefusedFact
     DEF Loop, NotReady, TestClient, gatewayVars, client, allVars, taskVars,
         sent
<1>3. CASE AppStart \/ GoOnline \/ GoOffline \/ HandleCleared \/ ClientTurns
  BY <1>1, <1>3 DEF AppStart, GoOnline, GoOffline, HandleCleared, ClientTurns,
     Others, client, allVars, taskVars, sent
<1>4. CASE CallClient
  <2>1. PICK h \in {tested, sClient} :
          Accepts(h) \/ Refuses(h) \/ CallsDestroyed(h)
    BY <1>4 DEF CallClient
  <2>2. UNCHANGED <<client, cloud>>
    BY <1>4 DEF CallClient
  <2> DEFINE Places == InOutbox \cup delivered \cup dropped
  <2>3. CASE Refuses(h)
    BY <1>1, <2>2, <2>3, RefusedFact DEF Refuses, client
  <2>4. ASSUME Succeeds
        PROVE  /\ Offered \in Items
               /\ Offered.message \in 0 .. built \cup {Garbage}
               /\ \/ accepted' = accepted
                  \/ accepted' = Append(accepted, Offered.message)
    <3>1. Offered \in Items
      BY <2>4, SucceedsFact, OfferedFact
    <3> QED
      BY <2>4, <3>1, SucceedsFact DEF Items
  <2>5. CASE Accepts(h)
    <3>1. /\ Succeeds /\ exists
          /\ outbox' = Append(outbox, Offered) /\ fate' = fate
      BY <2>5 DEF Accepts, Living
    <3>2. Offered \in Items'
      BY <1>0, <2>4, <3>1
    <3>3. /\ outbox' \in Seq(Items')
          /\ Messages(outbox') = Messages(outbox) \cup ({Offered.message} \cap Payload)
      BY <1>0, <3>1, <3>2, MessagesAppend
    <3>4. UNCHANGED <<delivered, dropped>>
      BY <2>2, <3>1 DEF cloud, fate
    <3>5. BoxOK'
      BY <1>0, <2>2, <3>1, <3>3, <3>4 DEF BoxOK, client
    <3>6. Places' = Places \cup ({Offered.message} \cap Payload)
      BY <3>3, <3>4 DEF InOutbox
    <3> QED
      BY <2>4, <3>1, <3>5, <3>6
  <2>6. CASE CallsDestroyed(h)
    <3>1. outbox' = outbox /\ Messages(outbox)' = Messages(outbox)
      BY <2>6 DEF CallsDestroyed, Messages
    <3>2. CASE Succeeds /\ Drops(<<Offered>>)
      <4>1. dropped' = dropped \cup ({Offered.message} \cap Payload)
        BY <3>2, MessagesOne DEF Drops
      <4>2. {Offered.message} \cap Payload \subseteq 1 .. built
        BY <2>4, <3>2, GatewayBuilt
      <4>3. /\ delivered' = delivered /\ exists' = exists /\ InOutbox' = InOutbox
        BY <2>2, <3>1 DEF InOutbox, client, cloud
      <4>4. BoxOK'
        BY <1>0, <3>1, <4>1, <4>2, <4>3 DEF BoxOK
      <4>5. /\ Places \subseteq Places'
            /\ {Offered.message} \cap Payload \subseteq Places'
        BY <4>1, <4>3
      <4> QED
        BY <2>4, <3>2, <4>4, <4>5
    <3>3. CASE Refused /\ Drops(<<>>)
      <4>1. dropped' = dropped /\ accepted' = accepted
        BY <3>3, MessagesEmpty, RefusedFact DEF Drops
      <4> QED
        BY <1>0, <2>2, <3>1, <4>1 DEF BoxOK, InOutbox, client, cloud
    <3> QED
      BY <2>6, <3>2, <3>3 DEF CallsDestroyed
  <2> QED
    BY <2>1, <2>3, <2>5, <2>6
<1>5. CASE ClientDestroyed \/ Blackout
  <2>1. /\ outbox' = <<>> /\ dropped' = dropped \cup Messages(outbox)
        /\ delivered' = delivered /\ accepted' = accepted
    BY <1>5 DEF ClientDestroyed, Blackout, PowerCut, Drops, cloud, Others, sent
  <2>2. Messages(outbox') = {} /\ Messages(outbox) \subseteq 1 .. built
    BY <2>1, MessagesEmpty, MessagesType DEF BoxOK
  <2>3. <<>> \in Seq(Items')
    OBVIOUS
  <2> QED
    BY <1>0, <2>1, <2>2, <2>3 DEF BoxOK, InOutbox
<1>6. CASE Acknowledged
  <2>1. /\ outbox # <<>> /\ outbox' = Tail(outbox)
        /\ delivered' = delivered \cup Messages(<<Head(outbox)>>)
        /\ dropped' = dropped /\ accepted' = accepted /\ exists' = exists
    BY <1>6 DEF Acknowledged, fate, client, allVars, taskVars, sent
  <2>2. /\ outbox' \in Seq(Items')
        /\ Messages(outbox) = Messages(outbox') \cup Messages(<<Head(outbox)>>)
        /\ Messages(outbox) \subseteq 1 .. built
    BY <1>0, <2>1, MessagesTail, MessagesType DEF BoxOK
  <2> QED
    BY <1>0, <2>1, <2>2 DEF BoxOK, InOutbox
<1> QED
  BY <1>2, <1>3, <1>4, <1>5, <1>6 DEF GatewayNext, Publish, StateMachine

LEMMA BuiltGrows ==
  ASSUME TaskInv, [GatewayNext]_gatewayVars
  PROVE  built <= built' /\ built' \in Nat
<1>1. QueueOK /\ PlaceOK
  BY DEF TaskInv, Typed
<1> QED
  BY <1>1, GatewayLoopStep, QueueStep DEF QueueOK

LEMMA GatewayStep ==
  TaskInv /\ GatewayTypeOK /\ [GatewayNext]_gatewayVars => GatewayTypeOK'
BY BuiltGrows, BoxStep, ClientOKStep, GatewayParts, GatewayPartsNext

LEMMA GatewayStart == GatewayInit => GatewayTypeOK
<1> SUFFICES ASSUME GatewayInit PROVE GatewayTypeOK
  OBVIOUS
<1>1. ClientOK
  BY DEF GatewayInit, TaskInit, ClientOK, NULL
<1>2. <<>> \in Seq(Items)
  OBVIOUS
<1>3. BoxOK
  BY <1>2 DEF GatewayInit, BoxOK
<1> QED
  BY <1>1, <1>3, GatewayParts

LEMMA GatewayInvariant == GatewaySpec => [](TaskInv /\ GatewayTypeOK)
<1>1. GatewayInit => TaskInv
  BY TaskInvInit DEF GatewayInit
<1> QED
  BY <1>1, GatewayLoopStep, GatewayStart, GatewayStep, PTL DEF GatewaySpec

(* A handle is tested only inside mqtt_app_publish, an outbox belongs to a *)
(* client, and while there is no client s_online is not set                *)
(* (mqtt_app.c:96-176, cache_task.c:34-39).                                *)
THEOREM GatewayTypeCorrect == GatewaySpec => [](TaskTypeOK /\ GatewayTypeOK)
<1>1. GatewaySpec => []TaskTypeOK
  BY GatewayRunsTheLoop, TaskTypeCorrect, PTL
<1> QED
  BY <1>1, GatewayInvariant, PTL

(***************************************************************************)
(* Messages: what the client accepted is in its outbox, with the broker,   *)
(* or went with a client.                                                  *)
(***************************************************************************)
AcceptedTraced ==
  Elements(accepted) \cap Payload \subseteq InOutbox \cup delivered \cup dropped

LEMMA TracedStep ==
  TaskInv /\ GatewayTypeOK /\ AcceptedTraced /\ [GatewayNext]_gatewayVars
    => AcceptedTraced'
<1> SUFFICES ASSUME TaskInv, GatewayTypeOK, AcceptedTraced,
                    [GatewayNext]_gatewayVars
             PROVE  AcceptedTraced'
  OBVIOUS
<1> DEFINE Places == InOutbox \cup delivered \cup dropped
           Kinds == 0 .. built \cup {Garbage}
<1>1. /\ Places \subseteq Places'
      /\ \/ accepted' = accepted
         \/ \E m \in Kinds : /\ accepted' = Append(accepted, m)
                             /\ {m} \cap Payload \subseteq Places'
  BY BuiltGrows, BoxStep, GatewayParts
<1>2. CASE accepted' = accepted
  <2>1. Elements(accepted)' = Elements(accepted)
    BY <1>2 DEF Elements
  <2> QED
    BY <1>1, <2>1 DEF AcceptedTraced
<1>3. ASSUME NEW m \in Kinds, accepted' = Append(accepted, m),
             {m} \cap Payload \subseteq Places'
      PROVE  AcceptedTraced'
  <2>1. Elements(accepted)' = Elements(accepted) \cup {m}
    <3>1. accepted \in Seq(1 .. built \cup {Garbage})
      BY DEF TaskInv, MessageInv, AcceptedOK
    <3>2. built \in Nat /\ 1 .. built \cup {Garbage} \subseteq Kinds
      BY GatewayBuilt
    <3> HIDE DEF Kinds
    <3>3. accepted \in Seq(Kinds)
      BY <3>1, <3>2, SeqWiden
    <3>4. Elements(Append(accepted, m)) = Elements(accepted) \cup {m}
      BY <3>3, <1>3, ElementsAppend
    <3>5. Elements(accepted)' = Elements(Append(accepted, m))
      BY <1>3 DEF Elements
    <3> QED
      BY <3>4, <3>5
  <2> QED
    BY <1>1, <1>3, <2>1 DEF AcceptedTraced
<1> QED
  BY <1>1, <1>2, <1>3

(* docs/CHANGELOG.md:260, seen from the cloud: a message that was built is *)
(* waiting, in the outbox or with the broker, unless it was lost where the *)
(* loop can lose one, or with the outbox of a client that was destroyed.   *)
THEOREM EveryMessageTraced == GatewaySpec => []MessagesTraced
<1>1. GatewayInit => AcceptedTraced
  BY DEF GatewayInit, TaskInit, AcceptedTraced, Elements
<1>2. GatewaySpec => []AcceptedTraced
  BY <1>1, TracedStep, GatewayInvariant, PTL DEF GatewaySpec
<1>3. TaskInv /\ NothingForgotten /\ AcceptedTraced => MessagesTraced
  <2>1. TaskInv => \A m \in 1 .. built : m \in Payload
    BY MessageIsPayload DEF TaskInv, Typed
  <2> QED
    BY <2>1 DEF NothingForgotten, AcceptedTraced, MessagesTraced
<1>4. GatewaySpec => []NothingForgotten
  BY GatewayRunsTheLoop, ForgetsNothing, PTL
<1> QED
  BY <1>2, <1>3, <1>4, GatewayInvariant, PTL

(***************************************************************************)
(* The losses in the outbox: a report counts as many as it says.           *)
(***************************************************************************)
Column(i, k) == {<<i, n>> : n \in 1 .. k}

LEMMA ColumnSize ==
  ASSUME NEW i, NEW k \in Nat
  PROVE  IsFiniteSet(Column(i, k)) /\ Cardinality(Column(i, k)) = k
<1> DEFINE f == [n \in 1 .. k |-> <<i, n>>]
<1>1. f \in Bijection(1 .. k, Column(i, k))
  BY DEF Bijection, Injection, Surjection, IsInjective, Column
<1>2. ExistsBijection(1 .. k, Column(i, k))
  BY <1>1 DEF ExistsBijection
<1>3. IsFiniteSet(1 .. k) /\ Cardinality(1 .. k) = k
  BY FS_Interval
<1> QED
  BY <1>2, <1>3, FS_Bijection

LEMMA CountedFact ==
  ASSUME NEW s, NEW p
  PROVE  p \in Counted(s)
           <=> \E i \in 1 .. Len(s), n \in 1 .. CounterMod :
                 p = <<i, n>> /\ n <= s[i].losses
BY DEF Counted

LEMMA CountedFinite ==
  ASSUME NEW S, NEW s \in Seq(S)
  PROVE  IsFiniteSet(Counted(s)) /\ Losses(s) \in Nat
<1>1. CounterMod \in Nat /\ Len(s) \in Nat
  BY GeometryAssumption
<1>2. IsFiniteSet(1 .. Len(s)) /\ IsFiniteSet(1 .. CounterMod)
  BY <1>1, FS_Interval
<1>3. IsFiniteSet((1 .. Len(s)) \X (1 .. CounterMod))
  BY <1>2, FS_Product
<1>4. Counted(s) \in SUBSET ((1 .. Len(s)) \X (1 .. CounterMod))
  BY DEF Counted
<1>5. IsFiniteSet(Counted(s))
  BY <1>3, <1>4, FS_Subset
<1> QED
  BY <1>5, FS_CardinalityType DEF Losses

LEMMA DisjointSizes ==
  ASSUME NEW A, NEW B, IsFiniteSet(A), IsFiniteSet(B), A \cap B = {}
  PROVE  Cardinality(A \cup B) = Cardinality(A) + Cardinality(B)
<1>1. Cardinality(A \cap B) = 0
  BY FS_EmptySet
<1>2. Cardinality(A) \in Nat /\ Cardinality(B) \in Nat
  BY FS_CardinalityType
<1>3. Cardinality(A \cup B)
        = Cardinality(A) + Cardinality(B) - Cardinality(A \cap B)
  BY FS_Union
<1> QED
  BY <1>1, <1>2, <1>3

LEMMA LossesAppend ==
  ASSUME NEW S, \A x \in S : x.losses \in 0 .. CounterMod,
         NEW s \in Seq(S), NEW e \in S
  PROVE  Losses(Append(s, e)) = Losses(s) + e.losses
<1> DEFINE t == Append(s, e)
           k == Len(s) + 1
<1>1. /\ Len(t) = k /\ t[k] = e /\ Len(s) \in Nat
      /\ \A i \in 1 .. Len(s) : t[i] = s[i]
  OBVIOUS
<1>2. 1 .. Len(t) = (1 .. Len(s)) \cup {k} /\ k \notin 1 .. Len(s)
  BY <1>1
<1> HIDE DEF t, k
<1>3. e.losses \in 0 .. CounterMod /\ CounterMod \in Nat
  BY GeometryAssumption
<1>4. Counted(t) = Counted(s) \cup Column(k, e.losses)
  <2>1. ASSUME NEW p
        PROVE  p \in Counted(t) <=> p \in Counted(s) \/ p \in Column(k, e.losses)
    <3>1. p \in Counted(t)
            <=> \/ \E i \in 1 .. Len(s), n \in 1 .. CounterMod :
                     p = <<i, n>> /\ n <= s[i].losses
                \/ \E n \in 1 .. CounterMod : p = <<k, n>> /\ n <= e.losses
      <4> DEFINE At(i) ==
                   \E n \in 1 .. CounterMod : p = <<i, n>> /\ n <= t[i].losses
      <4>1. p \in Counted(t) <=> \E i \in 1 .. Len(t) : At(i)
        BY CountedFact
      <4>2. \A i \in 1 .. Len(s) :
              At(i) <=> \E n \in 1 .. CounterMod :
                          p = <<i, n>> /\ n <= s[i].losses
        BY <1>1
      <4>3. At(k) <=> \E n \in 1 .. CounterMod : p = <<k, n>> /\ n <= e.losses
        BY <1>1
      <4> HIDE DEF At
      <4>4. (\E i \in 1 .. Len(t) : At(i))
              <=> (\E i \in 1 .. Len(s) : At(i)) \/ At(k)
        BY <1>2
      <4> QED
        BY <4>1, <4>2, <4>3, <4>4
    <3>2. p \in Column(k, e.losses)
            <=> \E n \in 1 .. CounterMod : p = <<k, n>> /\ n <= e.losses
      BY <1>3 DEF Column
    <3> QED
      BY <3>1, <3>2, CountedFact
  <2> QED
    BY <2>1
<1>5. Counted(s) \cap Column(k, e.losses) = {}
  <2>1. ASSUME NEW p \in Counted(s), p \in Column(k, e.losses) PROVE FALSE
    <3>1. PICK i \in 1 .. Len(s), n \in 1 .. CounterMod : p = <<i, n>>
      BY CountedFact
    <3>2. PICK m \in 1 .. e.losses : p = <<k, m>>
      BY <2>1 DEF Column
    <3> QED
      BY <1>2, <3>1, <3>2
  <2> QED
    BY <2>1
<1>6. /\ IsFiniteSet(Counted(s))
      /\ IsFiniteSet(Column(k, e.losses))
      /\ Cardinality(Column(k, e.losses)) = e.losses
  BY <1>3, CountedFinite, ColumnSize
<1> QED
  BY <1>4, <1>5, <1>6, DisjointSizes DEF Losses, t

LEMMA LossesNone == Losses(<<>>) = 0
<1>1. Counted(<<>>) = {}
  BY DEF Counted
<1> QED
  BY <1>1, FS_EmptySet DEF Losses

LEMMA LossesOne ==
  ASSUME NEW S, \A x \in S : x.losses \in 0 .. CounterMod, NEW e \in S
  PROVE  Losses(<<e>>) = e.losses
<1>1. <<>> \in Seq(S) /\ Append(<<>>, e) = <<e>>
  OBVIOUS
<1>2. Losses(<<e>>) = Losses(<<>>) + e.losses
  BY <1>1, LossesAppend
<1>3. e.losses \in 0 .. CounterMod /\ CounterMod \in Nat
  BY GeometryAssumption
<1> QED
  BY <1>2, <1>3, LossesNone

LEMMA LossesTail ==
  ASSUME NEW S, \A x \in S : x.losses \in 0 .. CounterMod,
         NEW s \in Seq(S), s # <<>>
  PROVE  Losses(s) = Losses(Tail(s)) + Head(s).losses
<1> DEFINE t == Tail(s)
           e == Head(s)
           B == Column(1, e.losses)
           A == Counted(s) \ B
           f == [p \in Counted(t) |-> <<p[1] + 1, p[2]>>]
<1>1. /\ t \in Seq(S) /\ Len(s) = Len(t) + 1 /\ Len(t) \in Nat /\ s[1] = e
      /\ \A i \in 1 .. Len(t) : t[i] = s[i + 1] /\ i + 1 \in 1 .. Len(s)
      /\ \A i \in 1 .. Len(s) : i = 1 \/ i - 1 \in 1 .. Len(t)
      /\ e \in S
  OBVIOUS
<1>2. e.losses \in 0 .. CounterMod /\ CounterMod \in Nat
  BY <1>1, GeometryAssumption
<1> HIDE DEF t, e
<1>3. B \subseteq Counted(s)
  <2>1. ASSUME NEW n \in 1 .. e.losses PROVE <<1, n>> \in Counted(s)
    <3>1. 1 \in 1 .. Len(s) /\ n \in 1 .. CounterMod /\ n <= s[1].losses
      BY <1>1, <1>2
    <3> QED
      BY <3>1, CountedFact
  <2> QED
    BY <2>1 DEF Column
<1>4. ASSUME NEW p
      PROVE  p \in A <=> \E i \in 1 .. Len(t), n \in 1 .. CounterMod :
                           p = <<i + 1, n>> /\ n <= t[i].losses
  <2>1. ASSUME NEW i \in 1 .. Len(t), NEW n \in 1 .. CounterMod,
               p = <<i + 1, n>>, n <= t[i].losses
        PROVE  p \in A
    <3>1. p \in Counted(s)
      BY <1>1, <2>1, CountedFact
    <3>2. i + 1 # 1
      OBVIOUS
    <3>3. p \notin B
      BY <2>1, <3>2 DEF Column
    <3> QED
      BY <3>1, <3>3
  <2>2. ASSUME p \in A
        PROVE  \E i \in 1 .. Len(t), n \in 1 .. CounterMod :
                 p = <<i + 1, n>> /\ n <= t[i].losses
    <3>1. PICK i \in 1 .. Len(s), n \in 1 .. CounterMod :
            p = <<i, n>> /\ n <= s[i].losses
      BY <2>2, CountedFact
    <3>2. i # 1
      <4>1. SUFFICES ASSUME i = 1 PROVE FALSE
        OBVIOUS
      <4>2. n \in 1 .. e.losses
        BY <1>1, <1>2, <3>1, <4>1
      <4> QED
        BY <2>2, <3>1, <4>1, <4>2 DEF Column
    <3>3. i - 1 \in 1 .. Len(t) /\ (i - 1) + 1 = i /\ t[i - 1] = s[i]
      BY <1>1, <3>2
    <3> QED
      BY <3>1, <3>3
  <2> QED
    BY <2>1, <2>2
<1>5. f \in Bijection(Counted(t), A)
  <2>1. ASSUME NEW p \in Counted(t)
        PROVE  \E i \in 1 .. Len(t), n \in 1 .. CounterMod :
                 p = <<i, n>> /\ f[p] = <<i + 1, n>> /\ n <= t[i].losses
    <3>1. PICK i \in 1 .. Len(t), n \in 1 .. CounterMod :
            p = <<i, n>> /\ n <= t[i].losses
      BY CountedFact
    <3>2. f[p] = <<i + 1, n>>
      BY <3>1
    <3> QED
      BY <3>1, <3>2
  <2>2. \A p \in Counted(t) : f[p] \in A
    BY <1>4, <2>1
  <2>3. ASSUME NEW p \in Counted(t), NEW q \in Counted(t), f[p] = f[q]
        PROVE  p = q
    <3>1. PICK i \in 1 .. Len(t), n \in 1 .. CounterMod :
            p = <<i, n>> /\ f[p] = <<i + 1, n>>
      BY <2>1
    <3>2. PICK j \in 1 .. Len(t), m \in 1 .. CounterMod :
            q = <<j, m>> /\ f[q] = <<j + 1, m>>
      BY <2>1
    <3>3. i + 1 = j + 1 /\ n = m
      BY <2>3, <3>1, <3>2
    <3>4. i = j
      BY <3>3
    <3> QED
      BY <3>1, <3>2, <3>3, <3>4
  <2>4. ASSUME NEW a \in A PROVE \E p \in Counted(t) : f[p] = a
    <3>1. PICK i \in 1 .. Len(t), n \in 1 .. CounterMod :
            a = <<i + 1, n>> /\ n <= t[i].losses
      BY <1>4
    <3>2. <<i, n>> \in Counted(t)
      BY <3>1, CountedFact
    <3>3. f[<<i, n>>] = <<i + 1, n>>
      BY <3>2
    <3> QED
      BY <3>1, <3>2, <3>3
  <2>5. f \in [Counted(t) -> A]
    BY <2>2
  <2> HIDE DEF f, A
  <2> QED
    BY <2>3, <2>4, <2>5 DEF Bijection, Injection, Surjection, IsInjective
<1>6. IsFiniteSet(Counted(t)) /\ IsFiniteSet(Counted(s))
  BY <1>1, CountedFinite
<1>7. ExistsBijection(Counted(t), A)
  BY <1>5 DEF ExistsBijection
<1> HIDE DEF f
<1>8. IsFiniteSet(A) /\ Cardinality(A) = Cardinality(Counted(t))
  BY <1>6, <1>7, FS_Bijection
<1>9. IsFiniteSet(B) /\ Cardinality(B) = e.losses
  BY <1>2, ColumnSize
<1>10. Counted(s) = A \cup B /\ A \cap B = {}
  BY <1>3
<1> HIDE DEF A, B
<1>11. Cardinality(A \cup B) = Cardinality(A) + Cardinality(B)
  BY <1>8, <1>9, <1>10, DisjointSizes
<1> QED
  BY <1>8, <1>9, <1>10, <1>11 DEF Losses, t, e

(***************************************************************************)
(* Losses: what was reported is in a report in the outbox, with the        *)
(* broker, or in a report that went with a client.                         *)
(***************************************************************************)
ReportsTraced ==
  /\ reported = Losses(outbox) + deliveredLosses + droppedLosses
  /\ deliveredLosses \in Nat /\ droppedLosses \in Nat

LEMMA ItemLosses == \A x \in Items : x.losses \in 0 .. CounterMod
BY GeometryAssumption DEF Items

LEMMA ReportsStep ==
  TaskInv /\ GatewayTypeOK /\ ReportsTraced /\ [GatewayNext]_gatewayVars
    => ReportsTraced'
<1> SUFFICES ASSUME TaskInv, GatewayTypeOK, ReportsTraced,
                    [GatewayNext]_gatewayVars
             PROVE  ReportsTraced'
  OBVIOUS
<1>1. /\ outbox \in Seq(Items) /\ Losses(outbox) \in Nat /\ Losses(<<>>) = 0
      /\ reported = Losses(outbox) + deliveredLosses + droppedLosses
      /\ deliveredLosses \in Nat /\ droppedLosses \in Nat
  <2>1. outbox \in Seq(Items)
    BY GatewayParts DEF BoxOK
  <2> QED
    BY <2>1, CountedFinite, LossesNone DEF ReportsTraced
<1>2. CASE UNCHANGED <<outbox, deliveredLosses, droppedLosses, reported>>
  <2>1. Losses(outbox)' = Losses(outbox)
    BY <1>2
  <2> QED
    BY <1>1, <1>2, <2>1 DEF ReportsTraced
<1>3. CASE Loop \/ NotReady \/ TestClient \/ UNCHANGED gatewayVars
  BY <1>2, <1>3, LoopQuiet, RefusedFact
     DEF Loop, NotReady, TestClient, gatewayVars, allVars, taskVars, sent, cloud, fate
<1>4. CASE AppStart \/ GoOnline \/ GoOffline \/ HandleCleared \/ ClientTurns
  BY <1>2, <1>4 DEF AppStart, GoOnline, GoOffline, HandleCleared, ClientTurns,
     Others, allVars, taskVars, sent, cloud, fate
<1>5. CASE CallClient
  <2>1. PICK h \in {tested, sClient} :
          Accepts(h) \/ Refuses(h) \/ CallsDestroyed(h)
    BY <1>5 DEF CallClient
  <2>2. deliveredLosses' = deliveredLosses
    BY <1>5 DEF CallClient, cloud
  <2>3. CASE Refuses(h)
    BY <1>2, <2>2, <2>3, RefusedFact DEF Refuses, fate
  <2>4. ASSUME Succeeds
        PROVE  /\ Offered \in Items
               /\ Offered.losses \in Nat
               /\ reported' = reported + Offered.losses
    <3>1. Publishing /\ reported' = reported + Offered.losses
      BY <2>4, SucceedsFact
    <3>2. Offered \in Items
      BY <3>1, OfferedFact
    <3>3. Offered.losses \in 0 .. CounterMod /\ CounterMod \in Nat
      BY <3>2, ItemLosses, GeometryAssumption
    <3> QED
      BY <3>1, <3>2, <3>3
  <2>5. CASE Accepts(h)
    <3>1. /\ outbox' = Append(outbox, Offered) /\ Succeeds
          /\ droppedLosses' = droppedLosses
      BY <2>5 DEF Accepts, fate
    <3>2. Losses(Append(outbox, Offered)) = Losses(outbox) + Offered.losses
      BY <1>1, <2>4, <3>1, ItemLosses, LossesAppend
    <3> QED
      BY <1>1, <2>2, <2>4, <3>1, <3>2 DEF ReportsTraced
  <2>6. CASE CallsDestroyed(h)
    <3>1. CASE Succeeds /\ Drops(<<Offered>>)
      <4>1. /\ outbox' = outbox
            /\ droppedLosses' = droppedLosses + Losses(<<Offered>>)
        BY <2>6, <3>1 DEF CallsDestroyed, Drops
      <4>2. Losses(<<Offered>>) = Offered.losses
        BY <2>4, <3>1, ItemLosses, LossesOne
      <4>3. /\ reported' = reported + Offered.losses
            /\ Offered.losses \in Nat
            /\ deliveredLosses' = deliveredLosses
            /\ Losses(outbox)' = Losses(outbox)
        BY <2>2, <2>4, <3>1, <4>1 DEF Losses, Counted
      <4>4. Losses(outbox) \in Nat
        BY <1>1
      <4> QED
        BY <4>1, <4>2, <4>3, <4>4 DEF ReportsTraced
    <3>2. CASE Refused /\ Drops(<<>>)
      <4>1. /\ outbox' = outbox /\ reported' = reported
            /\ droppedLosses' = droppedLosses + 0
        BY <1>1, <2>6, <3>2, RefusedFact DEF CallsDestroyed, Drops
      <4> QED
        BY <1>1, <2>2, <4>1 DEF ReportsTraced
    <3> QED
      BY <2>6, <3>1, <3>2 DEF CallsDestroyed
  <2> QED
    BY <2>1, <2>3, <2>5, <2>6
<1>6. CASE ClientDestroyed \/ Blackout
  <2>1. /\ outbox' = <<>> /\ droppedLosses' = droppedLosses + Losses(outbox)
        /\ deliveredLosses' = deliveredLosses /\ reported' = reported
    BY <1>6 DEF ClientDestroyed, Blackout, PowerCut, Drops, cloud, Others, sent
  <2> QED
    BY <1>1, <2>1 DEF ReportsTraced
<1>7. CASE Acknowledged
  <2>1. /\ outbox # <<>> /\ outbox' = Tail(outbox)
        /\ deliveredLosses' = deliveredLosses + Head(outbox).losses
        /\ droppedLosses' = droppedLosses /\ reported' = reported
    BY <1>7 DEF Acknowledged, fate, allVars, taskVars, sent
  <2>2. Losses(outbox) = Losses(Tail(outbox)) + Head(outbox).losses
    BY <1>1, <2>1, ItemLosses, LossesTail
  <2>3. Tail(outbox) \in Seq(Items) /\ Head(outbox) \in Items
    BY <1>1, <2>1
  <2>4. /\ Losses(Tail(outbox)) \in Nat /\ CounterMod \in Nat
        /\ Head(outbox).losses \in 0 .. CounterMod
    BY <2>3, CountedFinite, ItemLosses, GeometryAssumption
  <2>5. Losses(outbox)' = Losses(Tail(outbox))
    BY <2>1
  <2> DEFINE rest == Losses(Tail(outbox))
             first == Head(outbox).losses
  <2>6. /\ rest \in Nat /\ first \in Nat /\ Losses(outbox) = rest + first
        /\ Losses(outbox)' = rest /\ deliveredLosses' = deliveredLosses + first
    BY <2>1, <2>2, <2>4, <2>5
  <2> HIDE DEF rest, first
  <2>7. reported' = rest + (deliveredLosses + first) + droppedLosses
    BY <1>1, <2>1, <2>6
  <2> QED
    BY <1>1, <2>1, <2>6, <2>7 DEF ReportsTraced
<1> QED
  BY <1>3, <1>4, <1>5, <1>6, <1>7 DEF GatewayNext, Publish, StateMachine

(* cache_task.c:116-147 with mqtt_app.c:96-176: as long as NVS works, an   *)
(* entry that was counted as lost is in the counter, on its way to the     *)
(* cloud or known there, unless a power cut or the end of a client met the *)
(* report; and a message that was built waits, is on its way or with the   *)
(* broker, unless it was lost where the loop can lose one, or with a       *)
(* client.                                                                 *)
THEOREM OnlyOutboxLoses == GatewaySpec => []OnlyOutboxForgets
<1>1. GatewayInit => ReportsTraced
  BY LossesNone DEF GatewayInit, TaskInit, ReportsTraced
<1>2. GatewaySpec => []ReportsTraced
  BY <1>1, ReportsStep, GatewayInvariant, PTL DEF GatewaySpec
<1>3. ASSUME TaskInv, GatewayTypeOK, ReportsTraced, LossesCounted
      PROVE  LossesTraced
  <2>1. /\ overflow \in Nat /\ taken \in Nat /\ uncounted \in Nat
        /\ reported \in Nat
    <3>1. CounterMod \in Nat
      BY GeometryAssumption
    <3> QED
      BY <1>3, <3>1
         DEF TaskInv, Sound, StoreInv, TypeOK, MessageInv, TalliesOK
  <2>2. Losses(outbox) \in Nat
    BY <1>3, GatewayParts, CountedFinite DEF BoxOK
  <2>3. /\ reported = Losses(outbox) + deliveredLosses + droppedLosses
        /\ deliveredLosses \in Nat /\ droppedLosses \in Nat
    BY <1>3 DEF ReportsTraced
  <2>4. overflow + taken + Losses(outbox) + deliveredLosses + uncounted
          + droppedLosses = overflow + taken + reported + uncounted
    BY <2>1, <2>2, <2>3
  <2> QED
    BY <1>3, <2>4 DEF LossesCounted, LossesTraced
<1>4. GatewaySpec => []LossesCounted
  BY GatewayRunsTheLoop, CountsLosses, PTL
<1> QED
  BY <1>2, <1>3, <1>4, GatewayInvariant, EveryMessageTraced, PTL
     DEF OnlyOutboxForgets
=============================================================================
