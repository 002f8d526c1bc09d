------------------------- MODULE FlashStorageProofs -------------------------
(***************************************************************************)
(* What holds of the ring buffer for every chip geometry, every set of     *)
(* payloads and every width of the loss counter: first whatever fails,     *)
(* then, as long as the history was orderly, that the ring is recovered as *)
(* it was and is the queue of CacheStore.                                  *)
(***************************************************************************)
EXTENDS FlashStorage, FiniteSetTheorems, SequenceTheorems, TLAPS

(* Division of a slot number by the slots of a sector.                     *)
LEMMA DivModFact ==
  ASSUME NEW s \in Nat \ {0}, NEW a \in Nat
  PROVE  /\ a % s \in 0 .. s - 1
         /\ a \div s \in Nat
         /\ a = s * (a \div s) + (a % s)
  OBVIOUS

(* Below n sectors there is room for one sector more.                      *)
LEMMA ProductStep ==
  ASSUME NEW s \in Nat \ {0}, NEW q \in Nat, NEW n \in Nat, q < n
  PROVE  s * q + s <= s * n
  OBVIOUS

(* More sectors hold no fewer slots.                                       *)
LEMMA ProductMonotone ==
  ASSUME NEW s \in Nat, NEW m \in Nat, NEW n \in Nat, m <= n
  PROVE  s * m <= s * n
  OBVIOUS

(* The chip holds at least one sector.                                     *)
LEMMA CapacityFact ==
  /\ Capacity \in Nat
  /\ SectorSlots <= Capacity
  /\ SectorSlots \in Nat \ {0}
  /\ 0 \in Slots
<1>1. SectorSlots * 0 + SectorSlots <= SectorSlots * Sectors
  BY GeometryAssumption, ProductStep
<1>2. Sectors * SectorSlots = SectorSlots * Sectors /\ SectorSlots * 0 = 0
  BY GeometryAssumption
<1>3. Sectors * SectorSlots \in Nat
  BY GeometryAssumption
<1> QED
  BY <1>1, <1>2, <1>3, GeometryAssumption DEF Capacity, Slots

(* The sector of a slot lies on the chip, and the slot in its sector.      *)
LEMMA SectorFact ==
  ASSUME NEW a \in Slots
  PROVE  /\ SectorBase(a) \in Slots
         /\ SectorBase(a) <= a
         /\ a < SectorBase(a) + SectorSlots
         /\ SectorBase(a) + SectorSlots <= Capacity
<1> DEFINE s == SectorSlots
           q == a \div s
           r == a % s
<1>1. s \in Nat \ {0} /\ a \in Nat /\ a < Capacity /\ Capacity \in Nat
  BY CapacityFact DEF Slots
<1>2. r \in 0 .. s - 1 /\ q \in Nat /\ a = s * q + r
  BY <1>1, DivModFact
<1>3. q < Sectors
  <2>1. Sectors \in Nat \ {0} /\ Capacity = Sectors * s
    BY GeometryAssumption DEF Capacity
  <2> HIDE DEF s, q, r
  <2>2. SUFFICES ASSUME q >= Sectors PROVE FALSE
    BY <1>2, <2>1
  <2>3. s * Sectors <= s * q
    BY <2>1, <2>2, <1>1, <1>2, ProductMonotone
  <2> QED
    BY <2>1, <2>3, <1>1, <1>2
<1>4. s * q + s <= Capacity
  <2>1. Sectors \in Nat \ {0} /\ Capacity = Sectors * s
    BY GeometryAssumption DEF Capacity
  <2> HIDE DEF s, q, r
  <2>2. s * q + s <= s * Sectors
    BY <1>1, <1>2, <1>3, <2>1, ProductStep
  <2> QED
    BY <2>1, <2>2, <1>1
<1>5. SectorBase(a) = a - r
  BY DEF SectorBase
<1> HIDE DEF q, r
<1> QED
  BY <1>1, <1>2, <1>4, <1>5 DEF Slots

(* Pointer arithmetic stays on the chip.                                   *)
LEMMA WrapFact ==
  ASSUME NEW a \in 0 .. 2 * Capacity - 1
  PROVE  Wrap(a) \in Slots
  BY CapacityFact DEF Wrap, Slots

(* A pointer that advances stays on the chip (flash_storage.c).            *)
LEMMA AdvanceFact ==
  ASSUME NEW a \in Slots
  PROVE  Advance(a) \in Slots
  BY CapacityFact DEF Advance, Wrap, Slots

(* A pointer moved to the next sector stays on the chip.                   *)
LEMMA NextSectorFact ==
  ASSUME writeAddr \in Slots
  PROVE  NextSector \in Slots
  BY SectorFact, CapacityFact DEF NextSector, Wrap, Slots

(* The marks are not payloads, and the sorts of cell are disjoint.         *)
LEMMA CellFact ==
  /\ Blank \in Cell /\ Dirty \in Cell /\ Torn \in Cell
  /\ BadLen \in Cell /\ Garbage \in Cell /\ Sent \in Cell
  /\ Payload \subseteq Cell
  /\ ~Readable(Sent)
  /\ NoEntry \notin Cell
  BY PayloadAssumption, MarksAssumption DEF Cell, Marks, Readable

(* What a program leaves in a cell is a cell.                              *)
LEMMA ProgrammedFact ==
  ASSUME NEW c \in Cell, NEW p \in Payload
  PROVE  Programmed(c, p) \subseteq Cell
  BY CellFact DEF Programmed

(* An erase leaves cells, and changes those of one sector only.            *)
LEMMA ErasedFact ==
  ASSUME TypeOK
  PROVE  /\ Erased \in [Slots -> Cell]
         /\ \A a \in Slots \ SectorOf(writeAddr) : Erased[a] = flash[a]
  BY CellFact DEF TypeOK, Erased

(* Whatever instant the power fails at, the chip holds cells.              *)
LEMMA InterruptedFact ==
  ASSUME StoreInv, NEW f \in Interrupted
  PROVE  f \in [Slots -> Cell]
<1> USE DEF StoreInv, TypeOK
<1>1. CASE pc = "erase"
  <2>1. f \in HalfErased
    BY <1>1 DEF Interrupted
  <2>2. PICK g \in [SectorOf(writeAddr) -> Cell] :
          f = [a \in Slots |-> IF a \in SectorOf(writeAddr)
                                 THEN g[a] ELSE flash[a]]
    BY <2>1 DEF HalfErased
  <2> QED
    BY <2>2
<1>2. CASE pc = "program"
  <2>1. f \in HalfProgrammed
    BY <1>2 DEF Interrupted
  <2>2. PICK d \in Programmed(flash[writeAddr], entry)
                   \cup {Dirty, Torn, BadLen, Garbage} :
          f = [flash EXCEPT ![writeAddr] = d]
    BY <2>1 DEF HalfProgrammed
  <2>3. d \in Cell
    BY <1>2, ProgrammedFact, CellFact
  <2> QED
    BY <2>2, <2>3
<1>3. CASE pc \in {"read", "sending"}
  <2>1. f \in HalfMarked
    BY <1>3 DEF Interrupted
  <2>2. PICK d \in {Torn, Sent} : f = [flash EXCEPT ![readAddr] = d]
    BY <2>1 DEF HalfMarked
  <2> QED
    BY <2>2, CellFact
<1>4. CASE pc \notin {"erase", "program", "read", "sending"}
  BY <1>4 DEF Interrupted
<1> QED
  BY <1>1, <1>2, <1>3, <1>4

(* The scan finds at most a chip full of entries.                          *)
LEMMA FoundFact ==
  ASSUME NEW f \in [Slots -> Cell], NEW stop \in 0 .. Capacity
  PROVE  /\ Found(f, stop) \subseteq Slots
         /\ Cardinality(Found(f, stop)) \in 0 .. Capacity
<1>1. Found(f, stop) \subseteq Slots
  BY CapacityFact DEF Found, Slots
<1>2. IsFiniteSet(Slots) /\ Cardinality(Slots) = Capacity
  BY FS_Interval, CapacityFact DEF Slots
<1>3. /\ IsFiniteSet(Found(f, stop))
      /\ Cardinality(Found(f, stop)) <= Capacity
  BY <1>1, <1>2, FS_Subset
<1>4. Cardinality(Found(f, stop)) \in Nat
  BY <1>3, FS_CardinalityType
<1> QED
  BY <1>1, <1>3, <1>4, CapacityFact

-----------------------------------------------------------------------------
(* The invariant holds at start.                                           *)
LEMMA StoreInvInit == Init => StoreInv
  BY GeometryAssumption, CapacityFact, CellFact
  DEF Init, StoreInv, TypeOK, CountBounded, Place

(* A loss counter reduced to its width stays in its range.                 *)
LEMMA CounterFact ==
  ASSUME NEW n \in Int
  PROVE  n % CounterMod \in 0 .. CounterMod - 1
  BY GeometryAssumption

(* The write path.                                                         *)
LEMMA WriteInv ==
  ASSUME StoreInv, Write \/ EraseFull \/ EraseWrap \/ PersistOverflow
                   \/ PersistFault
  PROVE  StoreInv'
<1> USE DEF StoreInv, TypeOK, CountBounded, Place, durable, ram, Orderly,
            Disturbed
<1>1. CASE Write
  <2>1. PICK p \in Payload : WriteBegin(p)
    BY <1>1 DEF Write
  <2> QED
    BY <2>1, CellFact, CapacityFact DEF WriteBegin
<1>2. CASE EraseFull
  <2>1. NextSector \in Slots
    BY NextSectorFact
  <2>2. Capacity - SectorSlots \in 0 .. Capacity - 1
    BY CapacityFact
  <2>3. (overflow + SectorSlots) % CounterMod \in 0 .. CounterMod - 1
    BY CounterFact, CapacityFact
  <2> QED
    BY <1>2, <2>1, <2>2, <2>3, ErasedFact DEF EraseFull, DropSector
<1>3. CASE EraseWrap
  BY <1>3, ErasedFact, CapacityFact DEF EraseWrap
<1>4. CASE PersistOverflow
  BY <1>4 DEF PersistOverflow, Persist
<1>5. CASE PersistFault
  BY <1>5 DEF PersistFault, Persist
<1> QED
  BY <1>1, <1>2, <1>3, <1>4, <1>5

(* Programming a slot, whatever it comes to hold, keeps the invariant.     *)
LEMMA ProgramInv ==
  ASSUME StoreInv, NEW c \in Cell, ProgramTo(c), orderly' \in BOOLEAN
  PROVE  StoreInv'
<1> USE DEF StoreInv, TypeOK, CountBounded, Place
<1>1. Advance(writeAddr) \in Slots
  BY AdvanceFact
<1>2. count' \in 0 .. Capacity
  BY CapacityFact DEF ProgramTo
<1> QED
  BY <1>1, <1>2, CellFact DEF ProgramTo

(* Skipping a slot, marked or not, keeps the invariant.                    *)
LEMMA SkipInv ==
  ASSUME StoreInv, NEW c \in {Sent, flash[readAddr]}, Skip(c),
         orderly' \in BOOLEAN
  PROVE  StoreInv'
<1> USE DEF StoreInv, TypeOK, CountBounded, Place
<1>1. Advance(readAddr) \in Slots
  BY AdvanceFact
<1>2. count' \in 0 .. Capacity
  BY CapacityFact DEF Skip
<1>3. c \in Cell
  BY CellFact
<1> QED
  BY <1>1, <1>2, <1>3, CellFact DEF Skip

(* The read path, up to the end of the publish.                            *)
LEMMA ReadInv ==
  ASSUME StoreInv, ReadBegin \/ ReadHit \/ ReadEmpty
  PROVE  StoreInv'
<1> USE DEF StoreInv, TypeOK, CountBounded, Place, durable, ram, Orderly
<1>1. CASE ReadBegin
  BY <1>1 DEF ReadBegin
<1>2. CASE ReadHit
  BY <1>2 DEF ReadHit
<1>3. CASE ReadEmpty
  BY <1>3 DEF ReadEmpty
<1> QED
  BY <1>1, <1>2, <1>3

(* The end of a resend, marked or not, keeps the invariant.                *)
LEMMA SettleInv ==
  ASSUME StoreInv, MarkSent \/ MarkFault \/ PublishFailed
  PROVE  StoreInv'
<1> USE DEF StoreInv, TypeOK, CountBounded, Place, Orderly, Disturbed
<1>1. Advance(readAddr) \in Slots
  BY AdvanceFact
<1>2. pc = "sending" => count - 1 \in 0 .. Capacity
  BY CapacityFact
<1>3. CASE MarkSent
  BY <1>1, <1>2, <1>3, CellFact DEF MarkSent, Settle
<1>4. CASE MarkFault
  <2>1. /\ flash' = flash /\ acked' = acked /\ pc' = "idle"
        /\ readAddr' = Advance(readAddr) /\ count' = count - 1
        /\ entry' = NoEntry /\ orderly' = FALSE /\ pc = "sending"
        /\ UNCHANGED <<nvsOverflow, writeAddr, overflow, taken>>
    BY <1>4 DEF MarkFault, Settle
  <2>2. TypeOK' /\ CountBounded'
    <3>1. flash' \in [Slots -> Cell] /\ acked' \in SUBSET Slots
      BY <2>1
    <3>2. readAddr' \in Slots /\ writeAddr' \in Slots
      BY <1>1, <2>1
    <3>3. count' \in Int /\ CountBounded'
      BY <1>2, <2>1, CapacityFact
    <3>4. /\ nvsOverflow' \in 0 .. CounterMod - 1
          /\ overflow' \in 0 .. CounterMod - 1
          /\ taken' \in 0 .. CounterMod - 1
      BY <2>1
    <3>5. /\ pc' \in Place /\ entry' \in Cell \cup {NoEntry}
          /\ orderly' \in BOOLEAN
      BY <2>1
    <3> QED
      BY <3>1, <3>2, <3>3, <3>4, <3>5
  <2>3. /\ pc' = "sending" => count' > 0 /\ Readable(flash'[readAddr'])
        /\ pc' \in {"erase", "persist", "program"} => entry' \in Payload
        /\ pc' \in {"persist", "program"} => count' < Capacity
    BY <2>1
  <2>4. \A a \in acked' : flash'[a] = Sent
    BY <2>1
  <2> QED
    BY <2>2, <2>3, <2>4
<1>5. CASE PublishFailed
  BY <1>5, CellFact DEF PublishFailed, Settle
<1> QED
  BY <1>3, <1>4, <1>5

(* The loss counter.                                                       *)
LEMMA OverflowInv ==
  ASSUME StoreInv,
         \/ TakeOverflow \/ OverflowReported \/ GiveBackOverflow
         \/ TakeFault \/ GiveBackFault
  PROVE  StoreInv'
<1> USE DEF StoreInv, TypeOK, CountBounded, Place, durable, ram, Orderly,
            Disturbed
<1>1. 0 \in 0 .. CounterMod - 1
  BY GeometryAssumption
<1>2. CASE TakeOverflow
  BY <1>1, <1>2 DEF TakeOverflow, Take
<1>3. CASE OverflowReported
  BY <1>1, <1>3 DEF OverflowReported
<1>4. (overflow + taken) % CounterMod \in 0 .. CounterMod - 1
  BY CounterFact, GeometryAssumption
<1>5. CASE GiveBackOverflow
  BY <1>1, <1>4, <1>5 DEF GiveBackOverflow, GiveBack
<1>6. CASE TakeFault
  BY <1>1, <1>6 DEF TakeFault, Take
<1>7. CASE GiveBackFault
  BY <1>1, <1>4, <1>7 DEF GiveBackFault, GiveBack
<1> QED
  BY <1>2, <1>3, <1>5, <1>6, <1>7

(* Power loss and the scan that follows it.                                *)
LEMMA ScanInv ==
  ASSUME StoreInv, NEW f \in [Slots -> Cell], Reset(f),
         NEW stop \in 0 .. Capacity, Scan(f, stop), orderly' \in BOOLEAN
  PROVE  StoreInv'
<1> USE DEF StoreInv, TypeOK, CountBounded, Place
<1>1. /\ Found(f, stop) \subseteq Slots
      /\ Cardinality(Found(f, stop)) \in 0 .. Capacity
  BY FoundFact
<1>2. writeAddr' \in Slots
  BY CapacityFact DEF Scan, Slots
<1>3. readAddr' \in Slots
  BY <1>1, <1>2 DEF Scan
<1>4. TypeOK' /\ CountBounded'
  <2>1. count' \in Int /\ count' \in 0 .. Capacity
    BY <1>1, CapacityFact DEF Scan
  <2>2. overflow' \in 0 .. CounterMod - 1 /\ taken' \in 0 .. CounterMod - 1
    BY GeometryAssumption DEF Reset, Scan
  <2>3. /\ flash' \in [Slots -> Cell]
        /\ nvsOverflow' \in 0 .. CounterMod - 1
        /\ acked' \in SUBSET Slots
        /\ pc' \in Place
        /\ entry' \in Cell \cup {NoEntry}
    BY DEF Reset
  <2> QED
    BY <1>2, <1>3, <2>1, <2>2, <2>3
<1>5. \A a \in acked' : flash'[a] = Sent
  BY DEF Reset
<1> QED
  BY <1>4, <1>5 DEF Reset

(* A boot, its faults included, keeps the invariant.                       *)
LEMMA BootInv ==
  ASSUME StoreInv, NEW f \in [Slots -> Cell],
         Boot(f) \/ BootScanFault(f) \/ BootNvsFault(f),
         orderly' \in BOOLEAN
  PROVE  StoreInv'
<1>1. CASE Boot(f)
  BY <1>1, ScanInv DEF Boot
<1>2. CASE BootScanFault(f)
  <2>1. Slots \subseteq 0 .. Capacity
    BY CapacityFact DEF Slots
  <2> QED
    BY <1>2, <2>1, ScanInv DEF BootScanFault
<1>3. CASE BootNvsFault(f)
  BY <1>3, CapacityFact, CellFact, GeometryAssumption
  DEF BootNvsFault, Reset, StoreInv, TypeOK, CountBounded, Place
<1> QED
  BY <1>1, <1>2, <1>3

(* Every step of Next keeps the invariant.                                 *)
LEMMA StoreInvStep == StoreInv /\ [Next]_vars => StoreInv'
<1> SUFFICES ASSUME StoreInv, [Next]_vars PROVE StoreInv'
  OBVIOUS
<1>1. CASE Write
  BY <1>1, WriteInv
<1>2. CASE Progress
  <2>1. CASE ProgramEntry
    <3>1. PICK c \in Programmed(flash[writeAddr], entry) : ProgramTo(c)
      BY <2>1 DEF ProgramEntry
    <3>2. flash[writeAddr] \in Cell /\ entry \in Payload
      BY <3>1 DEF StoreInv, TypeOK, ProgramTo
    <3>3. orderly' \in BOOLEAN
      BY <2>1 DEF ProgramEntry, Orderly, StoreInv, TypeOK
    <3> QED
      BY <3>1, <3>2, <3>3, ProgrammedFact, ProgramInv
  <2>2. CASE EraseFull \/ EraseWrap \/ PersistOverflow
    BY <2>2, WriteInv
  <2>3. CASE ReadSkip
    BY <2>3, SkipInv DEF ReadSkip, Orderly, StoreInv, TypeOK
  <2>6. CASE ReadBegin \/ ReadHit \/ ReadEmpty
    BY <2>6, ReadInv
  <2>4. CASE MarkSent \/ PublishFailed
    BY <2>4, SettleInv
  <2>5. CASE TakeOverflow \/ OverflowReported \/ GiveBackOverflow
    BY <2>5, OverflowInv
  <2> QED
    BY <1>2, <2>1, <2>2, <2>3, <2>4, <2>5, <2>6 DEF Progress
<1>3. CASE Fault
  <2>1. CASE ReadFault \/ SkipFault \/ ProgramFault
    <3>1. flash[writeAddr] \in Cell /\ orderly' \in BOOLEAN
      BY <2>1 DEF StoreInv, TypeOK, ReadFault, SkipFault, ProgramFault,
         Disturbed
    <3> QED
      BY <2>1, <3>1, SkipInv, ProgramInv DEF ReadFault, SkipFault, ProgramFault
  <2>2. CASE MarkFault
    BY <2>2, SettleInv
  <2>3. CASE PersistFault
    BY <2>3, WriteInv
  <2>4. CASE TakeFault \/ GiveBackFault
    BY <2>4, OverflowInv
  <2> QED
    BY <1>3, <2>1, <2>2, <2>3, <2>4 DEF Fault
<1>4. CASE CleanCut \/ TornCut \/ FaultyBoot
  <2>1. PICK f \in {flash} \cup Interrupted :
          Boot(f) \/ BootScanFault(f) \/ BootNvsFault(f)
    BY <1>4 DEF CleanCut, TornCut, FaultyBoot
  <2>2. f \in [Slots -> Cell]
    BY InterruptedFact DEF StoreInv, TypeOK
  <2>3. orderly' \in BOOLEAN
    BY <1>4 DEF CleanCut, TornCut, FaultyBoot, Disturbed
  <2> QED
    BY <2>1, <2>2, <2>3, BootInv
<1>5. CASE UNCHANGED vars
  BY <1>5 DEF vars, StoreInv, TypeOK, CountBounded
<1> QED
  BY <1>1, <1>2, <1>3, <1>4, <1>5 DEF Next

(* StoreInv holds in every reachable state of flash_storage.c.             *)
THEOREM StoreInvariant == Spec => []StoreInv
  BY StoreInvInit, StoreInvStep, PTL DEF Spec

(* Whatever faults and power cuts do, the variables of flash_storage.c     *)
(* stay in range and the pointers on the chip.                             *)
THEOREM TypeCorrect == Spec => []TypeOK
  BY StoreInvariant, PTL DEF StoreInv

(* The full test of flash_storage_write may be an equality and mark_sent   *)
(* may decrement unchecked: the count never leaves 0 .. Capacity.          *)
THEOREM CountStaysBounded == Spec => []CountBounded
  BY StoreInvariant, PTL DEF StoreInv

(* A delivered and marked entry is never handed out again, across any      *)
(* number of power cuts.                                                   *)
THEOREM NeverResent == Spec => []NoResend
<1>1. StoreInv => NoResend
  BY CellFact DEF StoreInv, NoResend
<1> QED
  BY <1>1, StoreInvariant, PTL

-----------------------------------------------------------------------------
(* Arithmetic of remainders.                                               *)
LEMMA RemainderUnique ==
  ASSUME NEW s \in Nat \ {0}, NEW q \in Nat, NEW r \in 0 .. s - 1
  PROVE  (s * q + r) % s = r
<1> DEFINE a == s * q + r
           q2 == a \div s
           r2 == a % s
<1>1. s * q \in Nat /\ a \in Nat
  OBVIOUS
<1>2. r2 \in 0 .. s - 1 /\ q2 \in Nat /\ a = s * q2 + r2
  BY <1>1, DivModFact
<1> HIDE DEF q2, r2
<1>3. s * q2 \in Nat /\ s * q2 + r2 = s * q + r
  BY <1>2
<1>4. CASE q < q2
  BY <1>1, <1>2, <1>3, <1>4, ProductStep
<1>5. CASE q2 < q
  BY <1>1, <1>2, <1>3, <1>5, ProductStep
<1>6. CASE q = q2
  BY <1>1, <1>2, <1>3, <1>6
<1>7. r2 = r
  BY <1>2, <1>4, <1>5, <1>6
<1> QED
  BY <1>7 DEF r2

(* The remainder of a successor: one more, or zero at a sector's end.      *)
LEMMA RemainderStep ==
  ASSUME NEW s \in Nat \ {0}, NEW a \in Nat
  PROVE  (a + 1) % s = IF (a % s) + 1 = s THEN 0 ELSE (a % s) + 1
<1> DEFINE q == a \div s
           r == a % s
<1>1. r \in 0 .. s - 1 /\ q \in Nat /\ a = s * q + r
  BY DivModFact
<1> HIDE DEF q, r
<1>2. CASE r + 1 = s
  <2>1. a + 1 = s * (q + 1) + 0
    BY <1>1, <1>2
  <2>2. (s * (q + 1) + 0) % s = 0
    BY <1>1, RemainderUnique
  <2> QED
    BY <1>2, <2>1, <2>2 DEF r
<1>3. CASE r + 1 # s
  <2>1. a + 1 = s * q + (r + 1) /\ r + 1 \in 0 .. s - 1
    BY <1>1, <1>3
  <2>2. (s * q + (r + 1)) % s = r + 1
    BY <1>1, <2>1, RemainderUnique
  <2> QED
    BY <1>3, <2>1, <2>2 DEF r
<1> QED
  BY <1>2, <1>3

(* Slot j after a sector's start has offset j.                             *)
LEMMA RemainderAdd ==
  ASSUME NEW s \in Nat \ {0}, NEW a \in Nat, a % s = 0, NEW j \in 0 .. s - 1
  PROVE  (a + j) % s = j
<1>1. a \div s \in Nat /\ a = s * (a \div s)
  BY DivModFact
<1>2. (s * (a \div s) + j) % s = j
  BY <1>1, RemainderUnique
<1> QED
  BY <1>1, <1>2

(* A sector entered at its start is the SectorSlots slots from there on.   *)
LEMMA SectorMembers ==
  ASSUME NEW a \in Slots, AtSectorStart(a)
  PROVE  /\ a + SectorSlots <= Capacity
         /\ SectorOf(a) = a .. a + SectorSlots - 1
<1>1. SectorBase(a) = a
  BY DEF SectorBase, AtSectorStart, Slots
<1>2. a + SectorSlots <= Capacity
  BY <1>1, SectorFact
<1>3. ASSUME NEW b \in SectorOf(a) PROVE b \in a .. a + SectorSlots - 1
  <2>1. b \in Slots /\ SectorBase(b) = a
    BY <1>1 DEF SectorOf
  <2> QED
    BY <2>1, SectorFact, CapacityFact DEF Slots
<1>4. ASSUME NEW j \in 0 .. SectorSlots - 1 PROVE a + j \in SectorOf(a)
  <2>1. a + j \in Slots
    BY <1>2, CapacityFact DEF Slots
  <2>2. a \in Nat /\ a % SectorSlots = 0 /\ SectorSlots \in Nat \ {0}
    BY CapacityFact DEF AtSectorStart, Slots
  <2>3. (a + j) % SectorSlots = j
    BY <2>2, RemainderAdd
  <2>4. SectorBase(a + j) = a
    BY <2>2, <2>3 DEF SectorBase
  <2> QED
    BY <1>1, <2>1, <2>4 DEF SectorOf
<1>5. ASSUME NEW b \in a .. a + SectorSlots - 1 PROVE b \in SectorOf(a)
  <2>1. b - a \in 0 .. SectorSlots - 1 /\ a + (b - a) = b
    BY CapacityFact DEF Slots
  <2> QED
    BY <1>4, <2>1
<1> QED
  BY <1>2, <1>3, <1>5

(* Inside a sector, advancing the pointer stays in it.                     *)
LEMMA AdvanceInSector ==
  ASSUME NEW a \in Slots, ~AtSectorStart(Advance(a))
  PROVE  /\ Advance(a) = a + 1
         /\ SectorOf(Advance(a)) = SectorOf(a)
<1>1. a \in Nat /\ SectorSlots \in Nat \ {0}
  BY CapacityFact DEF Slots
<1>2. Advance(a) = a + 1
  <2>1. 0 % SectorSlots = 0
    BY <1>1
  <2> QED
    BY <2>1, CapacityFact DEF Advance, Wrap, AtSectorStart, Slots
<1>3. (a + 1) % SectorSlots = (a % SectorSlots) + 1
  BY <1>1, <1>2, RemainderStep DEF AtSectorStart
<1>4. a % SectorSlots \in Nat
  BY <1>1, DivModFact
<1>5. SectorBase(a + 1) = SectorBase(a)
  BY <1>1, <1>3, <1>4 DEF SectorBase
<1> QED
  BY <1>2, <1>5 DEF SectorOf

-----------------------------------------------------------------------------
(* The steps of an orderly history: a write that destroys nothing, what    *)
(* follows it, and power cuts that are early.                              *)
OrderlyWrite == EntersOrderly /\ Write
OrderlyNext == OrderlyWrite \/ Progress
EarlyCut == Early /\ CleanCut
EarlyCutNext == OrderlyNext \/ EarlyCut

LEMMA OrderlySteps ==
  ASSUME [Next]_vars, orderly'
  PROVE  orderly /\ [EarlyCutNext]_vars
<1>1. CASE Write
  BY <1>1 DEF Write, WriteBegin, OrderlyWrite, OrderlyNext, EarlyCutNext
<1>2. CASE Progress
  <2>1. Orderly
    BY <1>2 DEF Progress, EraseFull, DropSector, EraseWrap, PersistOverflow,
       ProgramEntry, ReadBegin, ReadHit, ReadSkip, ReadEmpty, MarkSent,
       PublishFailed, TakeOverflow, OverflowReported, GiveBackOverflow
  <2> QED
    BY <1>2, <2>1 DEF Orderly, OrderlyNext, EarlyCutNext
<1>3. CASE Fault \/ TornCut \/ FaultyBoot
  BY <1>3 DEF Fault, ReadFault, SkipFault, ProgramFault, MarkFault,
     PersistFault, TakeFault, GiveBackFault, TornCut, FaultyBoot, Disturbed
<1>4. CASE CleanCut
  BY <1>4 DEF CleanCut, EarlyCut, EarlyCutNext
<1>5. CASE UNCHANGED vars
  BY <1>5 DEF vars
<1> QED
  BY <1>1, <1>2, <1>3, <1>4, <1>5 DEF Next

(* What the marks mean, and that no payload is one.                        *)
LEMMA MarksFact ==
  /\ Blank # Sent
  /\ Blank \notin Payload /\ Sent \notin Payload /\ BadLen \notin Payload
  /\ \A c \in Payload : Readable(c) /\ MagicValid(c) /\ ~MagicBlank(c)
  /\ ~MagicValid(Blank) /\ ~MagicValid(Sent)
  BY PayloadAssumption, MarksAssumption
  DEF Marks, Readable, MagicValid, MagicBlank

(* The invariant holds at start.                                           *)
LEMMA OrderlyInvInit == Init => OrderlyInv
<1> SUFFICES ASSUME Init PROVE RingShape
  BY StoreInvInit DEF OrderlyInv
<1>1. AtSectorStart(0)
  BY CapacityFact DEF AtSectorStart
<1>2. writeAddr = Wrap(readAddr + count)
  BY CapacityFact DEF Init, Wrap
<1>3. \A a \in Slots : ~(Distance(a) < count) /\ flash[a] = Blank
  BY CapacityFact DEF Init, Distance, Slots
<1> QED
  BY <1>1, <1>2, <1>3 DEF Init, RingShape

(* A ring can only fill up at the end of a sector.                         *)
LEMMA FullAtStart ==
  ASSUME OrderlyInv, count = Capacity
  PROVE  AtSectorStart(writeAddr)
<1> SUFFICES ASSUME ~AtSectorStart(writeAddr) PROVE FALSE
  OBVIOUS
<1>1. writeAddr \in Slots /\ readAddr \in Slots
  BY DEF OrderlyInv, StoreInv, TypeOK
<1>2. writeAddr = readAddr
  BY <1>1, CapacityFact DEF OrderlyInv, RingShape, Wrap, Slots
<1>3. Distance(writeAddr) < count
  BY <1>1, <1>2, CapacityFact DEF Distance, Slots
<1>4. flash[writeAddr] \in Payload
  BY <1>1, <1>3 DEF OrderlyInv, RingShape
<1>5. writeAddr \in SectorOf(writeAddr) /\ writeAddr >= writeAddr
  BY <1>1 DEF SectorOf, Slots
<1>6. flash[writeAddr] = Blank
  BY <1>5 DEF OrderlyInv, RingShape
<1> QED
  BY <1>4, <1>6, MarksFact

(* Steps that move neither the pointers nor the flash.                     *)
LEMMA StillRing ==
  ASSUME RingShape, UNCHANGED <<flash, readAddr, writeAddr, count>>,
         pc' \in {"persist", "program"} =>
           ~AtSectorStart(writeAddr) \/ pc \in {"persist", "program"},
         pc' = "erase" => AtSectorStart(writeAddr) /\ EntersOrderly,
         pc' = "sending" => entry' = flash[readAddr]
  PROVE  RingShape'
<1>1. \A a \in Slots : Distance(a)' = Distance(a)
  BY DEF Distance
<1>2. /\ (AtSectorStart(writeAddr))' = AtSectorStart(writeAddr)
      /\ (SectorOf(writeAddr))' = SectorOf(writeAddr)
      /\ EntersOrderly' = EntersOrderly
  BY DEF AtSectorStart, SectorOf, SectorBase, EntersOrderly
<1>3. (writeAddr = Wrap(readAddr + count))'
  BY DEF RingShape, Wrap
<1> QED
  BY <1>1, <1>2, <1>3 DEF RingShape

(* Beginning a write moves no pointer and keeps the ring.                  *)
LEMMA OrderlyWriteRing ==
  ASSUME OrderlyInv, OrderlyWrite
  PROVE  RingShape'
<1>1. PICK p \in Payload : WriteBegin(p)
  BY DEF OrderlyWrite, Write
<1>2. UNCHANGED <<flash, readAddr, writeAddr, count>>
  BY <1>1 DEF WriteBegin, durable, ram
<1>3. pc' = IF count = Capacity \/ AtSectorStart(writeAddr)
              THEN "erase" ELSE "program"
  BY <1>1 DEF WriteBegin
<1> QED
  BY <1>2, <1>3, FullAtStart, StillRing DEF OrderlyWrite, OrderlyInv,
     EntersOrderly

(* The steps that move neither pointers nor flash keep the ring.           *)
LEMMA QuietRing ==
  ASSUME OrderlyInv,
         \/ PersistOverflow \/ ReadBegin \/ ReadHit \/ ReadEmpty
         \/ PublishFailed \/ TakeOverflow \/ OverflowReported
         \/ GiveBackOverflow \/ UNCHANGED vars
  PROVE  RingShape'
<1>1. UNCHANGED <<flash, readAddr, writeAddr, count>>
  BY DEF PersistOverflow, Persist, ReadBegin, ReadHit, ReadEmpty,
         PublishFailed, Settle, TakeOverflow, Take, OverflowReported,
         GiveBackOverflow, GiveBack, vars, durable, ram
<1>2. pc' \in {"persist", "program"} => pc \in {"persist", "program"}
  BY DEF PersistOverflow, Persist, ReadBegin, ReadHit, ReadEmpty,
         PublishFailed, Settle, TakeOverflow, Take, OverflowReported,
         GiveBackOverflow, GiveBack, vars
<1>3. pc' = "erase" => pc = "erase"
  BY DEF PersistOverflow, Persist, ReadBegin, ReadHit, ReadEmpty,
         PublishFailed, Settle, TakeOverflow, Take, OverflowReported,
         GiveBackOverflow, GiveBack, vars
<1>4. pc' = "sending" => entry' = flash[readAddr]
  BY DEF PersistOverflow, Persist, ReadBegin, ReadHit, ReadEmpty,
         PublishFailed, Settle, TakeOverflow, Take, OverflowReported,
         GiveBackOverflow, GiveBack, vars,
         OrderlyInv, RingShape
<1> QED
  BY <1>1, <1>2, <1>3, <1>4, StillRing DEF OrderlyInv, RingShape

(* In an orderly ring an erase blanks exactly the slots ahead of the pen.  *)
LEMMA ErasedRing ==
  ASSUME OrderlyInv, pc = "erase"
  PROVE  /\ writeAddr \in Slots
         /\ writeAddr + SectorSlots <= Capacity
         /\ SectorOf(writeAddr) = writeAddr .. writeAddr + SectorSlots - 1
         /\ \A a \in Slots :
              Erased[a] = IF a \in writeAddr .. writeAddr + SectorSlots - 1
                            THEN Blank ELSE flash[a]
  BY SectorMembers DEF OrderlyInv, StoreInv, TypeOK, RingShape, Erased

(* Entering a sector the reader has left keeps the ring.                   *)
LEMMA EraseWrapRing ==
  ASSUME OrderlyInv, EraseWrap
  PROVE  RingShape'
<1> USE DEF EraseWrap, ram
<1>1. /\ flash' = Erased
      /\ writeAddr' = writeAddr /\ readAddr' = readAddr /\ count' = count
      /\ pc' = "program"
  OBVIOUS
<1>2. /\ readAddr \in Slots /\ count \in 0 .. Capacity
      /\ count <= Capacity - SectorSlots
      /\ writeAddr = Wrap(readAddr + count)
  BY DEF OrderlyInv, RingShape, EntersOrderly, StoreInv, TypeOK, CountBounded
<1>3. (writeAddr = Wrap(readAddr + count))'
  BY <1>1, <1>2 DEF Wrap
<1>4. ASSUME NEW a \in Slots
      PROVE  flash'[a] \in IF Distance(a)' < count' THEN Payload
                                                    ELSE {Blank, Sent}
  <2>1. Distance(a)' = Distance(a)
    BY <1>1 DEF Distance
  <2>2. a \in writeAddr .. writeAddr + SectorSlots - 1 => ~(Distance(a) < count)
    BY <1>2, ErasedRing, CapacityFact DEF Distance, Wrap, Slots
  <2>3. flash[a] \in IF Distance(a) < count THEN Payload ELSE {Blank, Sent}
    BY DEF OrderlyInv, RingShape
  <2> QED
    BY <1>1, <2>1, <2>2, <2>3, ErasedRing
<1>5. \A a \in (SectorOf(writeAddr))' : flash'[a] = Blank
  BY <1>1, ErasedRing DEF SectorOf, SectorBase, Erased
<1> QED
  BY <1>1, <1>3, <1>4, <1>5 DEF RingShape

(* Erasing the oldest sector of a full ring keeps the ring.                *)
LEMMA EraseFullRing ==
  ASSUME OrderlyInv, EraseFull
  PROVE  RingShape'
<1> USE DEF EraseFull, DropSector
<1>1. /\ flash' = Erased
      /\ writeAddr' = writeAddr /\ readAddr' = NextSector
      /\ count' = count - SectorSlots /\ count = Capacity
      /\ pc' = "persist" /\ pc = "erase"
  OBVIOUS
<1>2. readAddr \in Slots /\ writeAddr = Wrap(readAddr + count)
  BY DEF OrderlyInv, RingShape, StoreInv, TypeOK
<1>3. readAddr = writeAddr
  BY <1>1, <1>2, ErasedRing, CapacityFact DEF Wrap, Slots
<1>4. NextSector = Wrap(writeAddr + SectorSlots)
  BY <1>1, ErasedRing DEF NextSector, SectorBase, AtSectorStart, OrderlyInv,
     RingShape, Slots
<1>5. (writeAddr = Wrap(readAddr + count))'
  BY <1>1, <1>4, ErasedRing, CapacityFact DEF Wrap, Slots
<1>6. ASSUME NEW a \in Slots
      PROVE  flash'[a] \in IF Distance(a)' < count' THEN Payload
                                                    ELSE {Blank, Sent}
  <2>1. Distance(a)' = IF a >= NextSector THEN a - NextSector
                                          ELSE a - NextSector + Capacity
    BY <1>1 DEF Distance
  <2>2. Distance(a)' < count' <=>
          a \notin writeAddr .. writeAddr + SectorSlots - 1
    <3>1. /\ a \in Nat /\ a < Capacity /\ Capacity \in Nat
          /\ writeAddr \in Nat /\ SectorSlots \in Nat \ {0}
          /\ writeAddr + SectorSlots <= Capacity
          /\ count' = Capacity - SectorSlots
      BY <1>1, ErasedRing, CapacityFact DEF Slots
    <3>2. CASE writeAddr + SectorSlots < Capacity
      <4>1. NextSector = writeAddr + SectorSlots
        BY <1>4, <3>1, <3>2 DEF Wrap
      <4> QED
        BY <2>1, <3>1, <3>2, <4>1
    <3>3. CASE writeAddr + SectorSlots = Capacity
      <4>1. NextSector = 0
        BY <1>4, <3>1, <3>3 DEF Wrap
      <4> QED
        BY <2>1, <3>1, <3>3, <4>1
    <3> QED
      BY <3>1, <3>2, <3>3
  <2>3. Distance(a) < count
    BY <1>1, <1>2, CapacityFact DEF Distance, Slots
  <2>4. flash[a] \in Payload
    BY <2>3 DEF OrderlyInv, RingShape
  <2> QED
    BY <1>1, <2>2, <2>4, ErasedRing
<1>7. \A a \in (SectorOf(writeAddr))' : flash'[a] = Blank
  BY <1>1, ErasedRing DEF SectorOf, SectorBase, Erased
<1> QED
  BY <1>1, <1>5, <1>6, <1>7 DEF RingShape

(* The slot under the write pointer is erased when an entry goes into it.  *)
LEMMA ProgramBlank ==
  ASSUME OrderlyInv, ProgramEntry
  PROVE  /\ ProgramTo(entry)
         /\ entry \in Payload
         /\ count < Capacity
         /\ pc = "program"
<1>1. PICK c \in Programmed(flash[writeAddr], entry) : ProgramTo(c)
  BY DEF ProgramEntry
<1>2. pc = "program" /\ writeAddr \in Slots
  BY <1>1 DEF ProgramTo, OrderlyInv, StoreInv, TypeOK
<1>3. writeAddr \in SectorOf(writeAddr) /\ writeAddr >= writeAddr
  BY <1>2 DEF SectorOf, Slots
<1>4. flash[writeAddr] = Blank
  BY <1>2, <1>3 DEF OrderlyInv, RingShape
<1>5. c = entry
  BY <1>1, <1>4, MarksAssumption DEF Programmed
<1> QED
  BY <1>1, <1>2, <1>5 DEF OrderlyInv, StoreInv

(* Programming an entry extends the ring by one slot.                      *)
LEMMA ProgramRing ==
  ASSUME OrderlyInv, ProgramEntry
  PROVE  RingShape'
<1> USE ProgramBlank DEF ProgramTo
<1>1. /\ flash' = [flash EXCEPT ![writeAddr] = entry]
      /\ writeAddr' = Advance(writeAddr) /\ readAddr' = readAddr
      /\ count' = count + 1
      /\ pc' = "idle"
  OBVIOUS
<1>2. /\ readAddr \in Slots /\ writeAddr \in Slots /\ count \in 0 .. Capacity
      /\ writeAddr = Wrap(readAddr + count)
      /\ flash \in [Slots -> Cell]
  BY DEF OrderlyInv, RingShape, StoreInv, TypeOK, CountBounded
<1>3. (writeAddr = Wrap(readAddr + count))'
  BY <1>1, <1>2, CapacityFact DEF Wrap, Advance, Slots
<1>4. ASSUME NEW a \in Slots
      PROVE  flash'[a] \in IF Distance(a)' < count' THEN Payload
                                                    ELSE {Blank, Sent}
  <2>1. Distance(a)' = Distance(a)
    BY <1>1 DEF Distance
  <2>2. Distance(a) = count <=> a = writeAddr
    BY <1>2, CapacityFact DEF Distance, Wrap, Slots
  <2>3. flash[a] \in IF Distance(a) < count THEN Payload ELSE {Blank, Sent}
    BY DEF OrderlyInv, RingShape
  <2>4. Distance(a) \in Nat
    BY <1>2, CapacityFact DEF Distance, Slots
  <2> QED
    BY <1>1, <1>2, <2>1, <2>2, <2>3, <2>4
<1>5. ASSUME (~AtSectorStart(writeAddr))',
             NEW a \in (SectorOf(writeAddr))', a >= writeAddr'
      PROVE  flash'[a] = Blank
  <2>1. ~AtSectorStart(Advance(writeAddr))
    BY <1>1, <1>5 DEF AtSectorStart
  <2>2. Advance(writeAddr) = writeAddr + 1 /\ a \in SectorOf(writeAddr)
    BY <1>1, <1>2, <1>5, <2>1, AdvanceInSector DEF SectorOf, SectorBase
  <2>3. a \in Slots /\ a > writeAddr
    BY <1>1, <1>2, <1>5, <2>2 DEF SectorOf, Slots
  <2>4. flash[a] = Blank
    BY <2>2, <2>3, <1>2 DEF OrderlyInv, RingShape, Slots
  <2> QED
    BY <1>1, <1>2, <2>3, <2>4 DEF Slots
<1> QED
  BY <1>1, <1>3, <1>4, <1>5 DEF RingShape

(* Marking an entry sent takes its slot off the front of the ring.         *)
LEMMA MarkSentRing ==
  ASSUME OrderlyInv, MarkSent
  PROVE  RingShape'
<1> USE DEF MarkSent, Settle
<1>1. /\ flash' = [flash EXCEPT ![readAddr] = Sent]
      /\ readAddr' = Advance(readAddr) /\ writeAddr' = writeAddr
      /\ count' = count - 1
      /\ pc' = "idle" /\ pc = "sending"
  OBVIOUS
<1>2. /\ readAddr \in Slots /\ writeAddr \in Slots
      /\ count \in 1 .. Capacity
      /\ writeAddr = Wrap(readAddr + count)
      /\ flash \in [Slots -> Cell]
  BY <1>1, CapacityFact DEF OrderlyInv, RingShape, StoreInv, TypeOK, CountBounded
<1>3. (writeAddr = Wrap(readAddr + count))'
  BY <1>1, <1>2, CapacityFact DEF Wrap, Advance, Slots
<1>4. ASSUME NEW a \in Slots
      PROVE  flash'[a] \in IF Distance(a)' < count' THEN Payload
                                                    ELSE {Blank, Sent}
  <2>1. Distance(a)' = IF a = readAddr THEN Capacity - 1 ELSE Distance(a) - 1
    BY <1>1, <1>2, CapacityFact DEF Distance, Advance, Wrap, Slots
  <2>2. Distance(a) \in Nat
    BY <1>2, CapacityFact DEF Distance, Slots
  <2>3. flash[a] \in IF Distance(a) < count THEN Payload ELSE {Blank, Sent}
    BY DEF OrderlyInv, RingShape
  <2>4. CASE a = readAddr
    BY <1>1, <1>2, <2>1, <2>4, CapacityFact
  <2>5. CASE a # readAddr
    BY <1>1, <1>2, <2>1, <2>2, <2>3, <2>5
  <2> QED
    BY <2>4, <2>5
<1>5. flash[readAddr] \in Payload
  <2>1. Distance(readAddr) < count
    BY <1>2 DEF Distance, Slots
  <2> QED
    BY <1>2, <2>1 DEF OrderlyInv, RingShape
<1>6. ASSUME (~AtSectorStart(writeAddr))',
             NEW a \in (SectorOf(writeAddr))', a >= writeAddr'
      PROVE  flash'[a] = Blank
  <2>1. ~AtSectorStart(writeAddr) /\ a \in SectorOf(writeAddr)
    BY <1>1, <1>6 DEF AtSectorStart, SectorOf, SectorBase
  <2>2. flash[a] = Blank /\ a \in Slots
    BY <1>1, <1>6, <2>1 DEF OrderlyInv, RingShape, SectorOf
  <2>3. a # readAddr
    BY <1>5, <2>2, MarksFact
  <2> QED
    BY <1>1, <1>2, <2>2, <2>3
<1> QED
  BY <1>1, <1>3, <1>4, <1>6 DEF RingShape

(* An orderly ring has nothing corrupt to skip.                            *)
LEMMA NothingToSkip ==
  ASSUME OrderlyInv
  PROVE  ~ReadSkip
<1> SUFFICES ASSUME ReadSkip PROVE FALSE
  OBVIOUS
<1>1. readAddr \in Slots /\ count > 0 /\ ~Readable(flash[readAddr])
  BY DEF ReadSkip, Skip, OrderlyInv, StoreInv, TypeOK
<1>2. Distance(readAddr) < count
  BY <1>1 DEF Distance, Slots
<1>3. flash[readAddr] \in Payload
  BY <1>1, <1>2 DEF OrderlyInv, RingShape
<1> QED
  BY <1>1, <1>3, MarksFact

(* Every step of OrderlyNext keeps the invariant.                          *)
LEMMA OrderlyInvStep == OrderlyInv /\ [OrderlyNext]_vars => OrderlyInv'
<1> SUFFICES ASSUME OrderlyInv, [OrderlyNext]_vars PROVE OrderlyInv'
  OBVIOUS
<1>1. StoreInv'
  BY StoreInvStep DEF OrderlyInv, OrderlyNext, OrderlyWrite, Next
<1>2. RingShape'
  BY OrderlyWriteRing, QuietRing, EraseWrapRing, EraseFullRing, ProgramRing,
     MarkSentRing, NothingToSkip
  DEF OrderlyNext, Progress
<1> QED
  BY <1>1, <1>2 DEF OrderlyInv

-----------------------------------------------------------------------------
(* Slots and distances from the read pointer.                              *)
LEMMA WindowFact ==
  ASSUME OrderlyInv
  PROVE  /\ \A i \in 0 .. count - 1 : /\ Wrap(readAddr + i) \in Slots
                                      /\ Distance(Wrap(readAddr + i)) = i
         /\ \A a \in Slots : /\ Distance(a) \in Nat
                             /\ a = Wrap(readAddr + Distance(a))
<1>1. readAddr \in Slots /\ count \in 0 .. Capacity
  BY DEF OrderlyInv, StoreInv, TypeOK, CountBounded
<1> QED
  BY <1>1, CapacityFact DEF Distance, Wrap, Slots

(* The slots the reader will visit are those that hold a VALID magic.      *)
LEMMA WindowIsPending ==
  ASSUME OrderlyInv
  PROVE  Pending = Window
<1>1. count \in 0 .. Capacity
  BY DEF OrderlyInv, StoreInv, CountBounded
<1>2. ASSUME NEW a \in Pending PROVE a \in Window
  <2>1. a \in Slots /\ MagicValid(flash[a])
    BY DEF Pending
  <2>2. Distance(a) < count
    BY <2>1, MarksFact DEF OrderlyInv, RingShape
  <2>3. Distance(a) \in 0 .. count - 1 /\ a = Wrap(readAddr + Distance(a))
    BY <1>1, <2>1, <2>2, WindowFact
  <2> QED
    BY <2>3 DEF Window
<1>3. ASSUME NEW a \in Window PROVE a \in Pending
  <2>1. PICK i \in 0 .. count - 1 : a = Wrap(readAddr + i)
    BY DEF Window
  <2>2. a \in Slots /\ Distance(a) < count
    BY <1>1, <2>1, WindowFact
  <2>3. flash[a] \in Payload
    BY <2>2 DEF OrderlyInv, RingShape
  <2> QED
    BY <2>2, <2>3, MarksFact DEF Pending
<1> QED
  BY <1>2, <1>3

-----------------------------------------------------------------------------
(* Recovery.  Behind the write pointer no slot is blank, so that the scan  *)
(* of flash_storage_init does not stop early; and a loss count is in the   *)
(* hands of report_overflow only while it is reported.                     *)
NoHole == \A a \in Slots : a < writeAddr => flash[a] # Blank
TakenShape == pc # "report" => taken = 0
EarlyInv == OrderlyInv /\ NoHole /\ TakenShape

LEMMA EarlyInvInit == Init => EarlyInv
<1>1. Init => NoHole /\ TakenShape
  BY DEF Init, NoHole, TakenShape, Slots
<1> QED
  BY <1>1, OrderlyInvInit DEF EarlyInv

(* The steps of the running store leave no hole behind the write pointer.  *)
LEMMA NoHoleStep ==
  ASSUME EarlyInv, [OrderlyNext]_vars
  PROVE  NoHole'
<1>1. /\ writeAddr \in Slots /\ readAddr \in Slots
      /\ flash \in [Slots -> Cell]
  BY DEF EarlyInv, OrderlyInv, StoreInv, TypeOK
<1>2. ASSUME UNCHANGED <<flash, writeAddr>> PROVE NoHole'
  BY <1>2 DEF EarlyInv, NoHole
<1>3. CASE EraseFull \/ EraseWrap
  <2>1. flash' = Erased /\ writeAddr' = writeAddr /\ pc = "erase"
    BY <1>3 DEF EraseFull, DropSector, EraseWrap, ram
  <2> QED
    BY <2>1, <1>1, ErasedRing DEF EarlyInv, NoHole, Slots
<1>4. CASE ProgramEntry
  <2>1. /\ flash' = [flash EXCEPT ![writeAddr] = entry]
        /\ writeAddr' = Advance(writeAddr) /\ entry # Blank
    BY <1>4, ProgramBlank, MarksFact DEF EarlyInv, ProgramTo
  <2>2. \A a \in Slots : a < writeAddr' => a <= writeAddr
    BY <1>1, <2>1, CapacityFact DEF Advance, Wrap, Slots
  <2> QED
    BY <1>1, <2>1, <2>2 DEF EarlyInv, NoHole, Slots
<1>5. CASE MarkSent
  <2>1. flash' = [flash EXCEPT ![readAddr] = Sent] /\ writeAddr' = writeAddr
    BY <1>5 DEF MarkSent, Settle
  <2> QED
    BY <1>1, <2>1, MarksFact DEF EarlyInv, NoHole
<1>6. CASE OrderlyWrite \/ UNCHANGED vars
  BY <1>2, <1>6 DEF OrderlyWrite, Write, WriteBegin, durable, ram, vars
<1>7. CASE \/ PersistOverflow \/ ReadBegin \/ ReadHit \/ ReadEmpty
           \/ PublishFailed \/ TakeOverflow \/ OverflowReported
           \/ GiveBackOverflow
  BY <1>2, <1>7 DEF PersistOverflow, Persist, ReadBegin, ReadHit, ReadEmpty,
     PublishFailed, Settle, TakeOverflow, Take, OverflowReported,
     GiveBackOverflow, GiveBack, durable, ram
<1> QED
  BY <1>3, <1>4, <1>5, <1>6, <1>7, NothingToSkip
  DEF OrderlyNext, Progress, EarlyInv

LEMMA TakenStep ==
  ASSUME EarlyInv, [OrderlyNext]_vars
  PROVE  TakenShape'
<1>1. CASE OrderlyWrite \/ UNCHANGED vars
  BY <1>1 DEF OrderlyWrite, Write, WriteBegin, vars, EarlyInv, TakenShape
<1>2. CASE EraseFull \/ EraseWrap \/ PersistOverflow \/ ProgramEntry
  BY <1>2 DEF EraseFull, DropSector, EraseWrap, PersistOverflow, Persist,
     ProgramEntry, ProgramTo, ram, EarlyInv, TakenShape
<1>3. CASE \/ ReadBegin \/ ReadHit \/ ReadEmpty \/ MarkSent \/ PublishFailed
           \/ TakeOverflow \/ OverflowReported \/ GiveBackOverflow
  BY <1>3 DEF ReadBegin, ReadHit, ReadEmpty, MarkSent, PublishFailed, Settle,
     TakeOverflow, Take, OverflowReported, GiveBackOverflow, GiveBack, durable,
     ram, EarlyInv, TakenShape
<1> QED
  BY <1>1, <1>2, <1>3, NothingToSkip DEF OrderlyNext, Progress, EarlyInv

(* On the first lap the waiting slots do not wrap.                         *)
LEMMA FirstLapWindow ==
  ASSUME EarlyInv, OnFirstLap
  PROVE  /\ readAddr + count <= Capacity
         /\ Pending = readAddr .. readAddr + count - 1
<1>1. /\ readAddr \in Slots /\ writeAddr \in Slots
      /\ count \in 0 .. Capacity
      /\ writeAddr = Wrap(readAddr + count)
      /\ \A a \in Slots : flash[a] \in IF Distance(a) < count
                                        THEN Payload ELSE {Blank, Sent}
  BY DEF EarlyInv, OrderlyInv, RingShape, StoreInv, TypeOK, CountBounded
<1>2. readAddr + count <= Capacity
  <2>1. CASE \A a \in Slots : a >= writeAddr => flash[a] = Blank
    <3>1. SUFFICES ASSUME readAddr + count > Capacity PROVE FALSE
      BY <1>1, CapacityFact DEF Slots
    <3>2. /\ Capacity - 1 \in Slots /\ Capacity - 1 >= writeAddr
          /\ Distance(Capacity - 1) < count
      BY <1>1, <3>1, CapacityFact DEF Distance, Slots
    <3>3. flash[Capacity - 1] \in Payload /\ flash[Capacity - 1] = Blank
      BY <1>1, <2>1, <3>2
    <3> QED
      BY <3>3, MarksFact
  <2>2. CASE writeAddr = 0
    BY <1>1, <2>2, CapacityFact DEF Wrap, Slots
  <2> QED
    BY <2>1, <2>2 DEF OnFirstLap
<1>3. \A a \in Slots :
        Distance(a) < count <=> a \in readAddr .. readAddr + count - 1
  BY <1>1, <1>2, CapacityFact DEF Distance, Slots
<1>4. readAddr .. readAddr + count - 1 \subseteq Slots
  BY <1>1, <1>2, CapacityFact DEF Slots
<1>5. \A a \in Slots : MagicValid(flash[a]) <=> Distance(a) < count
  BY <1>1, MarksFact
<1> QED
  BY <1>2, <1>3, <1>4, <1>5 DEF Pending

(* The scan stops at the write pointer.                                    *)
LEMMA ScanStops ==
  ASSUME EarlyInv, OnFirstLap, NEW stop \in 0 .. Capacity,
         stop # Capacity => MagicBlank(flash[stop]),
         \A a \in 0 .. stop - 1 : ~MagicBlank(flash[a])
  PROVE  /\ writeAddr = IF stop = Capacity THEN 0 ELSE stop
         /\ Found(flash, stop) = Pending
<1>1. /\ writeAddr \in Slots /\ stop \in Nat /\ Capacity \in Nat
      /\ \A a \in Slots : flash[a] \in Payload \cup {Blank, Sent}
  BY CapacityFact DEF EarlyInv, OrderlyInv, RingShape, StoreInv, TypeOK
<1>2. /\ \A a \in Slots : MagicBlank(flash[a]) <=> flash[a] = Blank
      /\ MagicBlank(Blank) /\ ~MagicValid(Blank)
  BY <1>1, MarksFact, PayloadAssumption, MarksAssumption
  DEF MagicBlank, Marks
<1>3. CASE \A a \in Slots : a >= writeAddr => flash[a] = Blank
  <2>1. ~(stop < writeAddr)
    BY <1>1, <1>2 DEF EarlyInv, NoHole, Slots
  <2>2. ~(writeAddr < stop)
    BY <1>1, <1>2, <1>3 DEF Slots
  <2>3. stop = writeAddr /\ stop # Capacity
    BY <1>1, <2>1, <2>2 DEF Slots
  <2>4. \A a \in Slots : MagicValid(flash[a]) => a \in 0 .. stop - 1
    BY <1>1, <1>2, <1>3, <2>3 DEF Slots
  <2>5. 0 .. stop - 1 \subseteq Slots
    BY <1>1 DEF Slots
  <2> QED
    BY <2>3, <2>4, <2>5 DEF Found, Pending
<1>4. CASE writeAddr = 0 /\ \A a \in Slots : flash[a] # Blank
  <2>1. stop = Capacity
    BY <1>1, <1>2, <1>4 DEF Slots
  <2> QED
    BY <1>4, <2>1 DEF Found, Pending, Slots
<1> QED
  BY <1>3, <1>4 DEF OnFirstLap

(* After an early cut flash_storage_init finds everything as it was.       *)
LEMMA CutRebuilds ==
  ASSUME EarlyInv, EarlyCut
  PROVE  /\ UNCHANGED <<durable, ram, acked>>
         /\ pc' = "idle" /\ entry' = NoEntry /\ taken' = 0
<1>1. /\ readAddr \in Slots /\ writeAddr \in Slots
      /\ count \in 0 .. Capacity
      /\ writeAddr = Wrap(readAddr + count)
  BY DEF EarlyInv, OrderlyInv, RingShape, StoreInv, TypeOK, CountBounded
<1>2. OnFirstLap /\ overflow = nvsOverflow
  BY DEF EarlyCut, Early
<1>3. PICK stop \in 0 .. Capacity :
        /\ stop # Capacity => MagicBlank(flash[stop])
        /\ Reset(flash)
        /\ Scan(flash, stop)
  BY DEF EarlyCut, CleanCut, Boot
<1>4. /\ \A a \in 0 .. stop - 1 : ~MagicBlank(flash[a])
      /\ overflow' = nvsOverflow
      /\ writeAddr' = IF stop = Capacity THEN 0 ELSE stop
      /\ count' = Cardinality(Found(flash, stop))
      /\ IF Found(flash, stop) = {}
           THEN readAddr' = writeAddr'
           ELSE /\ readAddr' \in Found(flash, stop)
                /\ \A a \in Found(flash, stop) : readAddr' <= a
  BY <1>3 DEF Scan
<1>5. /\ writeAddr' = writeAddr
      /\ Found(flash, stop) = readAddr .. readAddr + count - 1
      /\ readAddr + count <= Capacity
  BY <1>2, <1>3, <1>4, ScanStops, FirstLapWindow
<1>6. count' = count
  <2>1. Cardinality(readAddr .. readAddr + count - 1) = count
    BY <1>1, FS_Interval, CapacityFact DEF Slots
  <2> QED
    BY <1>4, <1>5, <2>1
<1>7. readAddr' = readAddr
  <2>1. CASE count = 0
    <3>1. Found(flash, stop) = {}
      BY <1>1, <1>5, <2>1 DEF Slots
    <3>2. writeAddr = readAddr
      BY <1>1, <2>1, CapacityFact DEF Wrap, Slots
    <3> QED
      BY <1>4, <1>5, <3>1, <3>2
  <2>2. CASE count # 0
    <3>1. readAddr \in readAddr .. readAddr + count - 1
      BY <1>1, <2>2, CapacityFact DEF Slots
    <3>2. readAddr' \in readAddr .. readAddr + count - 1 /\ readAddr' <= readAddr
      BY <1>4, <1>5, <3>1
    <3> QED
      BY <1>1, <3>2, CapacityFact DEF Slots
  <2> QED
    BY <2>1, <2>2
<1>8. /\ flash' = flash /\ UNCHANGED nvsOverflow
      /\ pc' = "idle" /\ entry' = NoEntry /\ taken' = 0 /\ acked' = acked
  BY <1>3 DEF Reset, EarlyInv, OrderlyInv, StoreInv, TypeOK
<1> QED
  BY <1>2, <1>4, <1>5, <1>6, <1>7, <1>8 DEF durable, ram

LEMMA EarlyInvStep == EarlyInv /\ [EarlyCutNext]_vars => EarlyInv'
<1> SUFFICES ASSUME EarlyInv, [EarlyCutNext]_vars PROVE EarlyInv'
  OBVIOUS
<1>1. CASE [OrderlyNext]_vars
  BY <1>1, OrderlyInvStep, NoHoleStep, TakenStep DEF EarlyInv
<1>2. CASE EarlyCut
  <2>1. /\ UNCHANGED <<durable, ram, acked>>
        /\ pc' = "idle" /\ entry' = NoEntry /\ taken' = 0
    BY <1>2, CutRebuilds
  <2>2. StoreInv'
    <3>1. orderly' \in BOOLEAN
      BY <1>2 DEF EarlyCut, CleanCut
    <3> QED
      BY <2>1, <3>1, GeometryAssumption
      DEF EarlyInv, OrderlyInv, StoreInv, TypeOK, CountBounded, Place,
          durable, ram
  <2>3. RingShape'
    BY <2>1, StillRing DEF EarlyInv, OrderlyInv, durable, ram
  <2>4. NoHole' /\ TakenShape'
    BY <2>1 DEF EarlyInv, NoHole, TakenShape, durable, ram
  <2> QED
    BY <2>2, <2>3, <2>4 DEF EarlyInv, OrderlyInv
<1> QED
  BY <1>1, <1>2 DEF EarlyCutNext

(* It holds for as long as the history of the store is orderly.            *)
WhileOrderly == orderly => EarlyInv

LEMMA WhileOrderlyStep == WhileOrderly /\ [Next]_vars => WhileOrderly'
<1> SUFFICES ASSUME WhileOrderly, [Next]_vars, orderly' PROVE EarlyInv'
  BY DEF WhileOrderly
<1>1. orderly /\ [EarlyCutNext]_vars
  BY OrderlySteps
<1> QED
  BY <1>1, EarlyInvStep DEF WhileOrderly

(* Whatever happens, flash_storage.c keeps the ring for as long as its     *)
(* history is orderly.                                                     *)
THEOREM OrderlyInvariant == Spec => []WhileOrderly
<1>1. Init => WhileOrderly
  BY EarlyInvInit DEF WhileOrderly
<1> QED
  BY <1>1, WhileOrderlyStep, PTL DEF Spec

(* flash_storage_init (flash_storage.c:259-346): the scan that follows an  *)
(* early cut of an orderly history finds the pointers, the count and the   *)
(* losses as they were before the cut.                                     *)
Rebuilds ==
  [][ orderly /\ EarlyCut =>
        UNCHANGED <<flash, nvsOverflow, readAddr, writeAddr, count, overflow>>
    ]_vars
THEOREM EarlyCutRebuilds == Spec => Rebuilds
<1>1. WhileOrderly /\ [Next]_vars
        => [orderly /\ EarlyCut =>
              UNCHANGED <<flash, nvsOverflow, readAddr, writeAddr, count,
                          overflow>>]_vars
  BY CutRebuilds DEF durable, ram, WhileOrderly
<1> QED
  BY <1>1, OrderlyInvariant, PTL DEF Spec, Rebuilds

(* As long as the history is orderly the reader will visit every entry     *)
(* that waits on the chip, and nothing else.                               *)
THEOREM OrderlyReachable == Spec => []ReachableWhileOrderly
<1>1. WhileOrderly => ReachableWhileOrderly
  BY WindowIsPending
  DEF WhileOrderly, ReachableWhileOrderly, PendingReachable, EarlyInv
<1> QED
  BY <1>1, OrderlyInvariant, PTL

-----------------------------------------------------------------------------
(* The refinement: the slots from the read pointer on are the queue.       *)
ContentsShape ==
  /\ Contents \in Seq(Payload)
  /\ Len(Contents) = count
  /\ count \in 0 .. Capacity
  /\ \A i \in 1 .. count : Contents[i] = flash[Wrap(readAddr + i - 1)]

(* The queue read off the ring has count entries, all payloads.            *)
LEMMA ContentsFact == OrderlyInv => ContentsShape
<1> SUFFICES ASSUME OrderlyInv PROVE ContentsShape
  OBVIOUS
<1>1. count \in 0 .. Capacity /\ count \in Nat /\ readAddr \in Slots
  BY CapacityFact DEF OrderlyInv, StoreInv, CountBounded, TypeOK
<1>2. ASSUME NEW i \in 1 .. count
      PROVE  flash[Wrap(readAddr + i - 1)] \in Payload
  <2>1. i - 1 \in 0 .. count - 1 /\ readAddr + i - 1 = readAddr + (i - 1)
    BY <1>1 DEF Slots
  <2>2. /\ Wrap(readAddr + i - 1) \in Slots
        /\ Distance(Wrap(readAddr + i - 1)) < count
    BY <1>1, <2>1, WindowFact
  <2> QED
    BY <2>2 DEF OrderlyInv, RingShape
<1>3. Contents \in [1 .. count -> Payload]
  BY <1>2 DEF Contents
<1> QED
  BY <1>1, <1>3 DEF Contents, ContentsShape

(* The same of the state after a step.                                     *)
LEMMA ContentsFactNext == OrderlyInv' => ContentsShape'
  BY ContentsFact, PTL

(* The ring starts as the empty store.                                     *)
LEMMA StoreInit == Init => Store!Init
  BY DEF Init, Store!Init, Contents

(* Programming an entry puts it at the end of the store.                   *)
LEMMA PutStep ==
  ASSUME OrderlyInv, OrderlyInv', ProgramEntry
  PROVE  Store!Put(entry)
<1> USE ProgramBlank DEF ProgramTo
<1>0. ContentsShape
  BY ContentsFact
<1>1. /\ readAddr \in Slots /\ writeAddr \in Slots
      /\ writeAddr = Wrap(readAddr + count)
      /\ flash \in [Slots -> Cell]
  BY DEF OrderlyInv, RingShape, StoreInv, TypeOK
<1>2. Contents' = Append(Contents, entry)
  <2>1. /\ Contents' \in Seq(Payload) /\ Len(Contents') = count + 1
        /\ \A i \in 1 .. count + 1 :
             Contents'[i] = flash'[Wrap(readAddr + i - 1)]
    BY ContentsFactNext DEF ContentsShape, Wrap
  <2>2. /\ Append(Contents, entry) \in Seq(Payload)
        /\ Len(Append(Contents, entry)) = count + 1
        /\ Append(Contents, entry)[count + 1] = entry
        /\ \A i \in 1 .. count : Append(Contents, entry)[i] = Contents[i]
    BY <1>0 DEF ContentsShape
  <2>3. ASSUME NEW i \in 1 .. count + 1
        PROVE  Contents'[i] = Append(Contents, entry)[i]
    <3>1. CASE i = count + 1
      <4>1. readAddr + i - 1 = readAddr + count
        BY <3>1, <1>1, <1>0 DEF ContentsShape, Slots
      <4> QED
        BY <1>1, <2>1, <2>2, <3>1, <4>1
    <3>2. CASE i # count + 1
      <4>1. i \in 1 .. count
        BY <3>2, <1>0 DEF ContentsShape
      <4>2. Wrap(readAddr + i - 1) # writeAddr
        BY <1>1, <4>1, <1>0, CapacityFact DEF ContentsShape, Wrap, Slots
      <4>3. flash'[Wrap(readAddr + i - 1)] = flash[Wrap(readAddr + i - 1)]
        BY <1>1, <4>1, <4>2, <1>0, CapacityFact DEF ContentsShape, Wrap, Slots
      <4> QED
        BY <2>1, <2>2, <4>1, <4>3, <1>0 DEF ContentsShape
    <3> QED
      BY <3>1, <3>2
  <2> QED
    BY <2>1, <2>2, <2>3, SeqEqual
<1>3. Len(Contents) < Capacity
  BY <1>0 DEF ContentsShape
<1> QED
  BY <1>2, <1>3 DEF Store!Put

(* Erasing the oldest sector drops the oldest entries of the store.        *)
LEMMA DropStep ==
  ASSUME OrderlyInv, OrderlyInv', EraseFull
  PROVE  Store!DropOldest
<1> USE DEF EraseFull, DropSector
<1>0. ContentsShape
  BY ContentsFact
<1>1. /\ readAddr \in Slots /\ flash \in [Slots -> Cell]
      /\ writeAddr = Wrap(readAddr + count) /\ count = Capacity
      /\ pc = "erase" /\ pc' = "persist"
  BY DEF OrderlyInv, RingShape, StoreInv, TypeOK
<1>2. readAddr = writeAddr
  BY <1>1, CapacityFact DEF Wrap, Slots
<1>3. NextSector = Wrap(writeAddr + SectorSlots)
  BY <1>1, ErasedRing DEF NextSector, SectorBase, AtSectorStart, OrderlyInv,
     RingShape, Slots
<1> DEFINE rest == SubSeq(Contents, SectorSlots + 1, Capacity)
<1>4. /\ rest \in Seq(Payload)
      /\ Len(rest) = Capacity - SectorSlots
      /\ \A i \in 1 .. Capacity - SectorSlots :
           rest[i] = Contents[SectorSlots + i]
  <2>1. \A i \in SectorSlots + 1 .. Capacity : Contents[i] \in Payload
    BY <1>1, <1>0, CapacityFact, ElementOfSeq DEF ContentsShape
  <2>2. SectorSlots + 1 \in Int /\ Capacity \in Int
    BY CapacityFact
  <2>3. /\ rest \in Seq(Payload)
        /\ Len(rest) = IF SectorSlots + 1 <= Capacity
                         THEN Capacity - (SectorSlots + 1) + 1 ELSE 0
        /\ \A i \in 1 .. Capacity - (SectorSlots + 1) + 1 :
             rest[i] = Contents[SectorSlots + 1 + i - 1]
    BY <2>1, <2>2, SubSeqProperties
  <2> HIDE DEF rest
  <2>4. Len(rest) = Capacity - SectorSlots
    BY <2>3, CapacityFact
  <2>5. ASSUME NEW i \in 1 .. Capacity - SectorSlots
        PROVE  rest[i] = Contents[SectorSlots + i]
    <3>1. SectorSlots + 1 + i - 1 = SectorSlots + i
      BY CapacityFact
    <3>2. i \in 1 .. Capacity - (SectorSlots + 1) + 1
      BY CapacityFact
    <3> QED
      BY <2>3, <3>1, <3>2
  <2> QED
    BY <2>3, <2>4, <2>5
<1>5. /\ Contents' \in Seq(Payload) /\ Len(Contents') = Capacity - SectorSlots
      /\ \A i \in 1 .. Capacity - SectorSlots :
           Contents'[i] = Erased[Wrap(NextSector + i - 1)]
  BY <1>1, ContentsFactNext DEF ContentsShape, Wrap
<1>6. ASSUME NEW i \in 1 .. Capacity - SectorSlots
      PROVE  Contents'[i] = rest[i]
  <2>1. Wrap(NextSector + i - 1) = Wrap(readAddr + (SectorSlots + i) - 1)
    BY <1>1, <1>2, <1>3, ErasedRing, CapacityFact DEF Wrap, Slots
  <2>2. /\ Wrap(NextSector + i - 1) \in Slots
        /\ Wrap(NextSector + i - 1)
             \notin writeAddr .. writeAddr + SectorSlots - 1
    BY <1>1, <1>2, <1>3, ErasedRing, CapacityFact DEF Wrap, Slots
  <2>3. SectorSlots + i \in 1 .. count
    BY <1>1, CapacityFact
  <2>4. Erased[Wrap(NextSector + i - 1)] = flash[Wrap(NextSector + i - 1)]
    BY <1>1, <2>2, ErasedRing
  <2>5. Contents[SectorSlots + i] = flash[Wrap(readAddr + (SectorSlots + i) - 1)]
    BY <2>3, <1>0 DEF ContentsShape
  <2> QED
    BY <1>4, <1>5, <2>1, <2>4, <2>5
<1>7. Contents' = rest
  <2> HIDE DEF rest
  <2> QED
    BY <1>4, <1>5, <1>6, SeqEqual
<1>8. Len(Contents) = Capacity
  BY <1>1, <1>0 DEF ContentsShape
<1> QED
  BY <1>1, <1>7, <1>8 DEF Store!DropOldest

(* Marking an entry sent delivers the store's head.                        *)
LEMMA DeliverStep ==
  ASSUME OrderlyInv, OrderlyInv', MarkSent
  PROVE  Store!Deliver
<1> USE DEF MarkSent, Settle
<1>0. ContentsShape /\ ContentsShape'
  BY ContentsFact, ContentsFactNext
<1>1. /\ readAddr \in Slots /\ flash \in [Slots -> Cell]
      /\ count \in 1 .. Capacity
      /\ pc = "sending" /\ pc' = "idle"
  BY CapacityFact DEF OrderlyInv, StoreInv, CountBounded, TypeOK
<1>2. Contents # <<>>
  BY <1>0, <1>1 DEF ContentsShape
<1>3. /\ Tail(Contents) \in Seq(Payload)
      /\ Len(Tail(Contents)) = count - 1
      /\ \A i \in 1 .. count - 1 : Tail(Contents)[i] = Contents[i + 1]
  BY <1>0, <1>2, HeadTailProperties DEF ContentsShape
<1>4. /\ Contents' \in Seq(Payload) /\ Len(Contents') = count - 1
      /\ \A i \in 1 .. count - 1 :
           Contents'[i] = flash'[Wrap(Advance(readAddr) + i - 1)]
  BY <1>0 DEF ContentsShape, Wrap
<1>5. ASSUME NEW i \in 1 .. count - 1
      PROVE  Contents'[i] = Tail(Contents)[i]
  <2>1. Wrap(Advance(readAddr) + i - 1) = Wrap(readAddr + (i + 1) - 1)
    BY <1>1, CapacityFact DEF Advance, Wrap, Slots
  <2>2. /\ Wrap(readAddr + (i + 1) - 1) \in Slots
        /\ Wrap(readAddr + (i + 1) - 1) # readAddr
    BY <1>1, CapacityFact DEF Wrap, Slots
  <2>3. i + 1 \in 1 .. count
    BY <1>1
  <2>4. Contents[i + 1] = flash[Wrap(readAddr + (i + 1) - 1)]
    BY <1>0, <2>3 DEF ContentsShape
  <2> QED
    BY <1>1, <1>3, <1>4, <2>1, <2>2, <2>4
<1>6. Contents' = Tail(Contents)
  BY <1>3, <1>4, <1>5, SeqEqual
<1>7. entry # NoEntry
  BY <1>1, CellFact DEF OrderlyInv, RingShape
<1> QED
  BY <1>1, <1>6, <1>7 DEF Store!Deliver

(* Reading an entry fetches the store's head.                              *)
LEMMA FetchStep ==
  ASSUME OrderlyInv, ReadHit
  PROVE  Store!Fetch
<1> USE DEF ReadHit, durable, ram
<1>0. ContentsShape
  BY ContentsFact
<1>1. readAddr \in Slots /\ count > 0
  BY DEF OrderlyInv, StoreInv, TypeOK
<1>2. Contents # <<>> /\ Head(Contents) = Contents[1] /\ 1 \in 1 .. count
  BY <1>0, <1>1 DEF ContentsShape
<1>3. Wrap(readAddr + 1 - 1) = readAddr
  BY <1>1, CapacityFact DEF Wrap, Slots
<1>4. Contents[1] = flash[readAddr]
  BY <1>0, <1>2, <1>3 DEF ContentsShape
<1>5. Contents' = Contents
  BY DEF Contents, Wrap
<1> QED
  BY <1>2, <1>4, <1>5 DEF Store!Fetch

(* The steps that leave the queue alone.                                   *)
LEMMA QuietStep ==
  ASSUME OrderlyInv,
         \/ OrderlyWrite \/ EraseWrap \/ PersistOverflow \/ ReadBegin
         \/ ReadEmpty \/ PublishFailed \/ TakeOverflow \/ OverflowReported
         \/ GiveBackOverflow \/ UNCHANGED vars
  PROVE  [Store!Next]_(Store!vars) /\ Contents' = Contents
<1> USE DEF durable, ram, Store!vars
<1>1. CASE OrderlyWrite \/ PersistOverflow \/ ReadBegin \/ ReadEmpty
           \/ UNCHANGED vars
  <2>1. Contents' = Contents
    BY <1>1 DEF Contents, Wrap, OrderlyWrite, Write, WriteBegin, PersistOverflow,
       Persist, ReadBegin, ReadEmpty, vars
  <2>2. pc = "sending" <=> pc' = "sending"
    BY <1>1 DEF OrderlyWrite, Write, WriteBegin, PersistOverflow,
       Persist, ReadBegin, ReadEmpty, vars
  <2>3. pc = "sending" => entry' = entry
    BY <1>1 DEF OrderlyWrite, Write, WriteBegin, PersistOverflow,
       Persist, ReadBegin, ReadEmpty, vars
  <2>4. overflow' = overflow /\ taken' = taken
    BY <1>1 DEF OrderlyWrite, Write, WriteBegin, PersistOverflow,
       Persist, ReadBegin, ReadEmpty, vars
  <2> QED
    BY <2>1, <2>2, <2>3, <2>4
<1>2. CASE EraseWrap
  <2>1. /\ flash' = Erased /\ count' = count /\ readAddr' = readAddr
        /\ pc = "erase" /\ pc' = "program"
        /\ overflow' = overflow /\ taken' = taken
    BY <1>2 DEF EraseWrap
  <2>2. /\ readAddr \in Slots /\ count \in 0 .. Capacity
        /\ count <= Capacity - SectorSlots
        /\ writeAddr = Wrap(readAddr + count)
    BY <1>2 DEF EraseWrap, OrderlyInv, RingShape, EntersOrderly, StoreInv,
       TypeOK, CountBounded
  <2>3. ASSUME NEW i \in 1 .. count
        PROVE  Erased[Wrap(readAddr + i - 1)] = flash[Wrap(readAddr + i - 1)]
    <3>1. writeAddr \in Slots /\ writeAddr + SectorSlots <= Capacity
      BY <2>1, ErasedRing
    <3>2. /\ Wrap(readAddr + i - 1) \in Slots
          /\ Wrap(readAddr + i - 1)
               \notin writeAddr .. writeAddr + SectorSlots - 1
      BY <2>2, <3>1, CapacityFact DEF Wrap, Slots
    <3> QED
      BY <2>1, <3>2, ErasedRing
  <2>4. Contents' = [i \in 1 .. count |-> Erased[Wrap(readAddr + i - 1)]]
    BY <2>1 DEF Contents, Wrap
  <2>5. Contents' = Contents
    BY <2>3, <2>4 DEF Contents
  <2> QED
    BY <2>1, <2>5
<1>3. CASE PublishFailed
  <2>1. Contents' = Contents
    BY <1>3 DEF PublishFailed, Settle, Contents, Wrap
  <2> QED
    BY <1>3, <2>1 DEF PublishFailed, Settle, Store!Next, Store!Retry
<1>4. CASE TakeOverflow
  <2>1. Contents' = Contents
    BY <1>4 DEF TakeOverflow, Take, Contents, Wrap
  <2> QED
    BY <1>4, <2>1 DEF TakeOverflow, Take, Store!Next, Store!Take
<1>5. CASE OverflowReported
  <2>1. Contents' = Contents
    BY <1>5 DEF OverflowReported, Contents, Wrap
  <2> QED
    BY <1>5, <2>1 DEF OverflowReported, Store!Next, Store!Reported
<1>6. CASE GiveBackOverflow
  <2>1. Contents' = Contents
    BY <1>6 DEF GiveBackOverflow, GiveBack, Contents, Wrap
  <2> QED
    BY <1>6, <2>1 DEF GiveBackOverflow, GiveBack, Store!Next, Store!GiveBack
<1> QED
  BY <1>1, <1>2, <1>3, <1>4, <1>5, <1>6

(* The steps of the running store.                                         *)
LEMMA OrderlyStoreStep ==
  ASSUME OrderlyInv, OrderlyInv', [OrderlyNext]_vars
  PROVE  [Store!Next]_(Store!vars)
<1>1. CASE ProgramEntry
  BY <1>1, PutStep, ProgramBlank DEF Store!Next
<1>2. CASE EraseFull
  BY <1>2, DropStep DEF Store!Next
<1>3. CASE MarkSent
  BY <1>3, DeliverStep DEF Store!Next
<1>4. CASE ReadHit
  BY <1>4, FetchStep DEF Store!Next
<1> QED
  BY <1>1, <1>2, <1>3, <1>4, QuietStep, NothingToSkip
  DEF OrderlyNext, Progress

(* For the store an early cut is a publish that failed, or a report that   *)
(* is over, or nothing at all.                                             *)
LEMMA CutStoreStep ==
  ASSUME EarlyInv, EarlyCut
  PROVE  [Store!Next]_(Store!vars) /\ Contents' = Contents
<1>1. /\ UNCHANGED <<durable, ram, acked>>
      /\ pc' = "idle" /\ entry' = NoEntry /\ taken' = 0
  BY CutRebuilds
<1>2. Contents' = Contents /\ overflow' = overflow
  BY <1>1 DEF Contents, Wrap, durable, ram
<1>3. CASE pc = "sending"
  <2>1. taken = 0
    BY <1>3 DEF EarlyInv, TakenShape
  <2> QED
    BY <1>1, <1>2, <1>3, <2>1 DEF Store!Next, Store!Retry
<1>4. CASE pc # "sending"
  BY <1>1, <1>2, <1>4 DEF Store!Next, Store!Reported
<1> QED
  BY <1>3, <1>4

(* As long as the history is orderly, the ring buffer is the first-in      *)
(* first-out store of CacheStore.                                          *)
THEOREM OrderlyImplementsStore == Spec => ImplementsStore
<1>1. WhileOrderly /\ WhileOrderly' /\ [Next]_vars
        => [orderly' => [Store!Next]_(Store!vars)]_vars
  <2> SUFFICES ASSUME WhileOrderly, WhileOrderly', [Next]_vars, orderly'
               PROVE  [Store!Next]_(Store!vars)
    OBVIOUS
  <2>1. orderly /\ [EarlyCutNext]_vars
    BY OrderlySteps
  <2>2. EarlyInv /\ EarlyInv'
    BY <2>1 DEF WhileOrderly
  <2>3. OrderlyInv /\ OrderlyInv'
    BY <2>2 DEF EarlyInv
  <2> QED
    BY <2>1, <2>2, <2>3, OrderlyStoreStep, CutStoreStep DEF EarlyCutNext
<1> QED
  BY <1>1, StoreInit, OrderlyInvariant, PTL DEF Spec, ImplementsStore

-----------------------------------------------------------------------------
(***************************************************************************)
(* What the client of the store relies on.                                 *)
(***************************************************************************)
(* A slot that comes to hold an entry is the one under the write pointer,  *)
(* and the entry the one being written: nothing else brings one back.      *)
FlashMoves ==
  \A a \in Slots :
    \/ flash'[a] = flash[a]
    \/ flash'[a] \notin Payload
    \/ pc = "program" /\ a = writeAddr /\ flash'[a] = entry

LEMMA MarksNoPayload ==
  /\ Blank \notin Payload /\ Dirty \notin Payload /\ Torn \notin Payload
  /\ BadLen \notin Payload /\ Garbage \notin Payload /\ Sent \notin Payload
  /\ NoEntry \notin Payload
  BY PayloadAssumption DEF Marks

LEMMA ProgrammedMoves ==
  ASSUME NEW c \in Cell, NEW p \in Payload, NEW d \in Programmed(c, p)
  PROVE  d = p \/ d \notin Payload
  BY MarksNoPayload DEF Programmed

LEMMA CutMoves ==
  ASSUME StoreInv, NEW f \in {flash} \cup Interrupted, flash' = f
  PROVE  FlashMoves
<1> USE DEF StoreInv, TypeOK
<1>1. CASE f = flash
  BY <1>1 DEF FlashMoves
<1>2. CASE f \in HalfErased
  <2>1. PICK g \in {h \in [SectorOf(writeAddr) -> Cell] :
                     \A a \in SectorOf(writeAddr) :
                       h[a] \in {flash[a], Blank, Torn}} :
          f = [a \in Slots |-> IF a \in SectorOf(writeAddr)
                                 THEN g[a] ELSE flash[a]]
    BY <1>2 DEF HalfErased
  <2> QED
    BY <2>1, MarksNoPayload DEF FlashMoves
<1>3. CASE pc = "program" /\ f \in HalfProgrammed
  <2>1. PICK d \in Programmed(flash[writeAddr], entry)
                   \cup {Dirty, Torn, BadLen, Garbage} :
          f = [flash EXCEPT ![writeAddr] = d]
    BY <1>3 DEF HalfProgrammed
  <2>2. d = entry \/ d \notin Payload
    BY <1>3, <2>1, ProgrammedMoves, MarksNoPayload
  <2> QED
    BY <1>3, <2>1, <2>2 DEF FlashMoves
<1>4. CASE f \in HalfMarked
  <2>1. PICK d \in {Torn, Sent} : f = [flash EXCEPT ![readAddr] = d]
    BY <1>4 DEF HalfMarked
  <2> QED
    BY <2>1, MarksNoPayload DEF FlashMoves
<1> QED
  BY <1>1, <1>2, <1>3, <1>4 DEF Interrupted

LEMMA FlashStep ==
  ASSUME StoreInv, [Next]_vars
  PROVE  FlashMoves
<1> USE DEF StoreInv, TypeOK
<1>1. CASE UNCHANGED flash
  BY <1>1 DEF FlashMoves
<1>2. CASE Write \/ UNCHANGED vars
  BY <1>1, <1>2 DEF Write, WriteBegin, durable, vars
<1>3. CASE EraseFull \/ EraseWrap
  <2>1. flash' = Erased
    BY <1>3 DEF EraseFull, DropSector, EraseWrap
  <2> QED
    BY <2>1, MarksNoPayload DEF FlashMoves, Erased
<1>4. ASSUME NEW c \in Cell, ProgramTo(c), c = entry \/ c \notin Payload
               \/ c = flash[writeAddr]
      PROVE  FlashMoves
  BY <1>4 DEF ProgramTo, FlashMoves
<1>5. CASE ProgramEntry
  <2>1. PICK c \in Programmed(flash[writeAddr], entry) : ProgramTo(c)
    BY <1>5 DEF ProgramEntry
  <2>2. entry \in Payload /\ flash[writeAddr] \in Cell
    BY <2>1 DEF ProgramTo
  <2> QED
    BY <1>4, <2>1, <2>2, ProgrammedFact, ProgrammedMoves
<1>6. CASE ProgramFault
  <2>1. flash[writeAddr] \in Cell
    OBVIOUS
  <2> QED
    BY <1>4, <1>6, <2>1 DEF ProgramFault
<1>7. CASE ReadSkip \/ ReadFault \/ SkipFault
  BY <1>7, MarksNoPayload DEF ReadSkip, ReadFault, SkipFault, Skip, FlashMoves
<1>8. CASE MarkSent
  BY <1>8, MarksNoPayload DEF MarkSent, Settle, FlashMoves
<1>9. CASE \/ PersistOverflow \/ ReadBegin \/ ReadHit \/ ReadEmpty
           \/ PublishFailed \/ TakeOverflow \/ OverflowReported
           \/ GiveBackOverflow
  BY <1>1, <1>9 DEF PersistOverflow, Persist, ReadBegin, ReadHit, ReadEmpty,
     PublishFailed, Settle, TakeOverflow, Take, OverflowReported,
     GiveBackOverflow, GiveBack, durable
<1>10. CASE MarkFault \/ PersistFault \/ TakeFault \/ GiveBackFault
  BY <1>1, <1>10 DEF MarkFault, Settle, PersistFault, Persist, TakeFault, Take,
     GiveBackFault, GiveBack
<1>11. CASE CleanCut \/ TornCut \/ FaultyBoot
  <2>1. PICK f \in {flash} \cup Interrupted : Reset(f)
    BY <1>11 DEF CleanCut, TornCut, FaultyBoot, Boot, BootScanFault,
       BootNvsFault
  <2> QED
    BY <2>1, CutMoves DEF Reset
<1> QED
  BY <1>2, <1>3, <1>5, <1>6, <1>7, <1>8, <1>9, <1>10, <1>11
  DEF Next, Progress, Fault

(* The entry in the client's hands is the one under the read pointer, and  *)
(* a count is in its hands only while it reports it.                       *)
HandShape == pc = "sending" => entry = flash[readAddr]

LEMMA HandsStep ==
  ASSUME HandShape, TakenShape, [Next]_vars
  PROVE  HandShape' /\ TakenShape'
<1> USE DEF HandShape, TakenShape
<1>1. CASE Write \/ UNCHANGED vars
  BY <1>1 DEF Write, WriteBegin, vars
<1>2. CASE \/ EraseFull \/ EraseWrap \/ PersistOverflow \/ PersistFault
           \/ ProgramEntry \/ ProgramFault
  BY <1>2 DEF EraseFull, DropSector, EraseWrap, PersistOverflow, PersistFault,
     Persist, ProgramEntry, ProgramFault, ProgramTo
<1>3. CASE \/ ReadBegin \/ ReadHit \/ ReadEmpty \/ ReadSkip \/ ReadFault
           \/ SkipFault
  BY <1>3 DEF ReadBegin, ReadHit, ReadEmpty, ReadSkip, ReadFault, SkipFault,
     Skip, durable, ram
<1>4. CASE MarkSent \/ MarkFault \/ PublishFailed
  BY <1>4 DEF MarkSent, MarkFault, PublishFailed, Settle
<1>5. CASE \/ TakeOverflow \/ TakeFault \/ OverflowReported
           \/ GiveBackOverflow \/ GiveBackFault
  BY <1>5 DEF TakeOverflow, TakeFault, Take, OverflowReported,
     GiveBackOverflow, GiveBackFault, GiveBack
<1>6. CASE CleanCut \/ TornCut \/ FaultyBoot
  BY <1>6 DEF CleanCut, TornCut, FaultyBoot, Boot, BootScanFault,
     BootNvsFault, Reset
<1> QED
  BY <1>1, <1>2, <1>3, <1>4, <1>5, <1>6 DEF Next, Progress, Fault

(* In an orderly history the queue grows at its end and shrinks at its     *)
(* front.                                                                  *)
LEMMA ContentsStep ==
  ASSUME OrderlyInv, OrderlyInv', EarlyInv, [EarlyCutNext]_vars
  PROVE  \/ Contents' = Contents
         \/ pc = "program" /\ Contents' = Append(Contents, entry)
         \/ /\ Len(Contents) = Capacity
            /\ Contents' = SubSeq(Contents, SectorSlots + 1, Capacity)
         \/ Contents # <<>> /\ Contents' = Tail(Contents)
<1>1. CASE ProgramEntry
  BY <1>1, PutStep, ProgramBlank DEF Store!Put
<1>2. CASE EraseFull
  BY <1>2, DropStep DEF Store!DropOldest
<1>3. CASE MarkSent
  <2>1. pc = "sending" /\ count > 0 /\ Len(Contents) = count
    BY <1>3, ContentsFact DEF MarkSent, Settle, OrderlyInv, StoreInv,
       ContentsShape
  <2>2. Contents # <<>>
    BY <2>1
  <2> QED
    BY <1>3, <2>2, DeliverStep DEF Store!Deliver
<1>4. CASE ReadHit
  BY <1>4, FetchStep DEF Store!Fetch
<1>5. CASE EarlyCut
  BY <1>5, CutStoreStep
<1> QED
  BY <1>1, <1>2, <1>3, <1>4, <1>5, QuietStep, NothingToSkip
  DEF EarlyCutNext, OrderlyNext, Progress
=============================================================================
