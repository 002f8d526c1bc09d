---------------------------- MODULE FlashStorage ----------------------------
(***************************************************************************)
(* The ring buffer of storage/flash_storage.c on the W25Q64 NOR flash of   *)
(* drivers/w25q64.c, with the loss counter it keeps in NVS.                *)
(*                                                                         *)
(* A slot is one 256-byte entry (one flash page), numbered from the start  *)
(* of the chip; a sector is SectorSlots slots, the unit of an erase.       *)
(* cache_task is the only caller of the store, so the mutex is never       *)
(* contended and pc says where that one caller is.  A step is one durable  *)
(* effect together with the RAM updates that follow it, so that a power    *)
(* cut can fall between any two of them, or in the middle of one.          *)
(***************************************************************************)
EXTENDS Integers, FiniteSets, Sequences

CONSTANTS
  Payload,      \* the payloads the gateway stores
  Sectors,      \* sectors of the chip               (2048 in the code)
  SectorSlots,  \* entries of a sector                 (16 in the code)
  CounterMod,   \* the loss counter wraps at this    (2^32 in the code)
  (* What a slot can hold besides an intact entry:                         *)
  Blank,        \* erased: all bits one
  Dirty,        \* the magic reads BLANK, but data bits were programmed
  Torn,         \* the magic is none of the three known values
  BadLen,       \* magic VALID, data_len exceeds CACHE_DATA_MAX
  Garbage,      \* magic VALID, a legal data_len, a damaged payload
  Sent,         \* the magic reads SENT
  NoEntry       \* no payload is being written or published

Marks == {Blank, Dirty, Torn, BadLen, Garbage, Sent}

ASSUME GeometryAssumption ==
  /\ Sectors \in Nat \ {0}
  /\ SectorSlots \in Nat \ {0}
  /\ CounterMod \in Nat \ {0}

ASSUME MarksAssumption ==
  /\ Blank \notin {Dirty, Torn, BadLen, Garbage, Sent}
  /\ Dirty \notin {Torn, BadLen, Garbage, Sent}
  /\ Torn \notin {BadLen, Garbage, Sent}
  /\ BadLen \notin {Garbage, Sent}
  /\ Garbage # Sent
  /\ NoEntry \notin Marks

ASSUME PayloadAssumption == Payload \cap (Marks \cup {NoEntry}) = {}

Capacity == Sectors * SectorSlots
Slots == 0 .. Capacity - 1
Cell == Payload \cup Marks

(* The magic word of a cell, and whether flash_storage_read accepts it.    *)
MagicBlank(c) == c \in {Blank, Dirty}
MagicValid(c) == c \in Payload \cup {Garbage, BadLen}
Readable(c)   == c \in Payload \cup {Garbage}

(* Slot arithmetic: pointers wrap at the end of the chip.                  *)
Wrap(a) == IF a >= Capacity THEN a - Capacity ELSE a
Advance(a) == Wrap(a + 1)
SectorBase(a) == a - (a % SectorSlots)
AtSectorStart(a) == a % SectorSlots = 0
SectorOf(a) == {b \in Slots : SectorBase(b) = SectorBase(a)}

VARIABLES
  flash,        \* the chip: slot -> cell
  nvsOverflow,  \* "ovf_cnt" in NVS
  readAddr,     \* s_read_addr
  writeAddr,    \* s_write_addr
  count,        \* s_entry_count
  overflow,     \* s_overflow_count
  pc,           \* where the caller is inside the store
  entry,        \* the payload being written, or read and being published
  taken,        \* the loss count in report_overflow's hands
  acked,        \* history: slots whose entry was delivered and marked,
                \* and whose contents did not change since
  orderly       \* history: no fault so far, no power cut but early ones, and
                \* no write that entered a sector with entries waiting in it

durable == <<flash, nvsOverflow>>
ram == <<readAddr, writeAddr, count, overflow>>
vars == <<flash, nvsOverflow, readAddr, writeAddr, count, overflow,
          pc, entry, taken, acked, orderly>>

(* The history stays orderly, or does not.                                 *)
Orderly == UNCHANGED orderly
Disturbed == orderly' = FALSE

(* What the chip does.  A program only clears bits, so an entry programmed *)
(* over anything but an erased slot leaves the conjunction of both.        *)
Programmed(c, p) ==
  CASE c = Blank -> {p}
    [] c = Dirty -> {Garbage}
    [] c = Sent  -> {Sent}
    [] c = Torn  -> {Torn, Garbage}
    [] OTHER     -> {Garbage, BadLen}

Erased == [a \in Slots |-> IF a \in SectorOf(writeAddr) THEN Blank ELSE flash[a]]

(***************************************************************************)
(* flash_storage_write                                                     *)
(***************************************************************************)
(* No entry waits in the sector a write is about to enter, unless the ring *)
(* is exactly full: the backlog is at most Capacity - SectorSlots, or it   *)
(* grew to Capacity with nothing sent.  The code has no such test.         *)
EntersOrderly ==
  AtSectorStart(writeAddr) =>
    count = Capacity \/ count <= Capacity - SectorSlots

WriteBegin(p) ==
  /\ pc = "idle"
  /\ entry' = p
  /\ pc' = IF count = Capacity \/ AtSectorStart(writeAddr)
             THEN "erase" ELSE "program"
  /\ orderly' = (orderly /\ EntersOrderly)
  /\ UNCHANGED <<durable, ram, taken, acked>>

(* The ring is full: the write sector goes, whatever it holds.             *)
DropSector(read, left, lost) ==
  /\ pc = "erase"
  /\ count = Capacity
  /\ flash' = Erased
  /\ readAddr' = read
  /\ count' = left
  /\ overflow' = lost % CounterMod
  /\ pc' = "persist"
  /\ acked' = acked \ SectorOf(writeAddr)
  /\ UNCHANGED <<nvsOverflow, writeAddr, entry, taken>>
  /\ Orderly

NextSector == Wrap(SectorBase(writeAddr) + SectorSlots)

(* Mutants: the count or the read pointer is not moved.                    *)
EraseFullKeepsCount == DropSector(NextSector, count, overflow + SectorSlots)
EraseFullKeepsRead ==
  DropSector(readAddr, count - SectorSlots, overflow + SectorSlots)

(* The lost entries are counted as a whole sector of them.                 *)
EraseFull ==
  DropSector(NextSector, count - SectorSlots, overflow + SectorSlots)

(* The write pointer entered a sector while the ring is not full.          *)
EraseWrap ==
  /\ pc = "erase"
  /\ count # Capacity
  /\ flash' = Erased
  /\ pc' = "program"
  /\ acked' = acked \ SectorOf(writeAddr)
  /\ UNCHANGED <<nvsOverflow, ram, entry, taken>>
  /\ Orderly

(* overflow_persist: NVS then holds saved.                                 *)
Persist(saved) ==
  /\ pc = "persist"
  /\ nvsOverflow' = saved
  /\ pc' = "program"
  /\ UNCHANGED <<flash, ram, entry, taken, acked>>

PersistOverflow == Persist(overflow) /\ Orderly

(* The pointers move whatever the program left in the slot.                *)
ProgramTo(c) ==
  /\ pc = "program"
  /\ flash' = [flash EXCEPT ![writeAddr] = c]
  /\ writeAddr' = Advance(writeAddr)
  /\ count' = count + 1
  /\ pc' = "idle"
  /\ entry' = NoEntry
  /\ acked' = acked \ {writeAddr}
  /\ UNCHANGED <<nvsOverflow, readAddr, overflow, taken>>

ProgramEntry ==
  Orderly /\ \E c \in Programmed(flash[writeAddr], entry) : ProgramTo(c)

(***************************************************************************)
(* flash_storage_read, the publish that follows it in cache_task, and      *)
(* flash_storage_mark_sent.  cache_task asks only when entries are pending.*)
(***************************************************************************)
ReadBegin ==
  /\ pc = "idle"
  /\ count > 0
  /\ pc' = "read"
  /\ UNCHANGED <<durable, ram, entry, taken, acked>>
  /\ Orderly

ReadHit ==
  /\ pc = "read"
  /\ count > 0
  /\ Readable(flash[readAddr])
  /\ entry' = flash[readAddr]
  /\ pc' = "sending"
  /\ UNCHANGED <<durable, ram, taken, acked>>
  /\ Orderly

(* One turn of the loop over a slot taken for corrupt, which becomes c.    *)
Skip(c) ==
  /\ pc = "read"
  /\ count > 0
  /\ flash' = [flash EXCEPT ![readAddr] = c]
  /\ readAddr' = Advance(readAddr)
  /\ count' = count - 1
  /\ UNCHANGED <<nvsOverflow, writeAddr, overflow, pc, entry, taken, acked>>

ReadSkip == ~Readable(flash[readAddr]) /\ Skip(Sent) /\ Orderly

ReadEmpty ==
  /\ pc = "read"
  /\ count = 0
  /\ pc' = "idle"
  /\ UNCHANGED <<durable, ram, entry, taken, acked>>
  /\ Orderly

(* The publish is over: the chip is f, the read pointer read.              *)
Settle(f, read, left, marked) ==
  /\ pc = "sending"
  /\ flash' = f
  /\ readAddr' = read
  /\ count' = left
  /\ acked' = marked
  /\ pc' = "idle"
  /\ entry' = NoEntry
  /\ UNCHANGED <<nvsOverflow, writeAddr, overflow, taken>>

(* Mutant: the mark stays in RAM.                                          *)
MarkSentRamOnly ==
  /\ Settle(flash, Advance(readAddr), count - 1, acked \cup {readAddr})
  /\ Orderly

MarkSent ==
  /\ Settle([flash EXCEPT ![readAddr] = Sent], Advance(readAddr), count - 1,
            acked \cup {readAddr})
  /\ Orderly

PublishFailed == Settle(flash, readAddr, count, acked) /\ Orderly

(***************************************************************************)
(* flash_storage_take_overflow, the report, flash_storage_giveback_overflow*)
(***************************************************************************)
(* overflow_persist is the last thing both do: NVS then holds saved.       *)
Take(saved) ==
  /\ pc = "idle"
  /\ taken' = overflow
  /\ overflow' = 0
  /\ nvsOverflow' = saved
  /\ pc' = IF overflow = 0 THEN "idle" ELSE "report"
  /\ UNCHANGED <<flash, readAddr, writeAddr, count, entry, acked>>

TakeOverflow == Take(0) /\ Orderly

OverflowReported ==
  /\ pc = "report"
  /\ taken' = 0
  /\ pc' = "idle"
  /\ UNCHANGED <<durable, ram, entry, acked>>
  /\ Orderly

GiveBack(saved) ==
  /\ pc = "report"
  /\ overflow' = (overflow + taken) % CounterMod
  /\ nvsOverflow' = saved
  /\ taken' = 0
  /\ pc' = "idle"
  /\ UNCHANGED <<flash, readAddr, writeAddr, count, entry, acked>>

GiveBackOverflow ==
  GiveBack((overflow + taken) % CounterMod) /\ Orderly

(***************************************************************************)
(* Memory shortages: w25q64_read and w25q64_page_program give up when      *)
(* malloc fails, and flash_storage.c looks at neither result; a failed NVS *)
(* write is only logged.                                                   *)
(***************************************************************************)
(* The entry stays zeroed, is taken for corrupt and is marked SENT.        *)
ReadFault == Skip(Sent) /\ Disturbed

(* The mark of a slot taken for corrupt is skipped; the pointer moves on.  *)
SkipFault == Skip(flash[readAddr]) /\ Disturbed

ProgramFault == ProgramTo(flash[writeAddr]) /\ Disturbed

MarkFault ==
  Settle(flash, Advance(readAddr), count - 1, acked) /\ Disturbed

(* NVS keeps its old count, which only matters when it is another one.     *)
PersistFault ==
  nvsOverflow # overflow /\ Persist(nvsOverflow) /\ Disturbed
TakeFault == nvsOverflow # 0 /\ Take(nvsOverflow) /\ Disturbed
GiveBackFault ==
  /\ nvsOverflow # (overflow + taken) % CounterMod
  /\ GiveBack(nvsOverflow)
  /\ Disturbed

(***************************************************************************)
(* Power loss and flash_storage_init.  f is the image the cut left.        *)
(***************************************************************************)
(* The images a cut in the middle of the step that pc announces can leave. *)
HalfErased ==
  {[a \in Slots |-> IF a \in SectorOf(writeAddr) THEN g[a] ELSE flash[a]] :
     g \in {h \in [SectorOf(writeAddr) -> Cell] :
              \A a \in SectorOf(writeAddr) : h[a] \in {flash[a], Blank, Torn}}}

HalfProgrammed ==
  LET c == flash[writeAddr]
      bits == IF MagicBlank(c) THEN {Dirty, Torn, BadLen, Garbage} ELSE {}
  IN {[flash EXCEPT ![writeAddr] = d] : d \in Programmed(c, entry) \cup bits}

HalfMarked ==
  {[flash EXCEPT ![readAddr] = d] :
     d \in IF flash[readAddr] = Sent THEN {Sent} ELSE {Torn, Sent}}

Interrupted ==
  CASE pc = "erase"               -> HalfErased
    [] pc = "program"             -> HalfProgrammed
    [] pc \in {"read", "sending"} -> HalfMarked
    [] OTHER                      -> {flash}

Reset(f) ==
  /\ flash' = f
  /\ pc' = "idle"
  /\ entry' = NoEntry
  /\ taken' = 0
  /\ acked' = {a \in acked : f[a] = flash[a]}
  /\ UNCHANGED nvsOverflow

(* The slots before stop that wait to be sent, as the scan counts them.    *)
Found(f, stop) == {a \in 0 .. stop - 1 : MagicValid(f[a])}

(* Mutant: the read pointer starts at slot 0, waiting entry or not.        *)
ScanFromStart(f, stop) ==
  /\ \A a \in 0 .. stop - 1 : ~MagicBlank(f[a])
  /\ overflow' = nvsOverflow
  /\ writeAddr' = IF stop = Capacity THEN 0 ELSE stop
  /\ count' = Cardinality(Found(f, stop))
  /\ readAddr' = 0

(* The scan from slot 0 to stop: every slot it passed is not BLANK.        *)
Scan(f, stop) ==
  /\ \A a \in 0 .. stop - 1 : ~MagicBlank(f[a])
  /\ overflow' = nvsOverflow
  /\ writeAddr' = IF stop = Capacity THEN 0 ELSE stop
  /\ count' = Cardinality(Found(f, stop))
  /\ IF Found(f, stop) = {}
       THEN readAddr' = writeAddr'
       ELSE /\ readAddr' \in Found(f, stop)
            /\ \A a \in Found(f, stop) : readAddr' <= a

Boot(f) ==
  \E stop \in 0 .. Capacity :
    /\ stop # Capacity => MagicBlank(f[stop])
    /\ Reset(f)
    /\ Scan(f, stop)

(* w25q64_read fails in the scan: it ends at the slot it could not read.   *)
BootScanFault(f) ==
  \E stop \in Slots :
    /\ Reset(f)
    /\ Scan(f, stop)

(* nvs_open or nvs_get_u32 fails: flash_storage_init returns before the    *)
(* scan, app_main ignores it, and the store runs on its static values.     *)
BootNvsFault(f) ==
  /\ Reset(f)
  /\ readAddr' = 0
  /\ writeAddr' = 0
  /\ count' = 0
  /\ overflow' = 0

(* A cut between two steps is early while the write pointer is on its      *)
(* first lap, or on a later one with nothing but erased slots ahead of it, *)
(* and the saved count is the one in RAM.                                  *)
OnFirstLap ==
  \/ \A a \in Slots : a >= writeAddr => flash[a] = Blank
  \/ writeAddr = 0 /\ \A a \in Slots : flash[a] # Blank
Early == OnFirstLap /\ overflow = nvsOverflow

CleanCut == Boot(flash) /\ orderly' = (orderly /\ Early)
TornCut == Disturbed /\ \E f \in Interrupted \ {flash} : Boot(f)
FaultyBoot ==
  /\ Disturbed
  /\ \E f \in {flash} \cup Interrupted : BootScanFault(f) \/ BootNvsFault(f)

(***************************************************************************)
(* The specifications.                                                     *)
(***************************************************************************)
(* A chip out of the box: erased, with no counter in NVS.                  *)
Init ==
  /\ flash = [a \in Slots |-> Blank]
  /\ nvsOverflow = 0
  /\ readAddr = 0
  /\ writeAddr = 0
  /\ count = 0
  /\ overflow = 0
  /\ pc = "idle"
  /\ entry = NoEntry
  /\ taken = 0
  /\ acked = {}
  /\ orderly = TRUE

(* Every step of the store but the choice to write.                        *)
Progress ==
  \/ EraseFull \/ EraseWrap \/ PersistOverflow \/ ProgramEntry
  \/ ReadBegin \/ ReadHit \/ ReadSkip \/ ReadEmpty
  \/ MarkSent \/ PublishFailed
  \/ TakeOverflow \/ OverflowReported \/ GiveBackOverflow

Write == \E p \in Payload : WriteBegin(p)

Fault ==
  \/ ReadFault \/ SkipFault \/ ProgramFault \/ MarkFault
  \/ PersistFault \/ TakeFault \/ GiveBackFault

(* Everything that can happen.                                             *)
Next == Write \/ Progress \/ Fault \/ CleanCut \/ TornCut \/ FaultyBoot

Spec == Init /\ [][Next]_vars

(* Nothing fails and the power stays on.                                   *)
RunningSpec == Init /\ [][Write \/ Progress]_vars

(* Nothing fails, power may be cut between steps and the ring goes round,  *)
(* but a sector is entered only when it holds nothing pending: nothing     *)
(* ever overflows.                                                         *)
SlackWrite ==
  (AtSectorStart(writeAddr) => count <= Capacity - SectorSlots) /\ Write
WrappedNext == SlackWrite \/ Progress \/ CleanCut
WrappedSpec == Init /\ [][WrappedNext]_vars

(***************************************************************************)
(* Properties.                                                             *)
(***************************************************************************)
Place == {"idle", "erase", "persist", "program", "read", "sending", "report"}

(* Every variable of flash_storage.c stays in its range; the pointers stay *)
(* on the chip.                                                            *)
TypeOK ==
  /\ flash \in [Slots -> Cell]
  /\ nvsOverflow \in 0 .. CounterMod - 1
  /\ readAddr \in Slots
  /\ writeAddr \in Slots
  /\ count \in Int
  /\ overflow \in 0 .. CounterMod - 1
  /\ pc \in Place
  /\ entry \in Cell \cup {NoEntry}
  /\ taken \in 0 .. CounterMod - 1
  /\ acked \in SUBSET Slots
  /\ orderly \in BOOLEAN

(* s_entry_count never goes negative and never passes the capacity: the    *)
(* full test of flash_storage_write is an equality, and mark_sent          *)
(* decrements without a test.                                              *)
CountBounded == count \in 0 .. Capacity

(* An entry whose delivery was marked is not handed out again, whatever    *)
(* the power does, until its slot is written anew (flash_storage_mark_sent *)
(* programs the magic before it moves the pointer).                        *)
NoResend == pc = "sending" => readAddr \notin acked

(* Why these hold: the inductive invariant of every step above.            *)
StoreInv ==
  /\ TypeOK
  /\ CountBounded
  /\ pc = "sending" => count > 0 /\ Readable(flash[readAddr])
  /\ pc \in {"erase", "persist", "program"} => entry \in Payload
  /\ pc \in {"persist", "program"} => count < Capacity
  /\ \A a \in acked : flash[a] = Sent

(* The slots the reader will visit, and those that hold a VALID magic.     *)
Window == {Wrap(readAddr + i) : i \in 0 .. count - 1}
Pending == {a \in Slots : MagicValid(flash[a])}

(* README.md:10: what waits on the chip is what the reader will visit, so  *)
(* nothing is forgotten and nothing is read twice.                         *)
PendingReachable == pc = "idle" => Pending = Window

(* It is so as long as the history was orderly: also through overflows, a  *)
(* ring that goes round, and the restarts of the first lap, whose scan     *)
(* puts both pointers and the count back where they were.                  *)
ReachableWhileOrderly == orderly => PendingReachable

(* Why this and the promise below hold of an orderly history: the pending  *)
(* slots are exactly those from the read to the write pointer, and the     *)
(* write sector is erased from the write pointer on.                       *)
Distance(a) == IF a >= readAddr THEN a - readAddr ELSE a - readAddr + Capacity
RingShape ==
  /\ writeAddr = Wrap(readAddr + count)
  /\ \A a \in Slots : flash[a] \in IF Distance(a) < count
                                    THEN Payload ELSE {Blank, Sent}
  /\ ~AtSectorStart(writeAddr) \/ pc \in {"persist", "program"} =>
       \A a \in SectorOf(writeAddr) : a >= writeAddr => flash[a] = Blank
  /\ pc = "erase" => AtSectorStart(writeAddr) /\ EntersOrderly
  /\ pc = "sending" => entry = flash[readAddr]
OrderlyInv == StoreInv /\ RingShape

(* README.md:11: a step that destroys waiting entries, other than the      *)
(* delivery of one, raises the loss counter by exactly their number.       *)
LossCounted ==
  [][ pc = "erase" =>
        overflow' = (overflow + Cardinality(Pending \ Pending')) % CounterMod
    ]_vars

(* While the history is orderly the store implements its promise: the      *)
(* pending slots, from the read pointer on, are the queue.                 *)
Contents == [i \in 1 .. count |-> flash[Wrap(readAddr + i - 1)]]

Store == INSTANCE CacheStore WITH
  queue <- Contents,
  hand <- IF pc = "sending" THEN entry ELSE NoEntry,
  lost <- overflow,
  taken <- taken,
  DropSize <- SectorSlots

ImplementsStore ==
  Store!Init /\ [][orderly' => [Store!Next]_(Store!vars)]_vars
=============================================================================
