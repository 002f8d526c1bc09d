------------------------------- MODULE W25q64 -------------------------------
(***************************************************************************)
(* drivers/w25q64.c: how a write, a sector erase and a read become SPI     *)
(* commands, and what the chip makes of them.  The chip takes a program or *)
(* an erase only when it is write-enabled, nothing but a status read while *)
(* it is busy, and a program that runs past the end of its page goes on at *)
(* the start of that page.                                                 *)
(*                                                                         *)
(* A byte is the set of bytes programmed into it since it was erased: a    *)
(* program only clears bits.  A byte written is named by the call and its  *)
(* offset in the caller's buffer.  The driver has one caller at a time     *)
(* (flash_storage, under its mutex); the chip works on its own.            *)
(***************************************************************************)
EXTENDS Naturals, FiniteSets

CONSTANTS
  PageSize,     \* W25Q64_PAGE_SIZE    (256 in the code)
  SectorSize,   \* W25Q64_SECTOR_SIZE  (4096 in the code)
  Total,        \* W25Q64_TOTAL_SIZE   (8 MB in the code)
  MaxLen,       \* bound: the longest read or write
  MaxCalls      \* bound: calls of the driver

ASSUME ChipAssumption ==
  /\ PageSize \in Nat \ {0}
  /\ SectorSize \in Nat \ {0} /\ SectorSize % PageSize = 0
  /\ Total \in Nat \ {0} /\ Total % SectorSize = 0
  /\ MaxLen \in Nat
  /\ MaxCalls \in Nat

Address == 0 .. Total - 1
Byte == [call : 1 .. MaxCalls, offset : 0 .. MaxLen - 1]

VARIABLES
  cells,        \* the chip: address -> bytes programmed into it
  busy,         \* BUSY of its status register
  wel,          \* WEL of its status register
  pc,           \* where the driver is
  call,         \* the call: operation, address and length
  addr,         \* addr and remaining of the loop of w25q64_write
  remaining,
  result,       \* what the last call returned
  out,          \* what the last read delivered
  calls,        \* history: number of calls
  before,       \* history: the chip when the call began
  skipped,      \* history: the bytes of the call malloc had no room for
  ignored       \* history: the chip did not take a command

chip == <<cells, busy, wel>>
progress == <<addr, remaining>>
answer == <<result, out>>
history == <<calls, before, skipped, ignored>>
vars == <<chip, pc, call, progress, answer, history>>

NoCall == [op |-> "none", addr |-> 0, len |-> 0]

Init ==
  /\ cells = [a \in Address |-> {}]
  /\ busy = FALSE
  /\ wel = FALSE
  /\ pc = "off"
  /\ call = NoCall
  /\ addr = 0
  /\ remaining = 0
  /\ result = "ok"
  /\ out = <<>>
  /\ calls = 0
  /\ before = cells
  /\ skipped = {}
  /\ ignored = FALSE

(* w25q64_init: the bus, the device, and the identity of the chip.         *)
Ready ==
  /\ pc = "off"
  /\ pc' = "idle"
  /\ UNCHANGED <<chip, call, progress, answer, history>>

InitFails ==
  /\ pc = "off"
  /\ pc' = "failed"
  /\ result' = "timeout"
  /\ UNCHANGED <<chip, call, progress, out, history>>

(***************************************************************************)
(* The calls.                                                              *)
(***************************************************************************)
Begin(op, a, len) ==
  /\ pc = "idle"
  /\ calls < MaxCalls
  /\ calls' = calls + 1
  /\ call' = [op |-> op, addr |-> a, len |-> len]
  /\ before' = cells
  /\ skipped' = {}
  /\ UNCHANGED <<chip, ignored>>

(* Nothing to do, or beyond the end of the chip.                           *)
Refused(a, len) == len = 0 \/ a + len > Total

Refuse(op, a, len) ==
  /\ Refused(a, len)
  /\ Begin(op, a, len)
  /\ result' = IF len = 0 THEN "ok" ELSE "size"
  /\ UNCHANGED <<pc, progress, out>>

Write(a, len) ==
  /\ ~Refused(a, len)
  /\ Begin("write", a, len)
  /\ pc' = "enable"
  /\ addr' = a
  /\ remaining' = len
  /\ UNCHANGED answer

Aligned(a) == a - (a % SectorSize)

Erase(a) ==
  /\ Begin("erase", a, SectorSize)
  /\ pc' = "enable"
  /\ addr' = Aligned(a)
  /\ remaining' = 0
  /\ UNCHANGED answer

(* w25q64_read, in one transaction once its buffers are there.             *)
Read(a, len) ==
  /\ ~Refused(a, len)
  /\ Begin("read", a, len)
  /\ \/ result' = "memory" /\ UNCHANGED out
     \/ result' = "ok" /\ out' = [i \in 0 .. len - 1 |-> cells[a + i]]
  /\ UNCHANGED <<pc, progress>>

(***************************************************************************)
(* w25q64_page_program and w25q64_erase_sector.                            *)
(***************************************************************************)
WriteEnable ==
  /\ pc = "enable"
  /\ pc' = call.op
  /\ wel' = (wel \/ ~busy)
  /\ ignored' = (ignored \/ busy)
  /\ UNCHANGED <<cells, busy, call, progress, answer, calls, before, skipped>>

(* Mutant: the rest of the data goes into one program.                     *)
ChunkUnsplit == remaining

(* Mutant: one byte per program.                                           *)
ChunkSingle == 1

Chunk ==
  LET space == PageSize - (addr % PageSize)
  IN  IF remaining < space THEN remaining ELSE space

Offset == call.len - remaining
ChunkBytes == {[call |-> calls, offset |-> i] : i \in Offset .. Offset + Chunk - 1}

(* Where the chip puts byte i of a program that starts at addr.            *)
InPage(i) == addr - (addr % PageSize) + ((addr + i) % PageSize)
Programmed ==
  [a \in Address |->
     cells[a] \cup {[call |-> calls, offset |-> Offset + i] :
                      i \in {j \in 0 .. Chunk - 1 : InPage(j) = a}}]

Sector(a) == {b \in Address : b - (b % SectorSize) = a - (a % SectorSize)}

(* A program or an erase, as the chip takes it.                            *)
Command(changed) ==
  LET taken == wel /\ ~busy
  IN  /\ cells' = IF taken THEN changed ELSE cells
      /\ busy' = (busy \/ taken)
      /\ ignored' = (ignored \/ ~taken)
      /\ UNCHANGED wel

(* Mutant: addr is left as it is.                                          *)
NextChunkStays ==
  /\ addr' = addr
  /\ remaining' = remaining - Chunk
  /\ IF remaining' = 0
     THEN pc' = "idle" /\ result' = "ok"
     ELSE pc' = "enable" /\ UNCHANGED result
  /\ UNCHANGED <<call, out>>

(* The loop of w25q64_write goes on behind the chunk.                      *)
NextChunk ==
  /\ addr' = addr + Chunk
  /\ remaining' = remaining - Chunk
  /\ IF remaining' = 0
     THEN pc' = "idle" /\ result' = "ok"
     ELSE pc' = "enable" /\ UNCHANGED result
  /\ UNCHANGED <<call, out>>

(* No memory for the command: the page is skipped, and the write goes on.  *)
ProgramSkipped ==
  /\ pc = "write"
  /\ skipped' = skipped \cup ChunkBytes
  /\ NextChunk
  /\ UNCHANGED <<chip, calls, before, ignored>>

PageProgram ==
  /\ pc = "write"
  /\ Command(Programmed)
  /\ pc' = "programming"
  /\ UNCHANGED <<call, progress, answer, calls, before, skipped>>

SectorErase ==
  /\ pc = "erase"
  /\ Command([a \in Address |-> IF a \in Sector(addr) THEN {} ELSE cells[a]])
  /\ pc' = "erasing"
  /\ UNCHANGED <<call, progress, answer, calls, before, skipped>>

(* w25q64_wait_busy: the status is read until BUSY is clear.               *)
Programming ==
  /\ pc = "programming"
  /\ ~busy
  /\ NextChunk
  /\ UNCHANGED <<chip, history>>

Erasing ==
  /\ pc = "erasing"
  /\ ~busy
  /\ pc' = "idle"
  /\ result' = "ok"
  /\ UNCHANGED <<chip, call, progress, out, history>>

(* The chip is done, and no longer write-enabled.                          *)
ChipDone ==
  /\ busy
  /\ busy' = FALSE
  /\ wel' = FALSE
  /\ UNCHANGED <<cells, pc, call, progress, answer, history>>

(***************************************************************************)
(* The specification.  A call may start a little beyond the end.           *)
(***************************************************************************)
Driver ==
  \/ Ready \/ InitFails
  \/ WriteEnable \/ ProgramSkipped \/ PageProgram \/ SectorErase
  \/ Programming \/ Erasing

Calls ==
  \E a \in 0 .. Total, len \in 0 .. MaxLen :
    \/ \E op \in {"write", "read"} : Refuse(op, a, len)
    \/ Write(a, len)
    \/ Read(a, len)
    \/ a \in Address /\ Erase(a)

Next == Driver \/ Calls \/ ChipDone

Spec == Init /\ [][Next]_vars

(***************************************************************************)
(* Properties.                                                             *)
(***************************************************************************)
(* Every variable in its range; the loop of a write is never past its end. *)
TypeOK ==
  /\ cells \in [Address -> SUBSET Byte]
  /\ busy \in BOOLEAN
  /\ wel \in BOOLEAN
  /\ pc \in {"off", "failed", "idle", "enable", "write", "erase",
             "programming", "erasing"}
  /\ call \in [op : {"none", "write", "read", "erase"}, addr : 0 .. Total,
               len : Nat]
  /\ addr \in 0 .. Total
  /\ remaining \in 0 .. MaxLen
  /\ result \in {"ok", "size", "memory", "timeout"}
  /\ before \in [Address -> SUBSET Byte]
  /\ skipped \subseteq Byte
  /\ ignored \in BOOLEAN

Range == call.addr .. call.addr + call.len - 1
MayTouch ==
  CASE call.op = "write" -> Range
    [] call.op = "erase" -> Sector(call.addr)
    [] OTHER -> {}

(* w25q64.h:49, 59: at no moment of a call, so that no power cut can show  *)
(* it, is anything but the range of the write or the sector of the erase   *)
(* changed; above all no neighbouring entry.                               *)
Confined == \A a \in Address \ MayTouch : cells[a] = before[a]

(* What a call must leave behind, and what a read must deliver.            *)
WrittenAt(a) ==
  IF a \in Range THEN {[call |-> calls, offset |-> a - call.addr]} \ skipped
                 ELSE {}
Achieved ==
  CASE call.op = "write" ->
         \A a \in Address : cells[a] = before[a] \cup WrittenAt(a)
    [] call.op = "erase" -> \A a \in Sector(call.addr) : cells[a] = {}
    [] call.op = "read" /\ call.len > 0 ->
         out = [i \in 0 .. call.len - 1 |-> before[call.addr + i]]
    [] OTHER -> TRUE

(* w25q64.h:41-64: a call that returned ESP_OK has done its work, byte for *)
(* byte, across pages (but for the pages malloc failed, see ProgramFault   *)
(* in FlashStorage), and one that failed has changed nothing.  The chip,   *)
(* which silently ignores what comes while it is busy or not write-enabled *)
(* (w25q64.c:51), took every command, also after a page that was skipped.  *)
Exact ==
  pc = "idle" =>
    /\ ~ignored
    /\ IF result = "ok" THEN Achieved ELSE cells = before

(* The driver as its caller sees it: what is left of the call.             *)
Left ==
  IF call.op = "erase"
  THEN IF pc = "erasing" THEN {} ELSE Sector(call.addr)
  ELSE (IF pc = "programming" THEN addr + Chunk ELSE addr)
         .. addr + remaining - 1

Job ==
  CASE pc \in {"off", "failed"} -> [op |-> "closed", addr |-> 0, todo |-> {}]
    [] pc = "idle" -> [op |-> "none", addr |-> 0, todo |-> {}]
    [] OTHER -> [op |-> call.op, addr |-> call.addr, todo |-> Left]

Flash == INSTANCE NorFlash WITH job <- Job

(* w25q64.h:41-64: seen through its calls the driver is the flash memory   *)
(* of NorFlash: a write is done page by page, in order, each page all at   *)
(* once or, for want of memory, not at all, an erase takes its sector at   *)
(* once, and nothing else changes a byte.                                  *)
ImplementsNorFlash == Flash!Spec

=============================================================================
