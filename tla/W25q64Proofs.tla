---------------------------- MODULE W25q64Proofs ----------------------------
(***************************************************************************)
(* The flash driver, for every geometry of the chip and every length of a  *)
(* write: the split of a write at the page ends never meets the wrap of a  *)
(* page program, so a call touches what it was asked to touch and leaves   *)
(* there what it was asked to leave.                                       *)
(***************************************************************************)
EXTENDS W25q64, Integers, TLAPS

(***************************************************************************)
(* What the chip holds in the course of a call.                            *)
(***************************************************************************)
(* The bytes a call puts at address a once it has written n bytes: the one *)
(* of the caller's buffer, unless it was skipped.                          *)
Share(c, k, s, n, a) ==
  IF a \in c .. c + n - 1
  THEN {[call |-> k, offset |-> a - c]} \ s
  ELSE {}

(* The first n bytes of a write at c, call number k, are in the chip.      *)
FilledBy(c, k, b, s, n) == [a \in Address |-> b[a] \cup Share(c, k, s, n, a)]
Filled(n) == FilledBy(call.addr, calls, before, skipped, n)

Erased ==
  [a \in Address |-> IF a \in Sector(call.addr) THEN {} ELSE before[a]]

AtWork == {"enable", "write", "erase", "programming", "erasing"}
InWrite == call.op = "write" /\ pc \in {"enable", "write", "programming"}
InErase == call.op = "erase" /\ pc \in {"enable", "erase", "erasing"}

(* The loop of w25q64_write: addr and remaining meet at the end of the     *)
(* call, and only bytes behind addr were skipped.                          *)
Loop ==
  /\ pc \in AtWork => InWrite \/ InErase
  /\ pc \in AtWork => calls > 0
  /\ InErase => addr = Aligned(call.addr) /\ call.addr \in Address
  /\ InWrite =>
       /\ call.len <= MaxLen
       /\ call.addr + call.len <= Total
       /\ remaining \in 1 .. call.len
       /\ addr = call.addr + Offset
       /\ \A b \in skipped : b.offset < Offset

(* The chip takes every command: it is at work only while the driver waits *)
(* for it, and write-enabled when a program or an erase comes.             *)
Obedient ==
  /\ ~ignored
  /\ busy => pc \in {"programming", "erasing"}
  /\ pc \in {"write", "erase"} => wel

Contents ==
  /\ call.op \in {"none", "read"} => cells = before
  /\ InWrite => cells = Filled(IF pc = "programming" THEN Offset + Chunk
                                                    ELSE Offset)
  /\ InErase => cells = IF pc = "erasing" THEN Erased ELSE before
  /\ pc \in {"off", "failed"} => call = NoCall
  /\ pc = "idle" /\ call.op = "write"
       => cells = IF result = "ok" THEN Filled(call.len) ELSE before
  /\ pc = "idle" /\ call.op = "erase" => result = "ok" /\ cells = Erased
  /\ pc = "idle" /\ call.op = "read" /\ call.len > 0 /\ result = "ok"
       => out = [i \in 0 .. call.len - 1 |-> before[call.addr + i]]

Counters == calls \in 0 .. MaxCalls

IInv ==
  /\ TypeOK /\ Counters
  /\ Loop
  /\ Obedient
  /\ Contents

(***************************************************************************)
(* Arithmetic of pages.                                                    *)
(***************************************************************************)
LEMMA DivModFact ==
  ASSUME NEW a \in Nat, NEW p \in Nat \ {0}
  PROVE  /\ a % p \in 0 .. p - 1 /\ a % p <= a
         /\ a \div p \in Nat
         /\ a = p * (a \div p) + (a % p)
OBVIOUS

LEMMA ProductStep ==
  ASSUME NEW p \in Nat \ {0}, NEW m \in Nat, NEW n \in Nat, m < n
  PROVE  p * m + p <= p * n
OBVIOUS

LEMMA RemainderUnique ==
  ASSUME NEW p \in Nat \ {0}, NEW q \in Nat, NEW r \in 0 .. p - 1
  PROVE  (p * q + r) % p = r
<1> DEFINE a == p * q + r
           m == a \div p
           t == a % p
<1>1. p * q \in Nat /\ a \in Nat
  OBVIOUS
<1>2. t \in 0 .. p - 1 /\ m \in Nat /\ a = p * m + t
  BY <1>1, DivModFact
<1> HIDE DEF m, t
<1>3. p * m \in Nat /\ p * m + t = p * q + r
  BY <1>2
<1>4. CASE q < m
  BY <1>1, <1>2, <1>3, <1>4, ProductStep
<1>5. CASE m < q
  BY <1>1, <1>2, <1>3, <1>5, ProductStep
<1>6. CASE q = m
  BY <1>1, <1>2, <1>3, <1>6
<1>7. t = r
  BY <1>2, <1>4, <1>5, <1>6
<1> QED
  BY <1>7 DEF t

(* Up to the end of the page an offset grows with the address, ...         *)
LEMMA WithinPage ==
  ASSUME NEW p \in Nat \ {0}, NEW a \in Nat, NEW i \in Nat, (a % p) + i < p
  PROVE  (a + i) % p = (a % p) + i
<1>1. a % p \in 0 .. p - 1 /\ a \div p \in Nat /\ a = p * (a \div p) + (a % p)
  BY DivModFact
<1>4. (a % p) + i \in 0 .. p - 1
  BY <1>1
<1>2. (p * (a \div p) + ((a % p) + i)) % p = (a % p) + i
  BY <1>1, <1>4, RemainderUnique
<1>3. a + i = p * (a \div p) + ((a % p) + i)
  BY <1>1
<1> QED
  BY <1>2, <1>3

(* ... and an address that is aligned has offset 0.                        *)
LEMMA AlignedFact ==
  ASSUME NEW p \in Nat \ {0}, NEW a \in Nat
  PROVE  a - (a % p) \in 0 .. a /\ (a - (a % p)) % p = 0
<1>1. a % p \in 0 .. p - 1 /\ a % p <= a /\ a \div p \in Nat
      /\ a = p * (a \div p) + (a % p)
  BY DivModFact
<1>2. (p * (a \div p) + 0) % p = 0
  <2>1. 0 \in 0 .. p - 1
    OBVIOUS
  <2> QED
    BY <1>1, <2>1, RemainderUnique
<1>3. a - (a % p) = p * (a \div p) + 0
  BY <1>1
<1> QED
  BY <1>1, <1>2, <1>3

(***************************************************************************)
(* What a write has put into the chip.                                     *)
(***************************************************************************)
LEMMA FilledNone ==
  ASSUME NEW c \in Nat, NEW k, NEW s,
         NEW b \in [Address -> SUBSET Byte]
  PROVE  FilledBy(c, k, b, s, 0) = b
<1>1. \A a \in Address : Share(c, k, s, 0, a) = {}
  BY DEF Share, Address
<1> QED
  BY <1>1 DEF FilledBy

LEMMA FilledType ==
  ASSUME NEW c \in Nat, NEW k \in 1 .. MaxCalls, NEW s,
         NEW b \in [Address -> SUBSET Byte], NEW n \in 0 .. MaxLen
  PROVE  FilledBy(c, k, b, s, n) \in [Address -> SUBSET Byte]
<1>1. ASSUME NEW a \in Address
      PROVE  Share(c, k, s, n, a) \in SUBSET Byte
  BY ChipAssumption DEF Share, Address, Byte
<1> QED
  BY <1>1 DEF FilledBy

(* A chunk that is skipped is left out; the bytes before it are not.       *)
BytesOf(k, n, m) == {[call |-> k, offset |-> i] : i \in n .. n + m - 1}

LEMMA FilledSkip ==
  ASSUME NEW c \in Nat, NEW k, NEW s, NEW b,
         NEW n \in Nat, NEW m \in Nat
  PROVE  FilledBy(c, k, b, s \cup BytesOf(k, n, m), n + m)
           = FilledBy(c, k, b, s, n)
<1> DEFINE t == BytesOf(k, n, m)
<1>2. /\ \A y \in t : y.offset \in Nat /\ y.offset >= n
      /\ \A i \in n .. n + m - 1 : [call |-> k, offset |-> i] \in t
  BY DEF BytesOf
<1> HIDE DEF t
<1>1. ASSUME NEW a \in Address
      PROVE  Share(c, k, s \cup t, n + m, a) = Share(c, k, s, n, a)
  <2> DEFINE x == [call |-> k, offset |-> a - c]
  <2>1. a \in Int
    BY ChipAssumption DEF Address
  <2>2. CASE a \in c .. c + n - 1
    <3>1. x \notin t
      <4>1. x.offset \in Int /\ ~(x.offset >= n)
        BY <2>1, <2>2
      <4> HIDE DEF x
      <4> QED
        BY <1>2, <4>1
    <3> QED
      BY <2>1, <2>2, <3>1 DEF Share
  <2>3. CASE a \in c + n .. c + n + m - 1
    <3>1. a - c \in n .. n + m - 1
      BY <2>1, <2>3
    <3>2. x \in t
      BY <1>2, <3>1
    <3>3. a \notin c .. c + n - 1
      BY <2>1, <2>3
    <3>4. Share(c, k, s, n, a) = {}
      BY <3>3 DEF Share
    <3>5. Share(c, k, s \cup t, n + m, a) = {}
      BY <3>2 DEF Share
    <3> QED
      BY <3>4, <3>5
  <2>4. CASE a \notin c .. c + n + m - 1
    BY <2>1, <2>4 DEF Share
  <2> QED
    BY <2>1, <2>2, <2>3, <2>4
<1> QED
  BY <1>1 DEF FilledBy, t

(* A chunk is not empty, and ends with its page or with the data, ...      *)
LEMMA ChunkFact ==
  ASSUME addr \in Nat, remaining \in Nat \ {0}
  PROVE  /\ Chunk \in 1 .. remaining
         /\ (addr % PageSize) + Chunk <= PageSize
         /\ (addr % PageSize) + remaining <= PageSize => Chunk = remaining
<1>1. addr % PageSize \in 0 .. PageSize - 1 /\ PageSize \in Nat
  BY ChipAssumption, DivModFact
<1> QED
  BY <1>1 DEF Chunk

(* ... so the chip does not turn back to the start of the page in it.      *)
LEMMA NoWrap ==
  ASSUME addr \in Nat, remaining \in Nat \ {0}, NEW i \in 0 .. Chunk - 1
  PROVE  InPage(i) = addr + i
<1>1. Chunk \in Nat /\ (addr % PageSize) + Chunk <= PageSize
      /\ addr % PageSize \in Nat /\ PageSize \in Nat \ {0}
  BY ChunkFact, DivModFact, ChipAssumption
<1>3. i \in Nat /\ (addr % PageSize) + i < PageSize
  BY <1>1
<1>2. (addr + i) % PageSize = (addr % PageSize) + i
  BY <1>1, <1>3, WithinPage
<1> QED
  BY <1>1, <1>2 DEF InPage

(* Each byte of the program is at its own address, and no other changes.   *)
LEMMA ProgramPlaces ==
  ASSUME addr \in Nat, remaining \in Nat \ {0}, call.addr \in Nat,
         Offset \in Nat, addr = call.addr + Offset, NEW a \in Address
  PROVE  Programmed[a] =
           IF a \in addr .. addr + Chunk - 1
           THEN cells[a] \cup {[call |-> calls, offset |-> a - call.addr]}
           ELSE cells[a]
<1> DEFINE at == {j \in 0 .. Chunk - 1 : InPage(j) = a}
<1>1. a \in Int
  BY ChipAssumption DEF Address
<1>2. Chunk \in 1 .. remaining /\ \A i \in 0 .. Chunk - 1 : InPage(i) = addr + i
  BY ChunkFact, NoWrap
<1>3. Programmed[a]
        = cells[a] \cup {[call |-> calls, offset |-> Offset + i] : i \in at}
  BY DEF Programmed
<1>4. CASE a \in addr .. addr + Chunk - 1
  <2>1. at = {a - addr}
    BY <1>1, <1>2, <1>4
  <2>2. Offset + (a - addr) = a - call.addr
    BY <1>1
  <2> QED
    BY <1>3, <1>4, <2>1, <2>2
<1>5. CASE a \notin addr .. addr + Chunk - 1
  <2>1. at = {}
    BY <1>1, <1>2, <1>5
  <2> QED
    BY <1>3, <1>5, <2>1
<1> QED
  BY <1>4, <1>5

(* The program puts the next bytes of the write where they belong.         *)
LEMMA ProgrammedFact ==
  ASSUME TypeOK, Loop, InWrite, cells = Filled(Offset)
  PROVE  Programmed = Filled(Offset + Chunk)
<1>1. /\ addr \in Nat /\ remaining \in Nat \ {0} /\ call.addr \in Nat
      /\ call.len \in Nat /\ Offset \in Nat /\ addr = call.addr + Offset
      /\ \A b \in skipped : b.offset < Offset
  BY ChipAssumption DEF TypeOK, Loop, Offset
<1>2. Chunk \in 1 .. remaining
  BY <1>1, ChunkFact
<1>3. ASSUME NEW a \in Address
      PROVE  Programmed[a]
               = before[a] \cup Share(call.addr, calls, skipped, Offset + Chunk, a)
  <2> DEFINE x == [call |-> calls, offset |-> a - call.addr]
  <2>1. a \in Int
    BY ChipAssumption DEF Address
  <2>2. cells[a] = before[a] \cup Share(call.addr, calls, skipped, Offset, a)
    BY DEF Filled, FilledBy
  <2>3. CASE a \in addr .. addr + Chunk - 1
    <3>1. x \notin skipped
      BY <1>1, <2>1, <2>3
    <3>2. a \in call.addr .. call.addr + (Offset + Chunk) - 1
          /\ a \notin call.addr .. call.addr + Offset - 1
      BY <1>1, <1>2, <2>1, <2>3
    <3>3. /\ Share(call.addr, calls, skipped, Offset + Chunk, a) = {x}
          /\ Share(call.addr, calls, skipped, Offset, a) = {}
      BY <3>1, <3>2 DEF Share
    <3>4. Programmed[a] = cells[a] \cup {x}
      BY <1>1, <2>3, ProgramPlaces
    <3> QED
      BY <2>2, <3>3, <3>4
  <2>4. CASE a \notin addr .. addr + Chunk - 1
    <3>1. Programmed[a] = cells[a]
      BY <1>1, <2>4, ProgramPlaces
    <3>2. a \in call.addr .. call.addr + (Offset + Chunk) - 1
            <=> a \in call.addr .. call.addr + Offset - 1
      BY <1>1, <1>2, <2>1, <2>4
    <3> QED
      BY <2>2, <3>1, <3>2 DEF Share
  <2> QED
    BY <2>3, <2>4
<1> QED
  BY <1>3 DEF Programmed, Filled, FilledBy

(***************************************************************************)
(* Every step keeps IInv.                                                  *)
(***************************************************************************)
(* The sizes a step works with.                                            *)
LEMMA WriteFacts ==
  ASSUME IInv, InWrite
  PROVE  /\ addr \in Nat /\ remaining \in Nat \ {0} /\ call.addr \in Nat
         /\ call.len \in Nat /\ Offset \in Nat /\ addr = call.addr + Offset
         /\ Chunk \in 1 .. remaining /\ Offset + Chunk \in 1 .. call.len
         /\ Offset + remaining = call.len /\ call.len <= MaxLen
         /\ call.addr + call.len <= Total
         /\ calls \in 1 .. MaxCalls
         /\ \A b \in skipped : b.offset < Offset
<1>1. /\ addr \in Nat /\ remaining \in Nat \ {0} /\ call.addr \in Nat
      /\ call.len \in Nat /\ Offset \in Nat /\ addr = call.addr + Offset
      /\ Offset + remaining = call.len /\ call.len <= MaxLen
      /\ call.addr + call.len <= Total
      /\ \A b \in skipped : b.offset < Offset
  BY ChipAssumption DEF IInv, TypeOK, Loop, Offset
<1>2. Chunk \in 1 .. remaining
  BY <1>1, ChunkFact
<1>3. calls \in 1 .. MaxCalls
  BY DEF IInv, Counters, Loop, InWrite, AtWork
<1> QED
  BY <1>1, <1>2, <1>3

LEMMA InvReady == ASSUME IInv, Ready \/ InitFails PROVE IInv'
<1>1. /\ pc = "off" /\ pc' \in {"idle", "failed"}
      /\ UNCHANGED <<chip, call, progress, out, history>>
      /\ result' \in {result, "timeout"}
      /\ call = NoCall
  BY DEF Ready, InitFails, answer, IInv, Contents
<1>2. UNCHANGED <<cells, busy, wel, call, addr, remaining, out, calls, before,
                  skipped, ignored>>
  BY <1>1 DEF chip, progress, history
<1>3. TypeOK' /\ Counters'
  BY <1>1, <1>2 DEF IInv, TypeOK, Counters
<1>4. call.op = "none"
  BY <1>1 DEF NoCall
<1> QED
  BY <1>1, <1>2, <1>3, <1>4
     DEF IInv, Loop, InWrite, InErase, AtWork, Obedient, Contents

(* A call begins with what the chip holds.                                 *)
LEMMA BeginFact ==
  ASSUME IInv, NEW op \in {"write", "read", "erase"}, NEW a \in 0 .. Total,
         NEW len \in Nat, Begin(op, a, len)
  PROVE  /\ UNCHANGED <<cells, busy, wel, ignored>>
         /\ pc = "idle" /\ ~busy /\ ~ignored
         /\ call' = [op |-> op, addr |-> a, len |-> len]
         /\ calls' = calls + 1 /\ calls' \in 1 .. MaxCalls
         /\ before' = cells /\ skipped' = {}
         /\ Counters'
         /\ cells' \in [Address -> SUBSET Byte]
         /\ cells' = FilledBy(call'.addr, calls', before', skipped', 0)
<1>1. /\ UNCHANGED <<cells, busy, wel, ignored>>
      /\ pc = "idle" /\ ~busy /\ ~ignored
      /\ call' = [op |-> op, addr |-> a, len |-> len]
      /\ calls' = calls + 1
      /\ before' = cells /\ skipped' = {}
      /\ cells' \in [Address -> SUBSET Byte]
  BY DEF Begin, chip, IInv, Obedient, TypeOK
<1>2. calls' \in 1 .. MaxCalls
  BY ChipAssumption DEF Begin, IInv, Counters
<1>3. call'.addr \in Nat /\ before' \in [Address -> SUBSET Byte]
  BY <1>1
<1>4. FilledBy(call'.addr, calls', before', skipped', 0) = before'
  BY <1>3, FilledNone
<1> QED
  BY <1>1, <1>2, <1>4 DEF Counters

LEMMA InvRefuse ==
  ASSUME IInv, NEW op \in {"write", "read"}, NEW a \in 0 .. Total,
         NEW len \in 0 .. MaxLen, Refuse(op, a, len)
  PROVE  IInv'
<1>1. Begin(op, a, len) /\ UNCHANGED <<pc, progress, out>>
      /\ result' = IF len = 0 THEN "ok" ELSE "size"
  BY DEF Refuse
<1>2. len \in Nat
  BY ChipAssumption
<1>3. /\ UNCHANGED <<cells, busy, wel, ignored, pc, addr, remaining, out>>
      /\ pc = "idle" /\ ~busy /\ ~ignored
      /\ call' = [op |-> op, addr |-> a, len |-> len]
      /\ before' = cells /\ skipped' = {}
      /\ Counters' /\ cells' \in [Address -> SUBSET Byte]
      /\ cells' = FilledBy(call'.addr, calls', before', skipped', 0)
  BY <1>1, <1>2, BeginFact DEF progress
<1>4. TypeOK'
  BY <1>1, <1>2, <1>3 DEF IInv, TypeOK
<1>5. call'.op = op /\ call'.len = len
  BY <1>3
<1>6. Loop' /\ Obedient'
  BY <1>3 DEF Loop, InWrite, InErase, AtWork, Obedient
<1>7. Contents'
  BY <1>1, <1>3, <1>5 DEF Contents, InWrite, InErase, Filled
<1> QED
  BY <1>3, <1>4, <1>6, <1>7 DEF IInv

LEMMA InvRead ==
  ASSUME IInv, NEW a \in 0 .. Total, NEW len \in 0 .. MaxLen, Read(a, len)
  PROVE  IInv'
<1>1. /\ Begin("read", a, len) /\ UNCHANGED <<pc, progress>>
      /\ result' \in {"ok", "memory"}
      /\ result' = "ok" => out' = [i \in 0 .. len - 1 |-> cells[a + i]]
  BY DEF Read
<1>2. len \in Nat
  BY ChipAssumption
<1>3. /\ UNCHANGED <<cells, busy, wel, ignored, pc, addr, remaining>>
      /\ pc = "idle" /\ ~busy /\ ~ignored
      /\ call' = [op |-> "read", addr |-> a, len |-> len]
      /\ before' = cells /\ skipped' = {}
      /\ Counters' /\ cells' \in [Address -> SUBSET Byte]
  BY <1>1, <1>2, BeginFact DEF progress
<1>4. TypeOK'
  BY <1>1, <1>2, <1>3 DEF IInv, TypeOK
<1>5. call'.op = "read" /\ call'.len = len /\ call'.addr = a
  BY <1>3
<1>6. Loop' /\ Obedient'
  BY <1>3, <1>5
     DEF Loop, InWrite, InErase, AtWork, Obedient
<1>7. Contents'
  BY <1>1, <1>3, <1>5 DEF Contents, InWrite, InErase
<1> QED
  BY <1>3, <1>4, <1>6, <1>7 DEF IInv

LEMMA InvWrite ==
  ASSUME IInv, NEW a \in 0 .. Total, NEW len \in 0 .. MaxLen, Write(a, len)
  PROVE  IInv'
<1>1. /\ Begin("write", a, len) /\ len # 0 /\ ~(a + len > Total)
      /\ pc' = "enable" /\ addr' = a /\ remaining' = len
      /\ UNCHANGED <<result, out>>
  BY DEF Write, Refused, answer
<1>2. len \in 1 .. MaxLen /\ len \in Nat /\ a \in Nat /\ a + len <= Total
  BY <1>1, ChipAssumption
<1>3. /\ UNCHANGED <<cells, busy, wel, ignored>>
      /\ ~busy /\ ~ignored
      /\ call' = [op |-> "write", addr |-> a, len |-> len]
      /\ calls' \in 1 .. MaxCalls
      /\ before' = cells /\ skipped' = {}
      /\ Counters' /\ cells' \in [Address -> SUBSET Byte]
      /\ cells' = FilledBy(call'.addr, calls', before', skipped', 0)
  BY <1>1, <1>2, BeginFact
<1>4. TypeOK'
  BY <1>1, <1>2, <1>3 DEF IInv, TypeOK
<1>5. /\ call'.op = "write" /\ call'.len = len /\ call'.addr = a
      /\ Offset' = 0
  BY <1>1, <1>2, <1>3 DEF Offset
<1>6. Loop'
  BY <1>1, <1>2, <1>3, <1>5 DEF Loop, InWrite, InErase, AtWork
<1>7. Obedient'
  BY <1>1, <1>3, <1>5 DEF Obedient
<1>8. Contents'
  BY <1>1, <1>3, <1>5 DEF Contents, InWrite, InErase, Filled
<1> QED
  BY <1>3, <1>4, <1>6, <1>7, <1>8 DEF IInv

LEMMA InvErase ==
  ASSUME IInv, NEW a \in Address, Erase(a)
  PROVE  IInv'
<1>1. /\ Begin("erase", a, SectorSize)
      /\ pc' = "enable" /\ addr' = Aligned(a) /\ remaining' = 0
      /\ UNCHANGED <<result, out>>
  BY DEF Erase, answer
<1>2. a \in 0 .. Total /\ SectorSize \in Nat /\ Aligned(a) \in 0 .. Total
  <2>1. a \in Nat /\ a < Total /\ Total \in Nat /\ SectorSize \in Nat \ {0}
    BY ChipAssumption DEF Address
  <2>2. Aligned(a) \in 0 .. a
    BY <2>1, AlignedFact DEF Aligned
  <2> QED
    BY <2>1, <2>2
<1>3. /\ UNCHANGED <<cells, busy, wel, ignored>>
      /\ ~busy /\ ~ignored
      /\ call' = [op |-> "erase", addr |-> a, len |-> SectorSize]
      /\ calls' \in 1 .. MaxCalls
      /\ before' = cells /\ skipped' = {}
      /\ Counters' /\ cells' \in [Address -> SUBSET Byte]
  BY <1>1, <1>2, BeginFact
<1>4. TypeOK'
  BY <1>1, <1>2, <1>3, ChipAssumption DEF IInv, TypeOK
<1>5. call'.op = "erase" /\ call'.addr = a
  BY <1>3
<1>6. Loop' /\ Obedient'
  BY <1>1, <1>3, <1>5
     DEF Loop, InWrite, InErase, AtWork, Obedient
<1>7. Contents'
  BY <1>1, <1>3, <1>5 DEF Contents, InWrite, InErase
<1> QED
  BY <1>3, <1>4, <1>6, <1>7 DEF IInv

LEMMA InvWriteEnable == ASSUME IInv, WriteEnable PROVE IInv'
<1>1. /\ pc = "enable" /\ pc' = call.op
      /\ wel' = (wel \/ ~busy) /\ ignored' = (ignored \/ busy)
      /\ UNCHANGED <<cells, busy, call, addr, remaining, result, out, calls,
                     before, skipped>>
  BY DEF WriteEnable, progress, answer
<1>2. ~busy /\ ~ignored
  BY <1>1 DEF IInv, Obedient
<1>3. (InWrite /\ pc' = "write") \/ (InErase /\ pc' = "erase")
  BY <1>1 DEF IInv, Loop, AtWork, InWrite, InErase
<1>4. wel' = TRUE /\ ~ignored'
  BY <1>1, <1>2
<1>5. TypeOK' /\ Counters'
  BY <1>1, <1>3, <1>4 DEF IInv, TypeOK, Counters
<1>6. InWrite' <=> InWrite
  BY <1>1, <1>3 DEF InWrite, InErase
<1>7. InErase' <=> InErase
  BY <1>1, <1>3 DEF InWrite, InErase
<1>8. Loop'
  BY <1>1, <1>3, <1>6, <1>7 DEF IInv, Loop, AtWork, Offset
<1>9. Obedient'
  BY <1>1, <1>2, <1>4 DEF Obedient
<1>10. Contents'
  BY <1>1, <1>3, <1>6, <1>7 DEF IInv, Contents, Offset, Filled
<1> QED
  BY <1>5, <1>8, <1>9, <1>10 DEF IInv

LEMMA InvPageProgram == ASSUME IInv, PageProgram PROVE IInv'
<1>1. /\ pc = "write" /\ pc' = "programming" /\ Command(Programmed)
      /\ UNCHANGED <<call, addr, remaining, result, out, calls, before,
                     skipped>>
  BY DEF PageProgram, progress, answer
<1>2. wel /\ ~busy /\ ~ignored
  BY <1>1 DEF IInv, Obedient
<1>3. /\ cells' = Programmed /\ busy' = TRUE /\ ~ignored' /\ wel' = wel
      /\ ignored' \in BOOLEAN
  BY <1>1, <1>2 DEF Command
<1>4. InWrite
  BY <1>1 DEF IInv, Loop, AtWork, InWrite, InErase
<1>5. cells = Filled(Offset)
  BY <1>1, <1>4 DEF IInv, Contents
<1>6. cells' = Filled(Offset + Chunk)
  BY <1>3, <1>4, <1>5, ProgrammedFact DEF IInv
<1>7. /\ call.addr \in Nat /\ calls \in 1 .. MaxCalls
      /\ Offset + Chunk \in 0 .. MaxLen
      /\ before \in [Address -> SUBSET Byte]
  BY <1>4, WriteFacts, ChipAssumption DEF IInv, TypeOK
<1>8. cells' \in [Address -> SUBSET Byte]
  BY <1>6, <1>7, FilledType DEF Filled
<1>9. TypeOK' /\ Counters'
  BY <1>1, <1>3, <1>8 DEF IInv, TypeOK, Counters
<1>10. InWrite' /\ ~InErase' /\ Offset' = Offset /\ Chunk' = Chunk
  BY <1>1, <1>4 DEF InWrite, InErase, Offset, Chunk
<1>11. Loop'
  BY <1>1, <1>4, <1>10 DEF IInv, Loop, AtWork
<1>12. Obedient'
  BY <1>1, <1>3 DEF Obedient
<1>13. Contents'
  BY <1>1, <1>4, <1>6, <1>10 DEF IInv, Contents, InWrite, Filled
<1> QED
  BY <1>9, <1>11, <1>12, <1>13 DEF IInv

(* The loop goes on: with the chunk in the chip, or with all of it skipped.*)
LEMMA InvNextChunk ==
  ASSUME IInv, InWrite, NextChunk,
         UNCHANGED <<cells, busy, wel, calls, before, ignored>>,
         ~busy,
         skipped' \in SUBSET Byte,
         \A b \in skipped' : b.offset < Offset + Chunk,
         cells = FilledBy(call.addr, calls, before, skipped', Offset + Chunk)
  PROVE  IInv'
<1>1. /\ addr' = addr + Chunk /\ remaining' = remaining - Chunk
      /\ IF remaining' = 0 THEN pc' = "idle" /\ result' = "ok"
                           ELSE pc' = "enable" /\ UNCHANGED result
      /\ UNCHANGED <<call, out>>
  BY DEF NextChunk
<1>2. /\ addr \in Nat /\ remaining \in Nat \ {0} /\ call.addr \in Nat
      /\ call.len \in Nat /\ Offset \in Nat /\ addr = call.addr + Offset
      /\ Chunk \in 1 .. remaining /\ Offset + Chunk \in 1 .. call.len
      /\ Offset + remaining = call.len /\ call.len <= MaxLen
      /\ call.addr + call.len <= Total
  BY WriteFacts
<1>3. /\ remaining' \in 0 .. MaxLen /\ addr' \in 0 .. Total
      /\ Offset' = Offset + Chunk
  <2>1. addr' = call.addr + (Offset + Chunk) /\ addr' \in 0 .. Total
    BY <1>1, <1>2, ChipAssumption
  <2>2. remaining' \in 0 .. MaxLen
    BY <1>1, <1>2, ChipAssumption
  <2>3. Offset' = Offset + Chunk
    BY <1>1, <1>2 DEF Offset
  <2> QED
    BY <2>1, <2>2, <2>3
<1>8. pc' \in {"idle", "enable"} /\ result' \in {"ok", result}
  BY <1>1
<1>4. TypeOK' /\ Counters'
  BY <1>1, <1>3, <1>8 DEF IInv, TypeOK, Counters
<1>5. call.op = "write" /\ ~ignored
  BY DEF InWrite, IInv, Obedient
<1>6. CASE remaining' = 0
  <2>1. Offset + Chunk = call.len
    BY <1>1, <1>2, <1>6
  <2>2. Loop' /\ Obedient'
    BY <1>1, <1>5, <1>6
       DEF Loop, AtWork, InWrite, InErase, Obedient
  <2>3. Contents'
    BY <1>1, <1>5, <1>6, <2>1 DEF Contents, InWrite, InErase, Filled
  <2> QED
    BY <1>4, <2>2, <2>3 DEF IInv
<1>7. CASE remaining' # 0
  <2>1. /\ pc' = "enable" /\ InWrite' /\ ~InErase'
        /\ remaining' \in 1 .. call'.len
    BY <1>1, <1>2, <1>5, <1>7 DEF InWrite, InErase
  <2>2. Loop'
    BY <1>1, <1>2, <1>3, <2>1 DEF Loop, AtWork, IInv, InWrite
  <2>3. Obedient'
    BY <1>5, <2>1 DEF Obedient
  <2>5. Contents'
    BY <1>1, <1>3, <1>5, <2>1 DEF Contents, Filled
  <2> QED
    BY <1>4, <2>2, <2>3, <2>5 DEF IInv
<1> QED
  BY <1>6, <1>7

LEMMA InvProgramming == ASSUME IInv, Programming PROVE IInv'
<1>1. pc = "programming" /\ ~busy /\ NextChunk /\ UNCHANGED <<chip, history>>
  BY DEF Programming
<1>2. InWrite
  BY <1>1 DEF IInv, Loop, AtWork, InWrite, InErase
<1>3. /\ Offset \in Nat /\ Chunk \in Nat \ {0}
      /\ \A b \in skipped : b.offset < Offset
  BY <1>2, WriteFacts
<1>4. \A b \in skipped : b.offset < Offset + Chunk
  <2>1. \A b \in skipped : b.offset \in Nat
    BY ChipAssumption DEF IInv, TypeOK, Byte
  <2> QED
    BY <1>3, <2>1
<1>5. cells = FilledBy(call.addr, calls, before, skipped, Offset + Chunk)
  BY <1>1, <1>2 DEF IInv, Contents, Filled
<1>6. skipped \in SUBSET Byte
  BY DEF IInv, TypeOK
<1>7. UNCHANGED <<cells, busy, wel, calls, before, ignored, skipped>>
  BY <1>1 DEF chip, history
<1> QED
  BY <1>1, <1>2, <1>4, <1>5, <1>6, <1>7, InvNextChunk

LEMMA SkippedChunk ==
  ASSUME call.addr \in Nat, Offset \in Nat, Chunk \in Nat
  PROVE  FilledBy(call.addr, calls, before, skipped \cup ChunkBytes,
                  Offset + Chunk)
           = Filled(Offset)
<1>1. FilledBy(call.addr, calls, before,
               skipped \cup BytesOf(calls, Offset, Chunk), Offset + Chunk)
        = FilledBy(call.addr, calls, before, skipped, Offset)
  BY FilledSkip
<1>2. ChunkBytes = BytesOf(calls, Offset, Chunk)
  BY DEF ChunkBytes, BytesOf
<1> QED
  BY <1>1, <1>2 DEF Filled

LEMMA InvProgramSkipped == ASSUME IInv, ProgramSkipped PROVE IInv'
<1>1. /\ pc = "write" /\ NextChunk /\ skipped' = skipped \cup ChunkBytes
      /\ UNCHANGED <<cells, busy, wel, calls, before, ignored>>
  BY DEF ProgramSkipped, chip
<1>2. InWrite
  BY <1>1 DEF IInv, Loop, AtWork, InWrite, InErase
<1>3. /\ Offset \in Nat /\ Chunk \in Nat \ {0} /\ call.addr \in Nat
      /\ Offset + Chunk <= MaxLen /\ calls \in 1 .. MaxCalls
      /\ \A b \in skipped : b.offset < Offset
  BY <1>2, WriteFacts, ChipAssumption
<1>4. \A b \in skipped : b.offset \in Nat
  BY ChipAssumption DEF IInv, TypeOK, Byte
<1>5. \A b \in ChunkBytes : b \in Byte /\ b.offset < Offset + Chunk
  BY <1>3, ChipAssumption DEF ChunkBytes, Byte
<1>6. \A b \in skipped' : b.offset < Offset + Chunk
  BY <1>1, <1>3, <1>4, <1>5
<1>7. skipped' \in SUBSET Byte
  BY <1>1, <1>5 DEF IInv, TypeOK
<1>8. cells = Filled(Offset)
  BY <1>1, <1>2 DEF IInv, Contents
<1>10. cells = FilledBy(call.addr, calls, before, skipped', Offset + Chunk)
  BY <1>1, <1>3, <1>8, SkippedChunk
<1>11. ~busy
  BY <1>1 DEF IInv, Obedient
<1> QED
  BY <1>1, <1>2, <1>6, <1>7, <1>10, <1>11, InvNextChunk

(* An address and its aligned one are in the same sector.                  *)
LEMMA SameSector ==
  ASSUME NEW a \in Address
  PROVE  Sector(Aligned(a)) = Sector(a)
<1>1. a \in Nat /\ SectorSize \in Nat \ {0}
  BY ChipAssumption DEF Address
<1>2. Aligned(a) \in Nat /\ Aligned(a) % SectorSize = 0
  <2>1. /\ a - (a % SectorSize) \in 0 .. a
        /\ (a - (a % SectorSize)) % SectorSize = 0
    BY <1>1, AlignedFact
  <2> QED
    BY <1>1, <2>1 DEF Aligned
<1>3. Aligned(a) - (Aligned(a) % SectorSize) = a - (a % SectorSize)
  BY <1>1, <1>2 DEF Aligned
<1> QED
  BY <1>3 DEF Sector

LEMMA InvSectorErase == ASSUME IInv, SectorErase PROVE IInv'
<1> DEFINE wiped == [a \in Address |-> IF a \in Sector(addr) THEN {} ELSE cells[a]]
<1>1. /\ pc = "erase" /\ pc' = "erasing" /\ Command(wiped)
      /\ UNCHANGED <<call, addr, remaining, result, out, calls, before,
                     skipped>>
  BY DEF SectorErase, progress, answer
<1>2. wel /\ ~busy /\ ~ignored
  BY <1>1 DEF IInv, Obedient
<1> HIDE DEF wiped
<1>3. /\ cells' = wiped /\ busy' = TRUE /\ ~ignored' /\ wel' = wel
      /\ ignored' \in BOOLEAN
  BY <1>1, <1>2 DEF Command
<1>4. InErase /\ ~InWrite
  BY <1>1 DEF IInv, Loop, AtWork, InWrite, InErase
<1>5. cells = before /\ Sector(addr) = Sector(call.addr)
  BY <1>1, <1>4, SameSector DEF IInv, Contents, Loop
<1>6. cells' = Erased
  BY <1>3, <1>5 DEF wiped, Erased
<1>7. cells' \in [Address -> SUBSET Byte]
  BY <1>6 DEF Erased, IInv, TypeOK
<1>8. TypeOK' /\ Counters'
  BY <1>1, <1>3, <1>7 DEF IInv, TypeOK, Counters
<1>9. InErase' /\ ~InWrite'
  BY <1>1, <1>4 DEF InWrite, InErase
<1>10. Loop'
  BY <1>1, <1>4, <1>9 DEF IInv, Loop, AtWork
<1>11. Obedient'
  BY <1>1, <1>3 DEF Obedient
<1>12. Contents'
  BY <1>1, <1>4, <1>6, <1>9 DEF Contents, InErase, Erased, Sector
<1> QED
  BY <1>8, <1>10, <1>11, <1>12 DEF IInv

LEMMA InvErasing == ASSUME IInv, Erasing PROVE IInv'
<1>1. /\ pc = "erasing" /\ ~busy /\ pc' = "idle" /\ result' = "ok"
      /\ UNCHANGED <<cells, busy, wel, call, addr, remaining, out, calls,
                     before, skipped, ignored>>
  BY DEF Erasing, chip, progress, history
<1>2. InErase /\ call.op = "erase"
  BY <1>1 DEF IInv, Loop, AtWork, InWrite, InErase
<1>3. TypeOK' /\ Counters'
  BY <1>1 DEF IInv, TypeOK, Counters
<1>4. Loop' /\ Obedient'
  BY <1>1, <1>2 DEF IInv, Loop, AtWork, InWrite, InErase,
     Obedient
<1>5. Contents'
  BY <1>1, <1>2 DEF IInv, Contents, InWrite, InErase, Erased, Sector
<1> QED
  BY <1>3, <1>4, <1>5 DEF IInv

LEMMA InvChipDone == ASSUME IInv, ChipDone \/ UNCHANGED vars PROVE IInv'
<1>1. /\ UNCHANGED <<cells, pc, call, addr, remaining, result, out, calls,
                     before, skipped, ignored>>
      /\ \/ busy /\ busy' = FALSE /\ wel' = FALSE
         \/ UNCHANGED <<busy, wel>>
  BY DEF ChipDone, vars, chip, progress, answer, history
<1>2. TypeOK' /\ Counters'
  BY <1>1 DEF IInv, TypeOK, Counters
<1>3. /\ InWrite' <=> InWrite
      /\ InErase' <=> InErase
      /\ Offset' = Offset /\ Chunk' = Chunk
  BY <1>1 DEF InWrite, InErase, Offset, Chunk
<1>4. Loop'
  BY <1>1, <1>3 DEF IInv, Loop, AtWork
<1>5. Obedient'
  BY <1>1 DEF IInv, Obedient
<1>6. Contents'
  BY <1>1, <1>3 DEF IInv, Contents, Filled, Erased, Sector
<1> QED
  BY <1>2, <1>4, <1>5, <1>6 DEF IInv

LEMMA InvInit == ASSUME Init PROVE IInv
<1>1. TypeOK /\ Counters
  <2>1. [a \in Address |-> {}] \in [Address -> SUBSET Byte]
    OBVIOUS
  <2>2. 0 \in 0 .. Total /\ 0 \in 0 .. MaxLen /\ 0 \in 0 .. MaxCalls
    BY ChipAssumption
  <2>3. NoCall \in [op : {"none", "write", "read", "erase"}, addr : 0 .. Total,
                    len : Nat]
    BY <2>2 DEF NoCall
  <2> QED
    BY <2>1, <2>2, <2>3 DEF Init, TypeOK, Counters
<1>2. Loop /\ Obedient /\ Contents
  BY DEF Init, NoCall, Loop, AtWork, InWrite, InErase, Obedient, Contents
<1> QED
  BY <1>1, <1>2 DEF IInv

LEMMA InvStep == ASSUME IInv, [Next]_vars PROVE IInv'
<1>1. CASE Calls
  BY <1>1, InvRefuse, InvWrite, InvRead, InvErase DEF Calls
<1>2. CASE Driver
  BY <1>2, InvReady, InvWriteEnable, InvProgramSkipped, InvPageProgram,
     InvSectorErase, InvProgramming, InvErasing DEF Driver
<1>3. CASE ChipDone \/ UNCHANGED vars
  BY <1>3, InvChipDone
<1> QED
  BY <1>1, <1>2, <1>3 DEF Next

LEMMA Invariant == Spec => []IInv
<1>1. Init => IInv
  BY InvInit
<1>2. IInv /\ [Next]_vars => IInv'
  BY InvStep
<1> QED
  BY <1>1, <1>2, PTL DEF Spec

(***************************************************************************)
(* The properties.                                                         *)
(***************************************************************************)
(* Every variable stays in its range: the loop of w25q64_write             *)
(* (w25q64.c:154-168) never passes the end of the write or of the chip.    *)
THEOREM TypeCorrect == Spec => []TypeOK
<1>1. IInv => TypeOK
  BY DEF IInv
<1> QED
  BY <1>1, Invariant, PTL

(* w25q64.h:49, 59: at no moment of a call is anything but the range of    *)
(* the write, or the sector of the erase, changed.                         *)
THEOREM NothingElseTouched == Spec => []Confined
<1>1. IInv => Confined
  <2>1. SUFFICES ASSUME IInv, NEW a \in Address, a \notin MayTouch
                 PROVE  cells[a] = before[a]
    BY DEF Confined
  <2>2. \A n : a \notin call.addr .. call.addr + n - 1
               => Filled(n)[a] = before[a]
    BY <2>1 DEF Filled, FilledBy, Share
  <2>3. CASE call.op = "write"
    <3>1. a \notin call.addr .. call.addr + call.len - 1
      BY <2>1, <2>3 DEF MayTouch, Range
    <3>2. CASE InWrite
      <4>1. /\ Offset + Chunk \in 1 .. call.len /\ Offset \in 0 .. call.len
            /\ call.addr \in Nat /\ call.len \in Nat /\ a \in Int
        BY <2>1, <3>2, WriteFacts, ChipAssumption DEF Address
      <4>2. /\ a \notin call.addr .. call.addr + Offset - 1
            /\ a \notin call.addr .. call.addr + (Offset + Chunk) - 1
        BY <3>1, <4>1
      <4> QED
        BY <2>1, <2>2, <3>2, <4>2 DEF IInv, Contents
    <3>3. CASE ~InWrite
      <4>1. pc = "idle"
        BY <2>1, <2>3, <3>3
           DEF IInv, TypeOK, Loop, AtWork, InErase, Contents, NoCall
      <4> QED
        BY <2>1, <2>2, <2>3, <3>1, <4>1 DEF IInv, Contents
    <3> QED
      BY <3>2, <3>3
  <2>4. CASE call.op = "erase"
    <3>1. a \notin Sector(call.addr)
      BY <2>1, <2>4 DEF MayTouch
    <3>2. Erased[a] = before[a]
      BY <2>1, <3>1 DEF Erased
    <3>3. InErase \/ pc = "idle"
      BY <2>1, <2>4 DEF IInv, TypeOK, Loop, AtWork, InWrite, Contents, NoCall
    <3> QED
      BY <2>1, <2>4, <3>2, <3>3 DEF IInv, Contents
  <2>5. CASE call.op \in {"none", "read"}
    BY <2>1, <2>5 DEF IInv, Contents
  <2>6. call.op \in {"none", "write", "read", "erase"}
    BY <2>1 DEF IInv, TypeOK
  <2> QED
    BY <2>3, <2>4, <2>5, <2>6
<1> QED
  BY <1>1, Invariant, PTL

(* w25q64.h:41-64: a call that returned ESP_OK has done its work byte for  *)
(* byte, one that failed has changed nothing, and the chip took every      *)
(* command, also behind a page that was skipped for want of memory.        *)
THEOREM CallsAreExact == Spec => []Exact
<1>1. IInv => Exact
  <2>1. SUFFICES ASSUME IInv, pc = "idle"
                 PROVE  /\ ~ignored
                        /\ result = "ok" => Achieved
                        /\ result # "ok" => cells = before
    BY DEF Exact
  <2>2. call.op \in {"none", "write", "read", "erase"}
    BY <2>1 DEF IInv, TypeOK
  <2>3. ~ignored
    BY <2>1 DEF IInv, Obedient
  <2>4. ASSUME result = "ok" PROVE Achieved
    <3>1. CASE call.op = "write"
      <4>1. cells = Filled(call.len)
        BY <2>1, <2>4, <3>1 DEF IInv, Contents
      <4>2. \A a \in Address : cells[a] = before[a] \cup WrittenAt(a)
        BY <4>1 DEF Filled, FilledBy, Share, WrittenAt, Range
      <4> QED
        BY <3>1, <4>2 DEF Achieved
    <3>2. CASE call.op = "erase"
      <4>1. cells = Erased
        BY <2>1, <3>2 DEF IInv, Contents
      <4>2. \A a \in Sector(call.addr) : cells[a] = {}
        BY <4>1 DEF Erased, Sector
      <4> QED
        BY <3>2, <4>2 DEF Achieved
    <3>3. CASE call.op = "read"
      <4>1. call.len > 0
              => out = [i \in 0 .. call.len - 1 |-> before[call.addr + i]]
        BY <2>1, <2>4, <3>3 DEF IInv, Contents
      <4> QED
        BY <3>3, <4>1 DEF Achieved
    <3>4. CASE call.op = "none"
      BY <3>4 DEF Achieved
    <3> QED
      BY <2>2, <3>1, <3>2, <3>3, <3>4
  <2>5. result # "ok" => cells = before
    BY <2>1, <2>2 DEF IInv, Contents
  <2> QED
    BY <2>3, <2>4, <2>5
<1> QED
  BY <1>1, Invariant, PTL

(***************************************************************************)
(* The refinement: the pieces that the loop of w25q64_write cuts are the   *)
(* pages of the range.                                                     *)
(***************************************************************************)
LEMMA StartGrows ==
  ASSUME NEW p \in Nat \ {0}, NEW a \in Nat, NEW b \in Nat, a <= b
  PROVE  a - (a % p) <= b - (b % p)
<1> DEFINE m == a \div p
           n == b \div p
           s == a % p
           t == b % p
<1>1. /\ s \in 0 .. p - 1 /\ m \in Nat /\ a = p * m + s
      /\ t \in 0 .. p - 1 /\ n \in Nat /\ b = p * n + t
  BY DivModFact
<1> HIDE DEF m, n, s, t
<1>2. p * m \in Nat /\ p * n \in Nat
  BY <1>1
<1>3. CASE n < m
  <2>1. p * n + p <= p * m
    BY <1>1, <1>3, ProductStep
  <2> QED
    BY <1>1, <1>2, <2>1
<1>4. CASE m < n
  <2>1. p * m + p <= p * n
    BY <1>1, <1>4, ProductStep
  <2> QED
    BY <1>1, <1>2, <2>1 DEF s, t
<1>5. CASE m = n
  BY <1>1, <1>2, <1>5 DEF s, t
<1>6. a - s <= b - t
  BY <1>1, <1>2, <1>3, <1>4, <1>5
<1> QED
  BY <1>6 DEF s, t

(* Where a page ends the next one starts.                                  *)
LEMMA PageEnds ==
  ASSUME NEW p \in Nat \ {0}, NEW a \in Nat, NEW i \in Nat, (a % p) + i = p
  PROVE  (a + i) % p = 0
<1>1. a \div p \in Nat /\ a = p * (a \div p) + (a % p) /\ a % p \in Nat
  BY DivModFact
<1>2. a + i = p * ((a \div p) + 1) + 0
  <2>1. p * ((a \div p) + 1) = p * (a \div p) + p
    BY <1>1
  <2>2. p * (a \div p) \in Nat
    BY <1>1
  <2> QED
    BY <1>1, <2>1, <2>2
<1>3. 0 \in 0 .. p - 1 /\ (a \div p) + 1 \in Nat
  BY <1>1
<1>4. (p * ((a \div p) + 1) + 0) % p = 0
  BY <1>3, RemainderUnique
<1> QED
  BY <1>2, <1>4

(* Of what a write has left, the chunk is the part in the lowest page.     *)
LEMMA ChunkIsPiece ==
  ASSUME addr \in Nat, remaining \in Nat \ {0},
         NEW todo, todo = addr .. addr + remaining - 1
  PROVE  {a \in todo : \A b \in todo :
            Flash!Start(a, PageSize) <= Flash!Start(b, PageSize)}
           = addr .. addr + Chunk - 1
<1> DEFINE p == PageSize
           start(a) == a - (a % p)
<1>1. p \in Nat \ {0} /\ addr % p \in Nat /\ Chunk \in 1 .. remaining
      /\ (addr % p) + Chunk <= p
  BY ChunkFact, DivModFact, ChipAssumption
<1>2. \A a, b \in Nat : a <= b => start(a) <= start(b)
  BY <1>1, StartGrows
<1>3. addr \in todo /\ \A a \in todo : a \in Nat /\ addr <= a
                                     /\ start(a) \in Int
  BY <1>1, DivModFact
<1>4. ASSUME NEW a \in todo
      PROVE  start(a) <= start(addr) <=> a \in addr .. addr + Chunk - 1
  <2>1. CASE a \in addr .. addr + Chunk - 1
    <3>1. a - addr \in Nat /\ (addr % p) + (a - addr) < p
      BY <1>1, <2>1
    <3>2. (addr + (a - addr)) % p = (addr % p) + (a - addr)
      BY <1>1, <3>1, WithinPage
    <3>3. addr + (a - addr) = a
      BY <1>3
    <3>4. start(a) = start(addr)
      BY <1>1, <1>3, <3>2, <3>3
    <3> QED
      BY <1>3, <2>1, <3>4
  <2>2. CASE a \notin addr .. addr + Chunk - 1
    <3>1. /\ a \in Nat /\ addr + Chunk <= a /\ Chunk # remaining
          /\ Chunk \in Nat /\ addr + Chunk \in Nat
      BY <1>1, <1>3, <2>2
    <3>2. (addr % p) + Chunk = p
      BY <1>1, <3>1 DEF Chunk
    <3>3. (addr + Chunk) % p = 0
      BY <1>1, <3>1, <3>2, PageEnds
    <3>5. start(addr + Chunk) = addr + Chunk
      BY <3>1, <3>3
    <3> HIDE DEF start
    <3>4. start(addr + Chunk) <= start(a)
      BY <1>2, <3>1
    <3>6. start(addr) <= addr /\ start(addr) \in Int
      BY <1>1 DEF start
    <3> QED
      BY <1>1, <1>3, <2>2, <3>1, <3>5, <3>4, <3>6
  <2> QED
    BY <2>1, <2>2
<1>5. \A a \in todo : (\A b \in todo : start(a) <= start(b))
                       <=> start(a) <= start(addr)
  BY <1>2, <1>3
<1>6. \A a \in addr .. addr + Chunk - 1 : a \in todo
  BY <1>1
<1>7. \A a \in Int : Flash!Start(a, PageSize) = start(a)
  BY DEF Flash!Start
<1> HIDE DEF start
<1>8. \A a, b \in todo : Flash!Start(a, PageSize) <= Flash!Start(b, PageSize)
                           <=> start(a) <= start(b)
  BY <1>3, <1>7
<1> QED
  BY <1>4, <1>5, <1>6, <1>8

LEMMA JobLeft ==
  ASSUME NEW o, NEW a, NEW t, NEW u,
         NEW j, j = [op |-> o, addr |-> a, todo |-> t]
  PROVE  [j EXCEPT !.todo = u] = [op |-> o, addr |-> a, todo |-> u]
OBVIOUS

(* What is left of a write, and the part of it in the lowest page.         *)
LEMMA WriteJob ==
  ASSUME IInv, InWrite, pc \in {"enable", "write"}
  PROVE  /\ Job = [op |-> "write", addr |-> call.addr,
                   todo |-> addr .. addr + remaining - 1]
         /\ Flash!Piece = addr .. addr + Chunk - 1
         /\ Job.todo # {}
         /\ Job.todo \ Flash!Piece = addr + Chunk .. addr + remaining - 1
         /\ Flash!Piece = Job.todo <=> Chunk = remaining
<1> DEFINE todo == addr .. addr + remaining - 1
<1>1. /\ addr \in Nat /\ remaining \in Nat \ {0} /\ Chunk \in 1 .. remaining
  BY WriteFacts
<1>2. Job = [op |-> "write", addr |-> call.addr, todo |-> todo]
  BY DEF Job, Left, InWrite
<1>3. Job.todo = todo
  BY <1>2
<1>4. Flash!Piece = addr .. addr + Chunk - 1
  <2>1. Flash!Piece
          = {a \in todo : \A b \in todo :
               Flash!Start(a, PageSize) <= Flash!Start(b, PageSize)}
    BY <1>3 DEF Flash!Piece
  <2> QED
    BY <1>1, <2>1, ChunkIsPiece
<1>5. /\ todo # {}
      /\ todo \ (addr .. addr + Chunk - 1) = addr + Chunk .. addr + remaining - 1
  BY <1>1
<1>6. addr .. addr + Chunk - 1 = todo <=> Chunk = remaining
  <2>1. Chunk # remaining => addr + Chunk \in todo
                             /\ addr + Chunk \notin addr .. addr + Chunk - 1
    BY <1>1
  <2> QED
    BY <2>1
<1> QED
  BY <1>2, <1>3, <1>4, <1>5, <1>6

(* The start of a call, and w25q64_init.                                   *)
LEMMA ReadyRefines ==
  ASSUME Ready \/ InitFails
  PROVE  Flash!Open
BY DEF Ready, InitFails, Flash!Open, Flash!Closed, Flash!NoJob, Job, chip,
       answer, history

LEMMA CallRefines ==
  ASSUME IInv, NEW a \in 0 .. Total, NEW len \in 0 .. MaxLen,
         \/ \E op \in {"write", "read"} : Refuse(op, a, len)
         \/ Write(a, len)
         \/ Read(a, len)
  PROVE  Flash!Refuse(a, len) \/ Flash!Read(a, len) \/ Flash!Write(a, len)
<1>1. Refused(a, len) <=> ~Flash!InRange(a, len)
  <2>1. a \in Nat /\ len \in Nat /\ Total \in Nat
    BY ChipAssumption
  <2> QED
    BY <2>1 DEF Refused, Flash!InRange
<1>2. ASSUME NEW op, NEW n, Begin(op, a, n)
      PROVE  Flash!Request /\ pc = "idle"
  BY <1>2 DEF Begin, Flash!Request, Flash!NoJob, Job, chip
<1>3. ASSUME NEW op \in {"write", "read"}, Refuse(op, a, len)
      PROVE  Flash!Refuse(a, len)
  <2>1. Begin(op, a, len) /\ Refused(a, len) /\ pc' = pc /\ out' = out
        /\ result' = IF len = 0 THEN "ok" ELSE "size"
    BY <1>3 DEF Refuse
  <2>2. Flash!Request /\ pc = "idle"
    BY <1>2, <2>1
  <2>3. Job' = Job
    BY <2>1, <2>2 DEF Job
  <2> QED
    BY <1>1, <2>1, <2>2, <2>3 DEF Flash!Refuse
<1>4. ASSUME Write(a, len) PROVE Flash!Write(a, len)
  <2>1. /\ Begin("write", a, len) /\ ~Refused(a, len)
        /\ pc' = "enable" /\ addr' = a /\ remaining' = len
        /\ UNCHANGED <<result, out>>
    BY <1>4 DEF Write, answer
  <2>2. Flash!Request /\ call' = [op |-> "write", addr |-> a, len |-> len]
    BY <1>2, <2>1 DEF Begin
  <2>3. Job' = [op |-> "write", addr |-> a, todo |-> a .. a + len - 1]
    BY <2>1, <2>2 DEF Job, Left
  <2> QED
    BY <1>1, <2>1, <2>2, <2>3 DEF Flash!Write
<1>5. ASSUME Read(a, len) PROVE Flash!Read(a, len)
  <2>1. Begin("read", a, len) /\ ~Refused(a, len) /\ pc' = pc
    BY <1>5 DEF Read
  <2>2. Flash!Request /\ Job' = Job
    BY <1>2, <2>1 DEF Job
  <2> QED
    BY <1>1, <1>5, <2>1, <2>2 DEF Read, Flash!Read
<1> QED
  BY <1>3, <1>4, <1>5

LEMMA EraseRefines ==
  ASSUME NEW a \in Address, Erase(a)
  PROVE  Flash!Erase(a)
<1>1. /\ Begin("erase", a, SectorSize) /\ pc' = "enable"
      /\ UNCHANGED <<result, out>>
  BY DEF Erase, answer
<1>2. /\ pc = "idle" /\ calls < MaxCalls /\ calls' = calls + 1
      /\ call' = [op |-> "erase", addr |-> a, len |-> SectorSize]
      /\ cells' = cells
  BY <1>1 DEF Begin, chip
<1>3. Flash!Request
  BY <1>2 DEF Flash!Request, Flash!NoJob, Job
<1>4. Job' = [op |-> "erase", addr |-> a, todo |-> Sector(a)]
  BY <1>1, <1>2 DEF Job, Left, Sector
<1>5. Sector(a) = Flash!SectorOf(a)
  BY DEF Sector, Flash!SectorOf, Flash!Start, Flash!Address, Address
<1> QED
  BY <1>1, <1>3, <1>4, <1>5 DEF Flash!Erase

(* The steps of a write.                                                   *)
LEMMA ProgramRefines ==
  ASSUME IInv, PageProgram
  PROVE  Flash!PageWritten
<1>1. /\ pc = "write" /\ pc' = "programming" /\ Command(Programmed)
      /\ UNCHANGED <<call, addr, remaining, result, out, calls>>
  BY DEF PageProgram, progress, answer
<1>2. InWrite
  BY <1>1 DEF IInv, Loop, AtWork, InWrite, InErase
<1>3. cells' = Programmed
  BY <1>1 DEF Command, IInv, Obedient
<1>4. /\ addr \in Nat /\ remaining \in Nat \ {0} /\ call.addr \in Nat
      /\ Offset \in Nat /\ addr = call.addr + Offset
  BY <1>2, WriteFacts
<1>5. /\ Job = [op |-> "write", addr |-> call.addr,
                todo |-> addr .. addr + remaining - 1]
      /\ Flash!Piece = addr .. addr + Chunk - 1
      /\ Job.todo # {}
      /\ Job.todo \ Flash!Piece = addr + Chunk .. addr + remaining - 1
  BY <1>1, <1>2, WriteJob
<1>6. Job' = [op |-> "write", addr |-> call.addr,
              todo |-> addr + Chunk .. addr + remaining - 1]
  BY <1>1, <1>2 DEF Job, Left, Chunk, InWrite
<1>7. Job' = [Job EXCEPT !.todo = @ \ Flash!Piece]
  <2> DEFINE j == Job
             rest == Job.todo \ Flash!Piece
  <2>1. /\ j = [op |-> "write", addr |-> call.addr,
                todo |-> addr .. addr + remaining - 1]
        /\ rest = addr + Chunk .. addr + remaining - 1
    BY <1>5
  <2> HIDE DEF j, rest
  <2>2. [j EXCEPT !.todo = rest]
          = [op |-> "write", addr |-> call.addr, todo |-> rest]
    BY <2>1, JobLeft
  <2> QED
    BY <1>6, <2>1, <2>2 DEF j, rest
<1>8. cells' = [a \in Address |->
                  IF a \in Flash!Piece
                  THEN cells[a] \cup {[call |-> calls, offset |-> a - Job.addr]}
                  ELSE cells[a]]
  <2>1. \A a \in Address :
          Programmed[a] = IF a \in addr .. addr + Chunk - 1
                          THEN cells[a] \cup {[call |-> calls,
                                               offset |-> a - call.addr]}
                          ELSE cells[a]
    BY <1>4, ProgramPlaces
  <2>2. Job.addr = call.addr
    BY <1>5
  <2>3. Programmed = [a \in Address |-> Programmed[a]]
    BY DEF Programmed
  <2> QED
    BY <1>3, <1>5, <2>1, <2>2, <2>3
<1>9. Job.op = "write"
  BY <1>5
<1> QED
  BY <1>1, <1>5, <1>7, <1>8, <1>9 DEF Flash!PageWritten, Flash!Address, Address

LEMMA NextJob ==
  ASSUME IInv, InWrite, NextChunk
  PROVE  IF Chunk = remaining
         THEN Job' = Flash!NoJob /\ result' = "ok"
         ELSE /\ Job' = [op |-> "write", addr |-> call.addr,
                         todo |-> addr + Chunk .. addr + remaining - 1]
              /\ UNCHANGED result
<1>1. /\ addr \in Nat /\ remaining \in Nat \ {0} /\ Chunk \in 1 .. remaining
  BY WriteFacts
<1>2. /\ addr' = addr + Chunk /\ remaining' = remaining - Chunk
      /\ IF remaining' = 0 THEN pc' = "idle" /\ result' = "ok"
                           ELSE pc' = "enable" /\ UNCHANGED result
      /\ UNCHANGED call
  BY DEF NextChunk
<1>3. CASE Chunk = remaining
  BY <1>1, <1>2, <1>3 DEF Job, Flash!NoJob
<1>4. CASE Chunk # remaining
  <2>1. pc' = "enable" /\ result' = result
    BY <1>1, <1>2, <1>4
  <2>2. addr' = addr + Chunk /\ addr' + remaining' - 1 = addr + remaining - 1
    BY <1>1, <1>2
  <2>3. addr' .. addr' + remaining' - 1 = addr + Chunk .. addr + remaining - 1
    BY <2>2
  <2> QED
    BY <1>2, <1>4, <2>1, <2>3 DEF Job, Left, InWrite
<1> QED
  BY <1>3, <1>4

LEMMA SkipRefines ==
  ASSUME IInv, ProgramSkipped
  PROVE  Flash!PageMissed
<1>1. pc = "write" /\ NextChunk /\ UNCHANGED <<cells, out, calls>>
  BY DEF ProgramSkipped, NextChunk, chip
<1>2. InWrite
  BY <1>1 DEF IInv, Loop, AtWork, InWrite, InErase
<1>3. /\ Job = [op |-> "write", addr |-> call.addr,
                todo |-> addr .. addr + remaining - 1]
      /\ Job.todo # {}
      /\ Job.todo \ Flash!Piece = addr + Chunk .. addr + remaining - 1
      /\ Flash!Piece = Job.todo <=> Chunk = remaining
  BY <1>1, <1>2, WriteJob
<1>4. Job.op = "write"
  BY <1>3
<1>5. CASE Chunk = remaining
  BY <1>1, <1>2, <1>3, <1>4, <1>5, NextJob DEF Flash!PageMissed
<1>6. CASE Chunk # remaining
  <2>1. /\ Job' = [op |-> "write", addr |-> call.addr,
                   todo |-> addr + Chunk .. addr + remaining - 1]
        /\ UNCHANGED result
    BY <1>1, <1>2, <1>6, NextJob
  <2>2. Job' = [Job EXCEPT !.todo = @ \ Flash!Piece]
    <3> DEFINE j == Job
               rest == Job.todo \ Flash!Piece
    <3>1. /\ j = [op |-> "write", addr |-> call.addr,
                  todo |-> addr .. addr + remaining - 1]
          /\ rest = addr + Chunk .. addr + remaining - 1
      BY <1>3
    <3> HIDE DEF j, rest
    <3>2. [j EXCEPT !.todo = rest]
            = [op |-> "write", addr |-> call.addr, todo |-> rest]
      BY <3>1, JobLeft
    <3> QED
      BY <2>1, <3>1, <3>2 DEF j, rest
  <2> QED
    BY <1>1, <1>3, <1>4, <1>6, <2>1, <2>2 DEF Flash!PageMissed
<1> QED
  BY <1>5, <1>6

LEMMA ProgrammingRefines ==
  ASSUME IInv, Programming
  PROVE  Flash!Return \/ UNCHANGED Flash!vars
<1>1. pc = "programming" /\ NextChunk /\ UNCHANGED <<cells, out, calls>>
  BY DEF Programming, NextChunk, chip, history
<1>2. InWrite
  BY <1>1 DEF IInv, Loop, AtWork, InWrite, InErase
<1>3. addr \in Nat /\ remaining \in Nat \ {0} /\ Chunk \in 1 .. remaining
  BY <1>2, WriteFacts
<1>4. Job = [op |-> "write", addr |-> call.addr,
             todo |-> addr + Chunk .. addr + remaining - 1]
  BY <1>1, <1>2 DEF Job, Left, InWrite
<1>5. CASE Chunk = remaining
  <2>1. addr + Chunk .. addr + remaining - 1 = {}
    BY <1>3, <1>5
  <2>2. Job.op = "write" /\ Job.todo = {}
    BY <1>4, <2>1
  <2> QED
    BY <1>1, <1>2, <1>5, <2>2, NextJob DEF Flash!Return
<1>6. CASE Chunk # remaining
  BY <1>1, <1>2, <1>4, <1>6, NextJob DEF Flash!vars
<1> QED
  BY <1>5, <1>6

(* The steps of an erase.                                                  *)
LEMMA SectorRefines ==
  ASSUME IInv, SectorErase
  PROVE  Flash!SectorErased
<1> DEFINE wiped == [a \in Address |-> IF a \in Sector(addr) THEN {} ELSE cells[a]]
<1>1. /\ pc = "erase" /\ pc' = "erasing" /\ Command(wiped)
      /\ UNCHANGED <<call, result, out, calls>>
  BY DEF SectorErase, answer
<1>2. InErase /\ call.op = "erase"
  BY <1>1 DEF IInv, Loop, AtWork, InWrite, InErase
<1>3. call.addr \in Address /\ Sector(addr) = Sector(call.addr)
  BY <1>2, SameSector DEF IInv, Loop
<1>4. cells' = wiped
  <2>1. wel /\ ~busy
    BY <1>1 DEF IInv, Obedient
  <2> HIDE DEF wiped
  <2> QED
    BY <1>1, <2>1 DEF Command
<1>5. Job = [op |-> "erase", addr |-> call.addr, todo |-> Sector(call.addr)]
  BY <1>1, <1>2 DEF Job, Left
<1>6. Job' = [op |-> "erase", addr |-> call.addr, todo |-> {}]
  BY <1>1, <1>2 DEF Job, Left
<1>7. Job.op = "erase" /\ Job.todo = Sector(call.addr) /\ Job.todo # {}
      /\ Job' = [Job EXCEPT !.todo = {}]
  <2>1. call.addr \in Sector(call.addr)
    BY <1>3 DEF Sector
  <2>2. Job' = [Job EXCEPT !.todo = {}]
    BY <1>5, <1>6, JobLeft
  <2> QED
    BY <1>5, <2>1, <2>2
<1> QED
  BY <1>1, <1>3, <1>4, <1>7 DEF Flash!SectorErased, Flash!Address, Address

LEMMA ErasingRefines ==
  ASSUME IInv, Erasing
  PROVE  Flash!Return
<1>1. /\ pc = "erasing" /\ pc' = "idle" /\ result' = "ok"
      /\ UNCHANGED <<cells, call, out, calls>>
  BY DEF Erasing, chip, history
<1>2. call.op = "erase"
  BY <1>1 DEF IInv, Loop, AtWork, InWrite, InErase
<1>3. Job = [op |-> "erase", addr |-> call.addr, todo |-> {}]
  BY <1>1, <1>2 DEF Job, Left
<1>4. Job' = Flash!NoJob
  BY <1>1 DEF Job, Flash!NoJob
<1> QED
  BY <1>1, <1>3, <1>4 DEF Flash!Return

(* What the caller does not see.                                           *)
LEMMA HiddenRefines ==
  ASSUME IInv, WriteEnable \/ ChipDone \/ UNCHANGED vars
  PROVE  UNCHANGED Flash!vars
<1>1. /\ UNCHANGED <<cells, call, addr, remaining, result, out, calls>>
      /\ \/ pc = "enable" /\ pc' = call.op
         \/ pc' = pc
  BY DEF WriteEnable, ChipDone, vars, chip, progress, answer, history
<1>2. pc = "enable" => call.op \in {"write", "erase"}
  BY DEF IInv, Loop, AtWork, InWrite, InErase
<1>3. Job' = Job
  BY <1>1, <1>2 DEF Job, Left, Sector, Chunk
<1> QED
  BY <1>1, <1>3 DEF Flash!vars

LEMMA StepRefines ==
  ASSUME IInv, [Next]_vars
  PROVE  [Flash!Next]_Flash!vars
<1>1. CASE Calls
  <2>1. PICK a \in 0 .. Total, len \in 0 .. MaxLen :
          \/ \E op \in {"write", "read"} : Refuse(op, a, len)
          \/ Write(a, len)
          \/ Read(a, len)
          \/ a \in Address /\ Erase(a)
    BY <1>1 DEF Calls
  <2>2. CASE a \in Address /\ Erase(a)
    <3>1. Flash!Erase(a) /\ a \in Flash!Address
      BY <2>2, EraseRefines DEF Flash!Address, Address
    <3> QED
      BY <3>1 DEF Flash!Next
  <2>3. CASE ~(a \in Address /\ Erase(a))
    <3>1. Flash!Refuse(a, len) \/ Flash!Read(a, len) \/ Flash!Write(a, len)
      BY <2>1, <2>3, CallRefines
    <3> QED
      BY <3>1 DEF Flash!Next
  <2> QED
    BY <2>2, <2>3
<1>2. CASE Driver
  BY <1>2, ReadyRefines, HiddenRefines, SkipRefines, ProgramRefines,
     SectorRefines, ProgrammingRefines, ErasingRefines DEF Driver, Flash!Next
<1>3. CASE ChipDone \/ UNCHANGED vars
  BY <1>3, HiddenRefines
<1> QED
  BY <1>1, <1>2, <1>3 DEF Next

(* w25q64.h:41-64: for every geometry of the chip the driver, seen through *)
(* its calls, is the flash memory of NorFlash, and a page is written in    *)
(* one step; so is an entry of FlashStorage, which lies in one page.       *)
THEOREM DriverImplementsNorFlash == Spec => ImplementsNorFlash
<1>1. Init => Flash!Init
  BY DEF Init, Flash!Init, Flash!Closed, Flash!Address, Address, Job
<1>2. IInv /\ [Next]_vars => [Flash!Next]_Flash!vars
  BY StepRefines
<1> QED
  BY <1>1, <1>2, Invariant, PTL DEF Spec, ImplementsNorFlash, Flash!Spec

(***************************************************************************)
(* A write that stays within a page: its first chunk is all of it.         *)
(***************************************************************************)
(* flash_storage.h:13, flash_storage.c:63, 209: an entry is a page and its *)
(* magic lies in it.  At every moment of a write that stays within a page, *)
(* and after it, all of it is in the chip or nothing, as FlashStorage has  *)
(* it: a chunk too short, or a page counted from the wrong place, would    *)
(* leave a magic without its data for a power cut to find.                 *)
InOnePage == (call.addr % PageSize) + call.len <= PageSize
EntryAtOnce ==
  call.op = "write" /\ InOnePage =>
    \/ \A a \in Address : cells[a] = before[a]
    \/ \A a \in Address :
         cells[a] = before[a] \cup
           IF a \in Range THEN {[call |-> calls, offset |-> a - call.addr]}
                          ELSE {}

AllBytes == {[call |-> calls, offset |-> i] : i \in 0 .. call.len - 1}

OneChunk ==
  call.op = "write" /\ InOnePage =>
    /\ InWrite => remaining = call.len
    /\ ~InWrite => skipped = {} \/ skipped = AllBytes

LEMMA FirstChunk ==
  ASSUME IInv, OneChunk, InWrite, InOnePage
  PROVE  Offset = 0 /\ Chunk = call.len /\ remaining = call.len /\ skipped = {}
<1>1. remaining = call.len /\ call.len \in Nat \ {0} /\ Offset = 0
      /\ addr = call.addr /\ addr \in Nat
  BY WriteFacts DEF OneChunk, InWrite, Offset
<1>2. Chunk = call.len
  BY <1>1, ChunkFact DEF InOnePage
<1>3. skipped = {}
  <2>1. \A b \in skipped : b.offset < 0 /\ b.offset \in Nat
    BY <1>1, WriteFacts, ChipAssumption DEF IInv, TypeOK, Byte
  <2> QED
    BY <2>1
<1> QED
  BY <1>1, <1>2, <1>3

LEMMA OneChunkCalls ==
  ASSUME IInv, OneChunk, Calls
  PROVE  OneChunk'
<1>1. PICK a \in 0 .. Total, len \in 0 .. MaxLen :
        \/ \E op \in {"write", "read"} : Refuse(op, a, len)
        \/ Write(a, len)
        \/ Read(a, len)
        \/ a \in Address /\ Erase(a)
  BY DEF Calls
<1>2. ASSUME NEW op \in {"write", "read"}, Refuse(op, a, len)
      PROVE  OneChunk'
  <2>1. skipped' = {} /\ pc' = "idle"
    BY <1>2 DEF Refuse, Begin
  <2> QED
    BY <2>1 DEF OneChunk, InWrite
<1>3. CASE Write(a, len)
  <2>1. /\ remaining' = len /\ call'.len = len /\ pc' = "enable"
        /\ call'.op = "write"
    BY <1>3 DEF Write, Begin
  <2> QED
    BY <2>1 DEF OneChunk, InWrite
<1>4. CASE Read(a, len) \/ Erase(a)
  <2>1. call'.op # "write"
    BY <1>4 DEF Read, Erase, Begin
  <2> QED
    BY <2>1 DEF OneChunk
<1> QED
  BY <1>1, <1>2, <1>3, <1>4

(* The loop of w25q64_write has done its only turn.                        *)
LEMMA LastTurn ==
  ASSUME IInv, OneChunk, InWrite, NextChunk, UNCHANGED calls,
         skipped' = skipped \/ skipped' = skipped \cup ChunkBytes
  PROVE  OneChunk'
<1>1. UNCHANGED call
  BY DEF NextChunk
<1>2. SUFFICES ASSUME InOnePage
               PROVE  pc' = "idle" /\ (skipped' = {} \/ skipped' = AllBytes')
  BY <1>1 DEF OneChunk, InWrite, InOnePage
<1>3. Offset = 0 /\ Chunk = call.len /\ remaining = call.len /\ skipped = {}
  BY <1>2, FirstChunk
<1>4. call.len \in Nat
  BY WriteFacts
<1>5. ChunkBytes = AllBytes /\ AllBytes' = AllBytes
  BY <1>1, <1>3, <1>4 DEF ChunkBytes, AllBytes
<1>6. remaining' = 0 /\ pc' = "idle"
  BY <1>3, <1>4 DEF NextChunk
<1> QED
  BY <1>3, <1>5, <1>6

LEMMA OneChunkStep ==
  ASSUME IInv, OneChunk, [Next]_vars
  PROVE  OneChunk'
<1>1. CASE Ready \/ InitFails
  <2>1. call' = NoCall
    BY <1>1 DEF Ready, InitFails, IInv, Contents
  <2> QED
    BY <2>1 DEF OneChunk, NoCall
<1>2. CASE \/ WriteEnable \/ PageProgram \/ SectorErase \/ ChipDone
           \/ UNCHANGED vars
  <2>1. UNCHANGED <<call, remaining, skipped, calls>>
    BY <1>2 DEF WriteEnable, PageProgram, SectorErase, ChipDone, progress,
                history, vars
  <2>2. InWrite' <=> InWrite
    BY <1>2, <2>1
       DEF WriteEnable, PageProgram, SectorErase, ChipDone, vars, InWrite,
           InErase, IInv, Loop, AtWork
  <2> QED
    BY <2>1, <2>2 DEF OneChunk, InOnePage, AllBytes
<1>3. CASE ProgramSkipped
  <2>1. InWrite
    BY <1>3 DEF ProgramSkipped, IInv, Loop, AtWork, InWrite, InErase
  <2> QED
    BY <1>3, <2>1, LastTurn DEF ProgramSkipped
<1>4. CASE Programming
  <2>1. InWrite
    BY <1>4 DEF Programming, IInv, Loop, AtWork, InWrite, InErase
  <2> QED
    BY <1>4, <2>1, LastTurn DEF Programming, history
<1>5. CASE Erasing
  <2>1. call'.op = "erase"
    BY <1>5 DEF Erasing, IInv, Loop, AtWork, InWrite, InErase
  <2> QED
    BY <2>1 DEF OneChunk
<1>6. CASE Calls
  BY <1>6, OneChunkCalls
<1> QED
  BY <1>1, <1>2, <1>3, <1>4, <1>5, <1>6 DEF Next, Driver

LEMMA ChunkAtOnce ==
  ASSUME IInv, OneChunk
  PROVE  EntryAtOnce
<1> SUFFICES ASSUME call.op = "write", InOnePage
             PROVE  \/ cells = before
                    \/ \A a \in Address :
                         cells[a] = before[a] \cup
                           IF a \in Range
                           THEN {[call |-> calls, offset |-> a - call.addr]}
                           ELSE {}
  BY DEF EntryAtOnce
<1>1. before \in [Address -> SUBSET Byte] /\ cells \in [Address -> SUBSET Byte]
  BY DEF IInv, TypeOK
<1>2. call.addr \in Nat /\ call.len \in Nat
  BY ChipAssumption DEF IInv, TypeOK
<1>3. ASSUME cells = Filled(call.len), skipped = {} \/ skipped = AllBytes
      PROVE  \/ cells = before
             \/ \A a \in Address :
                  cells[a] = before[a] \cup
                    IF a \in Range
                    THEN {[call |-> calls, offset |-> a - call.addr]}
                    ELSE {}
  <2>1. CASE skipped = {}
    BY <1>3, <2>1 DEF Filled, FilledBy, Share, Range
  <2>2. CASE skipped = AllBytes
    <3>1. ASSUME NEW a \in Address
          PROVE  cells[a] = before[a]
      <4>1. ASSUME a \in call.addr .. call.addr + call.len - 1
            PROVE  [call |-> calls, offset |-> a - call.addr] \in skipped
        <5>1. a - call.addr \in 0 .. call.len - 1
          BY <1>2, <4>1
        <5> QED
          BY <2>2, <5>1 DEF AllBytes
      <4>2. Share(call.addr, calls, skipped, call.len, a) = {}
        BY <4>1 DEF Share
      <4> QED
        BY <1>3, <4>2 DEF Filled, FilledBy
    <3> QED
      BY <1>1, <3>1
  <2> QED
    BY <1>3, <2>1, <2>2
<1>4. CASE InWrite
  <2>1. Offset = 0 /\ Chunk = call.len /\ skipped = {}
    BY <1>4, FirstChunk
  <2>2. CASE pc = "programming"
    BY <1>2, <1>3, <1>4, <2>1, <2>2 DEF IInv, Contents
  <2>3. CASE pc # "programming"
    <3>1. cells = Filled(0)
      BY <1>4, <2>1, <2>3 DEF IInv, Contents
    <3>2. \A a \in Address : cells[a] = before[a]
      <4>1. \A a \in Address : a \notin call.addr .. call.addr + 0 - 1
        BY <1>2
      <4> QED
        BY <3>1, <4>1 DEF Filled, FilledBy, Share
    <3> QED
      BY <1>1, <3>2
  <2> QED
    BY <2>2, <2>3
<1>5. CASE ~InWrite
  <2>1. pc = "idle"
    BY <1>5 DEF IInv, TypeOK, Loop, AtWork, InErase, Contents, NoCall
  <2>2. skipped = {} \/ skipped = AllBytes
    BY <1>5 DEF OneChunk
  <2>3. cells = Filled(call.len) \/ cells = before
    BY <2>1 DEF IInv, Contents
  <2> QED
    BY <1>3, <2>2, <2>3
<1> QED
  BY <1>4, <1>5

(* flash_storage.h:13, flash_storage.c:63, 209: at every moment of a write *)
(* that stays within a page, as an entry and its magic do, all of it is in *)
(* the chip or nothing, so that FlashStorage may take it for one step.     *)
THEOREM EntriesWhole == Spec => []EntryAtOnce
<1>1. Init => OneChunk
  BY DEF Init, OneChunk, NoCall
<1>2. IInv /\ OneChunk /\ [Next]_vars => OneChunk'
  BY OneChunkStep
<1>3. IInv /\ OneChunk => EntryAtOnce
  BY ChunkAtOnce
<1> QED
  BY <1>1, <1>2, <1>3, Invariant, PTL DEF Spec

=============================================================================
