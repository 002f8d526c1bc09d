----------------------------- MODULE ModbusCrc ------------------------------
(***************************************************************************)
(* modbus_crc16 of protocol/modbus_crc.c, one turn of its loops at a time, *)
(* as modbus_master.c uses it: a frame is sealed with its CRC, low byte    *)
(* first, the line turns some of its bits over, and what resynchronisation *)
(* hands on passes when the CRC of it all is zero.                         *)
(*                                                                         *)
(* A word is the set of the places of its ones, counted from the lowest    *)
(* bit, so that the ^ of the code is SymDiff.  Data is the set of its ones *)
(* in the order of the line: bit b of byte i is at place 8 * i + b.        *)
(*                                                                         *)
(* The same places, read from the highest coefficient on, make data a      *)
(* polynomial over GF(2), and its CRC is defined as what division by       *)
(* x^16 + x^15 + x^2 + 1 leaves.  The quotient is kept as a history.       *)
(***************************************************************************)
EXTENDS Integers, FiniteSetsExt

CONSTANTS
  Frames,       \* bound: frames before their CRC, their bytes and their ones
  Errors        \* bound: for each length, the places that may be turned over

Places(bytes) == 0 .. 8 * bytes - 1

ASSUME CrcAssumption ==
  /\ \A f \in Frames : f.len \in Nat \ {0} /\ f.ones \subseteq Places(f.len)
  /\ Errors \in [{f.len : f \in Frames} -> SUBSET SUBSET Nat]

VARIABLES
  phase,        \* what the CRC is computed for, and the verdict on it
  damage,       \* history: the places the line turned over
  data, len,    \* the arguments of modbus_crc16
  from,         \* the first byte of data that resynchronisation left
  taken,        \* bytes gone into crc: i, or i + 1 inside the inner loop
  bit, crc,     \* as in modbus_crc16; bit is 8 outside the inner loop
  quotient      \* history: the turns that applied the polynomial

crcVars == <<phase, damage, data, len, from, taken, bit, crc, quotient>>
call == <<phase, damage, data, len, from>>

Register == 0 .. 15

(* 0xFFFF and 0xA001.                                                      *)
Preset == Register
Polynomial == {0, 13, 15}

(* Mutant: the polynomial is never applied.                                *)
ShiftOnly(c) == {k \in 0 .. 14 : k + 1 \in c}

(* One turn of the inner loop.                                             *)
Shift(c) ==
  LET half == {k \in 0 .. 14 : k + 1 \in c}
  IN  IF 0 \in c THEN SymDiff(half, Polynomial) ELSE half

(* data[i]                                                                 *)
ByteAt(i) == {k \in 0 .. 7 : 8 * i + k \in data}

(* modbus_crc16 is entered.                                                *)
Enter(start) ==
  /\ from' = start
  /\ taken' = start
  /\ bit' = 8
  /\ crc' = Preset
  /\ quotient' = {}

CrcInit ==
  /\ phase = "idle"
  /\ damage = {}
  /\ data = {}
  /\ len = 0
  /\ from = 0
  /\ taken = 0
  /\ bit = 8
  /\ crc = Preset
  /\ quotient = {}

(* A frame is put together, its CRC still to come.                         *)
Compose ==
  /\ phase = "idle"
  /\ phase' = "seal"
  /\ \E f \in Frames : data' = f.ones /\ len' = f.len
  /\ Enter(0)
  /\ UNCHANGED damage

TakeByte ==
  /\ bit = 8
  /\ taken < len
  /\ crc' = SymDiff(crc, ByteAt(taken))
  /\ taken' = taken + 1
  /\ bit' = 0
  /\ UNCHANGED <<call, quotient>>

(* The place of data that the register starts at.                          *)
Done == 8 * taken - 8 + bit

ShiftOnce ==
  /\ bit < 8
  /\ crc' = Shift(crc)
  /\ bit' = bit + 1
  /\ quotient' = quotient \cup (IF 0 \in crc THEN {Done} ELSE {})
  /\ UNCHANGED <<call, taken>>

Returned == bit = 8 /\ taken = len

Shifted(s, n) == {k + n : k \in s}

(* Mutant: the high byte goes first.                                       *)
SealedHighFirst == data \cup {8 * len + ((k + 8) % 16) : k \in crc}

(* modbus_send_request, and what a slave does: the CRC, low byte first.    *)
Sealed == data \cup Shifted(crc, 8 * len)

(* The line, and modbus_recv_response up to its CRC check: what begins at  *)
(* the first byte that looks like the address is checked.                  *)
Transfer ==
  /\ phase = "seal"
  /\ Returned
  /\ phase' = "verify"
  /\ len' = len + 2
  /\ damage' \in Errors[len]
  /\ damage' \subseteq Places(len')
  /\ data' = SymDiff(Sealed, damage')
  /\ \E start \in 0 .. len' - 1 : Enter(start)

(* Mutant: only the low byte is looked at.                                 *)
PassesLowByte == crc \cap 0 .. 7 = {}

Passes == crc = {}

Judge ==
  /\ phase = "verify"
  /\ Returned
  /\ phase' = IF Passes THEN "pass" ELSE "reject"
  /\ UNCHANGED <<damage, data, len, from, taken, bit, crc, quotient>>

(* The buffer is used for the next frame.                                  *)
Leave ==
  /\ phase \in {"pass", "reject"}
  /\ phase' = "idle"
  /\ damage' = {}
  /\ data' = {}
  /\ len' = 0
  /\ Enter(0)

CrcNext ==
  Compose \/ TakeByte \/ ShiftOnce \/ Transfer \/ Judge \/ Leave

CrcSpec == CrcInit /\ [][CrcNext]_crcVars

(***************************************************************************)
(* Properties.                                                             *)
(***************************************************************************)
(* A multiple of x^16 + x^15 + x^2 + 1, its highest coefficients first.    *)
Times(q) ==
  SymDiff(SymDiff(q, Shifted(q, 1)), SymDiff(Shifted(q, 14), Shifted(q, 16)))

(* What was taken, its first sixteen places inverted by the initial value. *)
Dividend ==
  SymDiff({k \in data : 8 * from <= k /\ k < 8 * taken},
          Shifted(Register, 8 * from))

(* docs/PRD.md:76 (CRC16, polynomial 0xA001), modbus_crc.c:10-29: after    *)
(* every turn of the loops the register holds the remainder of the         *)
(* division of what was taken: sixteen coefficients, equal to the dividend *)
(* up to a multiple of the divisor.                                        *)
MatchesPolynomial ==
  /\ crc \subseteq Register
  /\ quotient \subseteq 8 * from .. Done - 1
  /\ SymDiff(Dividend, Times(quotient)) = Shifted(crc, Done)

(* modbus_master.c:32-36, 87-92: the check over the whole frame, its CRC   *)
(* included, never rejects what arrives as its sender sealed it.           *)
WholeFramePasses == phase = "reject" => from # 0 \/ damage # {}

(* modbus_master.c:87-92: what passes from its first byte on carries no    *)
(* burst of up to sixteen places, and no odd number of places, that the    *)
(* line turned over.                                                       *)
Burst(e) == \A j, k \in e : j - k < 16
DamageFound ==
  phase = "pass" /\ from = 0 /\ damage # {} =>
    ~Burst(damage) /\ Cardinality(damage) % 2 = 0

(* modbus_master.c:68-92: over the frames and errors of an instance, any   *)
(* two places among them, nothing passes but a whole and undamaged frame;  *)
(* resynchronisation, which looks for the address anywhere, finds no frame *)
(* inside another.                                                         *)
OnlyWholePass == phase = "pass" => from = 0 /\ damage = {}
=============================================================================
