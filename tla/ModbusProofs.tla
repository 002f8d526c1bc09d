---------------------------- MODULE ModbusProofs ----------------------------
(***************************************************************************)
(* What holds of a reading for every number of devices and fields, every   *)
(* number of requests that are told apart, and every line.  The argument   *)
(* follows the frames that kept to their time: before a request goes out   *)
(* none from the slave that is asked is left anywhere, and then there is   *)
(* one at most, the answer to this request.                                *)
(*                                                                         *)
(* The second half is about the CRC, for every frame and every error: the  *)
(* loop invariant of modbus_crc16 is that of a division, and a multiple of *)
(* the divisor is nothing or spans seventeen places.                       *)
(***************************************************************************)
EXTENDS Modbus, ModbusCrc, FiniteSetTheorems, WellFoundedInduction, TLAPS

(***************************************************************************)
(* The inductive invariant.                                                *)
(***************************************************************************)
FramesIn(b) == {b[i].frame : i \in 1 .. Len(b)}

(* A frame of the slave that is asked, which kept to its time.             *)
Fresh(f) == ~f.late /\ f.slave = cur

FreshPending == {f \in pending : Fresh(f)}
FreshArrived == {f \in FramesIn(rx) \cup FramesIn(buf) : Fresh(f)}

(* The reading has taken no late frame so far.                             *)
InTime == \A j \in 1 .. Len(out) : ~out[j].late

(* resp is used between the receive and the checks only.                   *)
BufferUse == pc # "check" => buf = <<>>

(* In a round the devices are asked in turn, so what is on its way in time *)
(* comes from the current one or from one before it.                       *)
InTurn == \A f \in pending : f.late \/ f.slave <= cur

(* The request goes out when nothing is left of the ones before it.        *)
NothingOld ==
  InTime =>
    /\ pc \in {"flush", "send"} => FreshPending = {}
    /\ pc = "send" => FreshArrived = {}

(* There is one answer, on its way or received, and it is to this request. *)
OwnAnswer ==
  InTime /\ pc \in {"receive", "check"} =>
    /\ \A f \in FreshPending \cup FreshArrived : f.req = req
    /\ \A f, g \in FreshPending : f = g
    /\ FreshPending = {} \/ FreshArrived = {}

(* A calm line carries the noise of turning it round and the reply.        *)
Reply == FrameOf(replied, cur, req)
Quiet == IF attempt = 1 THEN TurnNoise ELSE {<<>>}
OnItsWay ==
  /\ pending = IF replied = "silent" THEN {} ELSE {Reply}
  /\ rx \in Quiet
Arrived ==
  /\ pending = {}
  /\ replied # "silent"
  /\ \E n \in Quiet : rx = n \o Bytes(Reply)
Undisturbed ==
  calm =>
    /\ pc = "send" => rx = <<>> /\ pending = {}
    /\ pc = "receive" => attempt \in {1, 2} /\ (OnItsWay \/ Arrived)
    /\ pc = "check" => replied # "silent" /\ buf = Bytes(Reply)

ReadingInv ==
  /\ TypeOK
  /\ BufferUse
  /\ InTurn
  /\ NothingOld
  /\ OwnAnswer
  /\ AnswerFits

(***************************************************************************)
(* Numbers.                                                                *)
(***************************************************************************)
LEMMA Least ==
  ASSUME NEW T, T \subseteq Nat, T # {}
  PROVE  \E x \in T : \A y \in T : x <= y
<1> DEFINE R == OpToRel(<, Nat)
<1>1. IsWellFoundedOn(R, Nat)
  BY NatLessThanWellFounded
<1>2. \A x, y \in Nat : y < x => <<y, x>> \in R
  BY DEF OpToRel
<1> HIDE DEF R
<1>3. PICK x \in T : \A y \in T : ~ (<<y, x>> \in R)
  BY <1>1, WFMin
<1>4. ASSUME NEW y \in T PROVE x <= y
  <2>1. x \in Nat /\ y \in Nat /\ ~ (y < x)
    BY <1>2, <1>3
  <2> QED
    BY <2>1
<1> QED
  BY <1>4

LEMMA Greatest ==
  ASSUME NEW T, T \subseteq Nat, T # {}, NEW n \in Nat,
         \A x \in T : x <= n
  PROVE  \E x \in T : \A y \in T : y <= x
<1> DEFINE U == {n - x : x \in T}
<1>1. U \subseteq Nat /\ U # {}
  <2>1. \A x \in T : n - x \in Nat
    OBVIOUS
  <2> QED  BY <2>1
<1>2. PICK u \in U : \A v \in U : u <= v
  BY <1>1, Least
<1>3. PICK x \in T : u = n - x
  OBVIOUS
<1>4. ASSUME NEW y \in T  PROVE  y <= x
  <2>1. n - x <= n - y
    BY <1>2, <1>3
  <2> QED  BY <2>1
<1> QED  BY <1>4

LEMMA DivModFact ==
  ASSUME NEW a \in Int, NEW m \in Nat \ {0}
  PROVE  /\ a % m \in 0 .. m - 1
         /\ a \div m \in Int
         /\ a = m * (a \div m) + (a % m)
OBVIOUS

LEMMA ProductStep ==
  ASSUME NEW m \in Nat \ {0}, NEW p \in Int, NEW q \in Int, p < q
  PROVE  m * p + m <= m * q
OBVIOUS

LEMMA RemainderUnique ==
  ASSUME NEW m \in Nat \ {0}, NEW p \in Int, NEW q \in Int,
         NEW r \in 0 .. m - 1, NEW s \in 0 .. m - 1, m * p + r = m * q + s
  PROVE  r = s
<1>1. m * p \in Int /\ m * q \in Int
  OBVIOUS
<1>2. CASE p < q
  BY <1>1, <1>2, ProductStep
<1>3. CASE q < p
  BY <1>1, <1>3, ProductStep
<1>4. CASE p = q
  BY <1>1, <1>4
<1> QED
  BY <1>2, <1>3, <1>4

(* A whole turn of the request numbers changes nothing, ...                *)
LEMMA WholeTurn ==
  ASSUME NEW m \in Nat \ {0}, NEW a \in Int
  PROVE  (a + m) % m = a % m
<1> DEFINE p == a \div m
           q == (a + m) \div m
           r == a % m
           s == (a + m) % m
<1>1. r \in 0 .. m - 1 /\ p \in Int /\ a = m * p + r
  BY DivModFact
<1>2. s \in 0 .. m - 1 /\ q \in Int /\ a + m = m * q + s
  <2>1. a + m \in Int
    OBVIOUS
  <2> QED
    BY <2>1, DivModFact
<1> HIDE DEF p, q, r, s
<1>3. m * (p + 1) + r = m * q + s
  BY <1>1, <1>2
<1>4. p + 1 \in Int
  BY <1>1
<1>5. s = r
  BY <1>1, <1>2, <1>3, <1>4, RemainderUnique
<1> QED
  BY <1>5 DEF r, s

(* ... so the request that belongs to a field stays the same when the next *)
(* field is asked for.                                                     *)
LEMMA SameRequest ==
  ASSUME NEW m \in Nat \ {0}, NEW r \in 0 .. m - 1, NEW k \in Int
  PROVE  (((r + 1) % m) + m - (k + 1)) % m = (r + m - k) % m
<1>1. CASE r + 1 < m
  <2>1. (r + 1) % m = r + 1
    BY <1>1
  <2> QED
    BY <2>1
<1>2. CASE r + 1 = m
  <2>1. (r + 1) % m = 0
    BY <1>2
  <2>2. (r + m - k) % m = (m - (k + 1)) % m
    <3>1. m - (k + 1) \in Int /\ r + m - k = (m - (k + 1)) + m
      BY <1>2
    <3> QED
      BY <3>1, WholeTurn
  <2> QED
    BY <2>1, <2>2
<1> QED
  BY <1>1, <1>2

LEMMA OwnRequest ==
  ASSUME NEW m \in Nat \ {0}, NEW r \in 0 .. m - 1
  PROVE  (r + m - 0) % m = r
<1>1. r % m = r
  OBVIOUS
<1> QED
  BY <1>1, WholeTurn

(***************************************************************************)
(* Frames and bytes.                                                       *)
(***************************************************************************)
LEMMA Item ==
  ASSUME NEW S, NEW s \in Seq(S), NEW i \in 1 .. Len(s)
  PROVE  s[i] \in S
OBVIOUS

LEMMA Constants ==
  /\ Slave = 1 .. Len(FieldCount) /\ Slave \subseteq 1 .. 255
  /\ Len(FieldCount) \in 1 .. 255
  /\ \A d \in Slave : FieldCount[d] \in Nat \ {0}
  /\ Attempts \in Nat \ {0} /\ RequestMod \in Nat \ {0}
  /\ Stray \subseteq 0 .. 255
<1>1. /\ FieldCount \in Seq(Nat \ {0}) /\ Len(FieldCount) \in 1 .. 255
      /\ Attempts \in Nat \ {0} /\ RequestMod \in Nat \ {0}
      /\ Stray \subseteq 0 .. 255
  BY ModbusAssumption
<1>2. ASSUME NEW d \in 1 .. Len(FieldCount)
      PROVE  FieldCount[d] \in Nat \ {0}
  <2> DEFINE S == Nat \ {0}
  <2>1. FieldCount \in Seq(S)
    BY <1>1
  <2> HIDE DEF S
  <2>2. FieldCount[d] \in S
    BY <2>1, Item
  <2> QED
    BY <2>2 DEF S
<1>3. 1 .. Len(FieldCount) \subseteq 1 .. 255
  <2>1. Len(FieldCount) \in 1 .. 255
    BY <1>1
  <2>2. ASSUME NEW n \in 1 .. 255 PROVE 1 .. n \subseteq 1 .. 255
    OBVIOUS
  <2> QED
    BY <2>1, <2>2
<1> QED
  BY <1>1, <1>2, <1>3 DEF Slave

LEMMA FrameType ==
  ASSUME NEW f \in Frame
  PROVE  /\ f.kind \in {"answer", "exception"}
         /\ f.slave \in 1 .. 255 /\ f.slave \in Slave
         /\ f.req \in 0 .. RequestMod - 1
         /\ f.late \in BOOLEAN
         /\ f # StrayFrame
         /\ FrameLen(f) \in {5, 7}
<1>1. /\ f.kind \in {"answer", "exception"} /\ f.slave \in Slave
      /\ f.req \in 0 .. RequestMod - 1 /\ f.late \in BOOLEAN
  BY DEF Frame
<1>2. f # StrayFrame
  BY <1>1 DEF StrayFrame, FrameOf
<1> QED
  BY <1>1, <1>2, Constants DEF FrameLen

LEMMA ReplyIsFrame ==
  ASSUME NEW k \in {"answer", "exception"}, NEW s \in Slave,
         NEW r \in 0 .. RequestMod - 1
  PROVE  FrameOf(k, s, r) \in Frame
BY DEF FrameOf, Frame

LEMMA LateFrames ==
  ASSUME NEW P, P \subseteq Frame
  PROVE  Late(P) \subseteq Frame /\ \A f \in Late(P) : f.late
<1>1. ASSUME NEW f \in P
      PROVE  [f EXCEPT !.late = TRUE] \in Frame /\ [f EXCEPT !.late = TRUE].late
  BY DEF Frame
<1> QED
  BY <1>1 DEF Late

LEMMA StrayByte ==
  ASSUME NEW v \in 0 .. 255
  PROVE  /\ Byte(StrayFrame, 0, v) \in LineByte
         /\ Byte(StrayFrame, 0, v).frame = StrayFrame
         /\ Byte(StrayFrame, 0, v).value = v
         /\ Byte(StrayFrame, 0, v).at = 0
BY DEF Byte, LineByte

LEMMA BytesOf ==
  ASSUME NEW f \in Frame
  PROVE  /\ Bytes(f) \in Seq(LineByte)
         /\ Len(Bytes(f)) = FrameLen(f)
         /\ \A p \in 1 .. FrameLen(f) :
              /\ Bytes(f)[p].frame = f
              /\ Bytes(f)[p].value = HeaderByte(f, p)
         /\ FramesIn(Bytes(f)) = {f}
<1>1. FrameLen(f) \in {5, 7} /\ f.slave \in 0 .. 255
  BY FrameType
<1>2. ASSUME NEW p \in 1 .. FrameLen(f)
      PROVE  /\ Byte(f, p, HeaderByte(f, p)) \in LineByte
             /\ Byte(f, p, HeaderByte(f, p)).frame = f
             /\ Byte(f, p, HeaderByte(f, p)).value = HeaderByte(f, p)
  <2>1. HeaderByte(f, p) \in 0 .. 255
    BY <1>1, <1>2 DEF HeaderByte
  <2>2. p \in 0 .. 7
    BY <1>1, <1>2
  <2> QED
    BY <2>1, <2>2 DEF Byte, LineByte
<1>3. Bytes(f) \in [1 .. FrameLen(f) -> LineByte]
  BY <1>2 DEF Bytes
<1>4. Bytes(f) \in Seq(LineByte) /\ Len(Bytes(f)) = FrameLen(f)
  BY <1>1, <1>3
<1>5. \A p \in 1 .. FrameLen(f) : Bytes(f)[p] = Byte(f, p, HeaderByte(f, p))
  BY DEF Bytes
<1>6. FramesIn(Bytes(f)) = {f}
  <2>1. 1 \in 1 .. FrameLen(f)
    BY <1>1
  <2> QED
    BY <1>2, <1>4, <1>5, <2>1 DEF FramesIn
<1> QED
  BY <1>2, <1>4, <1>5, <1>6

(* What is received after what is there: uart_read_bytes.                  *)
LEMMA FramesInBoth ==
  ASSUME NEW a \in Seq(LineByte), NEW b \in Seq(LineByte)
  PROVE  /\ a \o b \in Seq(LineByte)
         /\ FramesIn(a \o b) = FramesIn(a) \cup FramesIn(b)
<1>1. a \o b \in Seq(LineByte) /\ Len(a \o b) = Len(a) + Len(b)
  OBVIOUS
<1>2. \A i \in 1 .. Len(a) : i \in 1 .. Len(a \o b) /\ (a \o b)[i] = a[i]
  OBVIOUS
<1>3. \A i \in 1 .. Len(b) :
        Len(a) + i \in 1 .. Len(a \o b) /\ (a \o b)[Len(a) + i] = b[i]
  OBVIOUS
<1>4. \A i \in 1 .. Len(a \o b) :
        \/ i \in 1 .. Len(a)
        \/ i - Len(a) \in 1 .. Len(b) /\ i = Len(a) + (i - Len(a))
  BY <1>1
<1> QED
  BY <1>1, <1>2, <1>3, <1>4 DEF FramesIn

(* A piece of a chunk holds no frame that the chunk does not.              *)
LEMMA FramesInPiece ==
  ASSUME NEW b \in Seq(LineByte), NEW k \in 1 .. Len(b) + 1,
         NEW n \in 0 .. Len(b)
  PROVE  /\ SubSeq(b, k, n) \in Seq(LineByte)
         /\ FramesIn(SubSeq(b, k, n)) \subseteq FramesIn(b)
<1> DEFINE c == SubSeq(b, k, n)
<1>1. c \in Seq(LineByte) /\ Len(c) = IF k <= n THEN n - k + 1 ELSE 0
  OBVIOUS
<1>2. \A i \in 1 .. Len(c) : i + k - 1 \in 1 .. Len(b) /\ c[i] = b[i + k - 1]
  OBVIOUS
<1> HIDE DEF c
<1>3. FramesIn(c) \subseteq FramesIn(b)
  BY <1>2 DEF FramesIn
<1> QED
  BY <1>1, <1>3 DEF c

LEMMA NoBytes ==
  /\ <<>> \in Seq(LineByte)
  /\ FramesIn(<<>>) = {}
BY DEF FramesIn

LEMMA OneStray ==
  ASSUME NEW v \in 0 .. 255
  PROVE  /\ <<Byte(StrayFrame, 0, v)>> \in Seq(LineByte)
         /\ FramesIn(<<Byte(StrayFrame, 0, v)>>) = {StrayFrame}
<1> DEFINE x == Byte(StrayFrame, 0, v)
<1>1. x \in LineByte /\ x.frame = StrayFrame
  BY StrayByte
<1> HIDE DEF x
<1>2. <<x>> \in Seq(LineByte) /\ Len(<<x>>) = 1 /\ <<x>>[1] = x
  BY <1>1
<1>3. FramesIn(<<x>>) = {StrayFrame}
  BY <1>1, <1>2 DEF FramesIn
<1> QED
  BY <1>2, <1>3 DEF x

(* A damaged byte hides the frame it belonged to.                          *)
LEMMA DamagedBytes ==
  ASSUME NEW b \in Seq(LineByte), NEW p \in 1 .. Len(b), NEW v \in 0 .. 255
  PROVE  /\ [b EXCEPT ![p] = Byte(StrayFrame, 0, v)] \in Seq(LineByte)
         /\ FramesIn([b EXCEPT ![p] = Byte(StrayFrame, 0, v)])
              \subseteq FramesIn(b) \cup {StrayFrame}
<1> DEFINE x == Byte(StrayFrame, 0, v)
           c == [b EXCEPT ![p] = x]
<1>1. x \in LineByte /\ x.frame = StrayFrame
  BY StrayByte
<1> HIDE DEF x
<1>2. c \in Seq(LineByte) /\ Len(c) = Len(b)
  BY <1>1
<1>3. \A i \in 1 .. Len(b) : c[i] = x \/ c[i] = b[i]
  OBVIOUS
<1> HIDE DEF c
<1>4. FramesIn(c) \subseteq FramesIn(b) \cup {StrayFrame}
  BY <1>1, <1>2, <1>3 DEF FramesIn
<1> QED
  BY <1>2, <1>4 DEF c, x

(* modbus_master.c:69-77: what resynchronisation leaves is the end of what *)
(* was received.                                                           *)
LEMMA ResyncPiece ==
  ASSUME NEW b \in Seq(LineByte)
  PROVE  /\ Resync(b) \in Seq(LineByte)
         /\ FramesIn(Resync(b)) \subseteq FramesIn(b)
<1> DEFINE at == {i \in 1 .. Len(b) : b[i].value = cur}
           first == CHOOSE i \in at : \A j \in at : i <= j
<1>1. CASE at = {}
  BY <1>1, NoBytes DEF Resync
<1>2. CASE at # {}
  <2>1. at \subseteq Nat
    OBVIOUS
  <2>2. first \in at
    <3>1. \E i \in at : \A j \in at : i <= j
      BY <1>2, <2>1, Least
    <3> QED
      BY <3>1
  <2>3. first \in 1 .. Len(b) + 1 /\ Len(b) \in 0 .. Len(b)
    BY <2>2
  <2>4. Resync(b) = SubSeq(b, first, Len(b))
    BY <1>2 DEF Resync
  <2> QED
    BY <2>3, <2>4, FramesInPiece
<1> QED
  BY <1>1, <1>2

(***************************************************************************)
(* The checks.                                                             *)
(***************************************************************************)
(* modbus_master.c:80-92: what passes the first two checks is one whole    *)
(* frame of the slave that was asked.                                      *)
LEMMA CheckedFrame ==
  ASSUME TypeOK, AddressFits, CrcPasses(buf)
  PROVE  /\ buf[1].frame \in Frame
         /\ buf = Bytes(buf[1].frame)
         /\ buf[1].frame.slave = cur
         /\ FramesIn(buf) = {buf[1].frame}
<1> DEFINE f == buf[1].frame
<1>1. buf = Bytes(f)
  BY DEF CrcPasses
<1>2. buf[1] \in LineByte /\ buf[1].value = cur /\ cur \in 1 .. 255
  <2>1. buf \in Seq(LineByte) /\ buf # <<>> /\ buf[1].value = cur /\ cur \in Slave
    BY DEF TypeOK, AddressFits
  <2>2. 1 \in 1 .. Len(buf)
    BY <2>1
  <2>3. buf[1] \in LineByte
    BY <2>1, <2>2, Item
  <2> QED
    BY <2>1, <2>3, Constants
<1>3. f # StrayFrame
  <2>1. SUFFICES ASSUME f = StrayFrame PROVE FALSE
    OBVIOUS
  <2>2. FrameLen(StrayFrame) = 5 /\ HeaderByte(StrayFrame, 1) = 0
    BY DEF FrameLen, HeaderByte, StrayFrame, FrameOf
  <2>3. Bytes(StrayFrame)[1] = Byte(StrayFrame, 1, 0)
    BY <2>2 DEF Bytes
  <2>4. buf[1].value = 0
    BY <1>1, <2>1, <2>3 DEF Byte
  <2> QED
    BY <1>2, <2>4
<1>4. f \in Frame
  BY <1>2, <1>3 DEF LineByte
<1>5. f.slave = cur
  <2>1. 1 \in 1 .. FrameLen(f)
    BY <1>4, FrameType
  <2>2. Bytes(f)[1].value = HeaderByte(f, 1)
    BY <1>4, <2>1, BytesOf
  <2>3. HeaderByte(f, 1) = f.slave
    BY DEF HeaderByte
  <2> QED
    BY <1>1, <1>2, <2>2, <2>3
<1>6. FramesIn(buf) = {f}
  BY <1>1, <1>4, BytesOf
<1> QED
  BY <1>1, <1>4, <1>5, <1>6

(* modbus_master.c:161-175: what passes all four is an answer.             *)
LEMMA AcceptedFrame ==
  ASSUME TypeOK, Verdict = "ok"
  PROVE  /\ buf[1].frame \in Frame
         /\ buf[1].frame.kind = "answer"
         /\ buf[1].frame.slave = cur
         /\ FramesIn(buf) = {buf[1].frame}
<1> DEFINE f == buf[1].frame
<1>1. AddressFits /\ CrcPasses(buf) /\ ~Refused
  BY DEF Verdict
<1>2. /\ f \in Frame /\ f.slave = cur /\ buf = Bytes(f)
      /\ FramesIn(buf) = {f}
  BY <1>1, CheckedFrame
<1>3. f.kind = "answer"
  <2>1. SUFFICES ASSUME f.kind # "answer" PROVE FALSE
    OBVIOUS
  <2>2. 2 \in 1 .. FrameLen(f)
    BY <1>2, FrameType
  <2>3. Bytes(f)[2].value = HeaderByte(f, 2)
    BY <1>2, <2>2, BytesOf
  <2>4. HeaderByte(f, 2) = 131
    BY <2>1 DEF HeaderByte
  <2>5. buf[2].value = 131
    BY <1>2, <2>3, <2>4
  <2> QED
    BY <1>1, <2>5 DEF Refused
<1> QED
  BY <1>2, <1>3

(***************************************************************************)
(* The invariant holds in every reading.                                   *)
(***************************************************************************)
LEMMA ReadingInit ==
  ASSUME Init
  PROVE  ReadingInv
<1>1. 1 \in Slave /\ 1 \in 1 .. FieldCount[1]
  <2>1. 1 \in Slave
    <3>1. Len(FieldCount) \in 1 .. 255
      BY Constants
    <3>2. ASSUME NEW n \in 1 .. 255 PROVE 1 \in 1 .. n
      OBVIOUS
    <3> QED
      BY <3>1, <3>2 DEF Slave
  <2>2. FieldCount[1] \in Nat \ {0}
    BY <2>1, Constants
  <2> QED
    BY <2>1, <2>2
<1>2. 0 \in 0 .. RequestMod - 1 /\ 1 \in 1 .. Attempts
  BY Constants
<1>3. TypeOK
  BY <1>1, <1>2 DEF Init, TypeOK
<1>4. BufferUse /\ InTurn /\ NothingOld /\ OwnAnswer
  BY DEF Init, BufferUse, InTurn, NothingOld, OwnAnswer, FreshPending
<1>5. AnswerFits
  BY DEF Init, AnswerFits
<1> QED
  BY <1>3, <1>4, <1>5 DEF ReadingInv

LEMMA NotStray ==
  ASSUME TypeOK
  PROVE  ~Fresh(StrayFrame)
<1>1. cur \in 1 .. 255
  BY Constants DEF TypeOK
<1> QED
  BY <1>1 DEF Fresh, StrayFrame, FrameOf

(* modbus_master.c:38: what a timed out request left in the FIFO goes.     *)
LEMMA FlushReading ==
  ASSUME ReadingInv, Flush
  PROVE  ReadingInv'
<1>1. /\ pc = "flush" /\ pc' = "send" /\ rx' = <<>> /\ calm' = (pending = {})
      /\ UNCHANGED <<cur, field, req, attempt, buf, out, err, pending, replied>>
  BY DEF Flush, place
<1>2. TypeOK'
  BY <1>1, NoBytes DEF ReadingInv, TypeOK
<1>3. BufferUse' /\ buf' = <<>>
  BY <1>1 DEF ReadingInv, BufferUse
<1>4. InTurn'
  BY <1>1 DEF ReadingInv, InTurn
<1>5. NothingOld'
  <2>1. FreshArrived' = {}
    BY <1>1, <1>3, NoBytes DEF FreshArrived
  <2>2. InTime' => FreshPending' = {}
    BY <1>1 DEF ReadingInv, NothingOld, FreshPending, Fresh, InTime
  <2> QED
    BY <2>1, <2>2 DEF NothingOld
<1>6. OwnAnswer'
  BY <1>1 DEF OwnAnswer
<1>7. AnswerFits'
  BY <1>1 DEF ReadingInv, AnswerFits, Expected
<1> QED
  BY <1>2, <1>3, <1>4, <1>5, <1>6, <1>7 DEF ReadingInv

LEMMA TurnNoiseType ==
  ASSUME NEW n \in TurnNoise
  PROVE  n \in Seq(LineByte) /\ FramesIn(n) \subseteq {StrayFrame}
<1>1. 0 \in 0 .. 255
  OBVIOUS
<1>2. CASE n = <<>>
  BY <1>2, NoBytes
<1>3. CASE n = <<Byte(StrayFrame, 0, 0)>>
  BY <1>1, <1>3, OneStray
<1> QED
  BY <1>2, <1>3 DEF TurnNoise

(* modbus_master.c:42: the slave that is asked makes one answer or none.   *)
LEMMA SendReading ==
  ASSUME ReadingInv, NEW n \in TurnNoise, Send(n)
  PROVE  ReadingInv'
<1>1. /\ pc = "send" /\ pc' = "receive" /\ attempt' = 1 /\ rx' = rx \o n
      /\ UNCHANGED <<cur, field, req, buf, out, err, calm>>
  BY DEF Send, place
<1>2. /\ cur \in Slave /\ req \in 0 .. RequestMod - 1 /\ rx \in Seq(LineByte)
      /\ pending \subseteq Frame /\ cur \in Nat
  BY Constants DEF ReadingInv, TypeOK
<1>3. PICK new \in SUBSET Frame :
        /\ pending' = pending \cup new
        /\ \A f \in new : f.slave = cur /\ f.req = req
        /\ \A f, g \in new : f = g
  <2>1. CASE UNCHANGED pending
    <3>1. {} \in SUBSET Frame
      OBVIOUS
    <3> QED
      BY <2>1, <3>1
  <2>2. ASSUME NEW k \in {"answer", "exception"}, Answers(FrameOf(k, cur, req))
        PROVE  \E new \in SUBSET Frame :
                 /\ pending' = pending \cup new
                 /\ \A f \in new : f.slave = cur /\ f.req = req
                 /\ \A f, g \in new : f = g
    <3> DEFINE g == FrameOf(k, cur, req)
    <3>1. g \in Frame /\ g.slave = cur /\ g.req = req
      BY <1>2, ReplyIsFrame DEF FrameOf
    <3>2. pending' = pending \cup {g}
      BY <2>2 DEF Answers
    <3> HIDE DEF g
    <3>3. {g} \in SUBSET Frame
      BY <3>1
    <3>4. \A f \in {g} : f.slave = cur /\ f.req = req
      BY <3>1
    <3> QED
      BY <3>2, <3>3, <3>4
  <2> QED
    BY <2>1, <2>2 DEF Send, Answer, Exception
<1>4. rx' \in Seq(LineByte) /\ FramesIn(rx') \subseteq FramesIn(rx) \cup {StrayFrame}
  BY <1>1, <1>2, TurnNoiseType, FramesInBoth
<1>5. TypeOK'
  <2>1. replied' \in {"silent", "answer", "exception"}
    BY DEF Send
  <2>2. 1 \in 1 .. Attempts
    BY Constants
  <2> QED
    BY <1>1, <1>3, <1>4, <2>1, <2>2 DEF ReadingInv, TypeOK
<1>6. BufferUse' /\ buf' = <<>> /\ buf = <<>>
  BY <1>1 DEF ReadingInv, BufferUse
<1>7. InTurn'
  BY <1>1, <1>2, <1>3 DEF ReadingInv, InTurn
<1>8. NothingOld'
  BY <1>1 DEF NothingOld
<1>9. OwnAnswer'
  <2>1. SUFFICES ASSUME InTime'
                 PROVE  /\ \A f \in FreshPending' : f.req = req
                        /\ \A f, g \in FreshPending' : f = g
                        /\ FreshArrived' = {}
    BY <1>1 DEF OwnAnswer
  <2>2. FreshPending = {} /\ FreshArrived = {}
    BY <1>1, <2>1 DEF ReadingInv, NothingOld, InTime
  <2>3. FreshPending' \subseteq new
    BY <1>1, <1>3, <2>2 DEF FreshPending, Fresh
  <2>4. FreshArrived' = {}
    <3>1. ~Fresh(StrayFrame)
      BY NotStray DEF ReadingInv
    <3> QED
      BY <1>1, <1>4, <1>6, <2>2, <3>1, NoBytes DEF FreshArrived, Fresh
  <2> QED
    BY <1>3, <2>3, <2>4
<1>10. AnswerFits'
  BY <1>1 DEF ReadingInv, AnswerFits, Expected
<1> QED
  BY <1>5, <1>6, <1>7, <1>8, <1>9, <1>10 DEF ReadingInv

(* modbus_master.c:64-77: a chunk is taken; nothing comes to what was read *)
(* before it.                                                              *)
LEMMA ReceiveReading ==
  ASSUME ReadingInv, Receive
  PROVE  ReadingInv'
<1>1. /\ pc = "receive" /\ rx' = <<>>
      /\ pc' = IF InFirstHalf(Resync(rx)) \/ attempt = Attempts
                  THEN "check" ELSE "receive"
      /\ buf' = IF pc' = "check" THEN Resync(rx) ELSE <<>>
      /\ attempt' = IF pc' = "receive" THEN attempt + 1 ELSE attempt
      /\ UNCHANGED <<cur, field, req, out, err, pending, replied, calm>>
  BY DEF Receive, place
<1>2. buf' \in Seq(LineByte) /\ FramesIn(buf') \subseteq FramesIn(rx)
  BY <1>1, ResyncPiece, NoBytes DEF ReadingInv, TypeOK
<1>3. attempt' \in 1 .. Attempts
  <2>1. attempt \in 1 .. Attempts /\ Attempts \in Nat
    BY Constants DEF ReadingInv, TypeOK
  <2>2. pc' = "receive" => attempt # Attempts
    BY <1>1
  <2> QED
    BY <1>1, <2>1, <2>2
<1>4. TypeOK'
  BY <1>1, <1>2, <1>3, NoBytes DEF ReadingInv, TypeOK
<1>5. BufferUse'
  BY <1>1 DEF BufferUse
<1>6. InTurn'
  BY <1>1 DEF ReadingInv, InTurn
<1>7. NothingOld'
  BY <1>1 DEF NothingOld
<1>8. OwnAnswer'
  <2>1. FreshPending' = FreshPending /\ FreshArrived' \subseteq FreshArrived
    BY <1>1, <1>2, NoBytes DEF FreshPending, FreshArrived, Fresh
  <2>2. InTime' => InTime
    BY <1>1 DEF InTime
  <2> QED
    BY <1>1, <2>1, <2>2 DEF ReadingInv, OwnAnswer
<1>9. AnswerFits'
  BY <1>1 DEF ReadingInv, AnswerFits, Expected
<1> QED
  BY <1>4, <1>5, <1>6, <1>7, <1>8, <1>9 DEF ReadingInv

(* modbus_master.c:57-60: what did not come in time is late from now on.   *)
LEMMA TimesOutReading ==
  ASSUME ReadingInv, TimesOut
  PROVE  ReadingInv'
<1>1. /\ pc = "receive" /\ pc' = "return" /\ err' = "timeout" /\ buf' = <<>>
      /\ pending' = Late(pending) /\ calm' = (calm /\ pending = {})
      /\ UNCHANGED <<cur, field, req, attempt, out, rx, replied>>
  BY DEF TimesOut, Fail, place
<1>2. pending' \subseteq Frame /\ \A f \in pending' : f.late
  BY <1>1, LateFrames DEF ReadingInv, TypeOK
<1>3. err = "none"
  BY <1>1 DEF ReadingInv, TypeOK
<1>4. calm' \in BOOLEAN
  BY <1>1
<1>5. TypeOK'
  BY <1>1, <1>2, <1>3, <1>4, NoBytes DEF ReadingInv, TypeOK
<1>6. BufferUse' /\ InTurn' /\ NothingOld' /\ OwnAnswer'
  BY <1>1, <1>2 DEF BufferUse, InTurn, NothingOld, OwnAnswer
<1>7. AnswerFits'
  BY <1>1 DEF ReadingInv, AnswerFits, Expected
<1> QED
  BY <1>5, <1>6, <1>7 DEF ReadingInv

(* modbus_master.c:155-175: an early return.                               *)
LEMMA RejectReading ==
  ASSUME ReadingInv, Reject
  PROVE  ReadingInv'
<1>1. /\ pc = "check" /\ pc' = "return" /\ err' = Verdict /\ buf' = <<>>
      /\ UNCHANGED <<cur, field, req, attempt, out, rx, pending, replied, calm>>
  BY DEF Reject, Fail, place, line
<1>2. err' \in {"crc", "offline"}
  BY <1>1 DEF Reject, Verdict
<1>3. err = "none"
  BY <1>1 DEF ReadingInv, TypeOK
<1>5. TypeOK'
  BY <1>1, <1>2, <1>3, NoBytes DEF ReadingInv, TypeOK
<1>6. BufferUse' /\ InTurn' /\ NothingOld' /\ OwnAnswer'
  BY <1>1 DEF ReadingInv, BufferUse, InTurn, NothingOld, OwnAnswer
<1>7. AnswerFits'
  BY <1>1 DEF ReadingInv, AnswerFits, Expected
<1> QED
  BY <1>5, <1>6, <1>7 DEF ReadingInv

(* modbus_master.c:177-194: a value is stored.  If the slave kept to its   *)
(* time so far it is the answer to this request, and there is no other.    *)
LEMMA AcceptReading ==
  ASSUME ReadingInv, Accept
  PROVE  ReadingInv'
<1> DEFINE f == buf[1].frame
<1>1. /\ pc = "check" /\ out' = Append(out, f) /\ buf' = <<>>
      /\ UNCHANGED <<cur, attempt, rx, pending, replied, calm>>
      /\ \/ /\ field < FieldCount[cur] /\ pc' = "flush" /\ field' = field + 1
            /\ req' = (req + 1) % RequestMod /\ err' = err
         \/ /\ pc' = "return" /\ err' = "ok" /\ field' = field /\ req' = req
  BY DEF Accept, line
<1>2. /\ f \in Frame /\ f.kind = "answer" /\ f.slave = cur
      /\ FramesIn(buf) = {f}
  <2>1. Verdict = "ok" /\ TypeOK
    BY DEF Accept, ReadingInv
  <2> QED
    BY <2>1, AcceptedFrame
<1> HIDE DEF f
<1>3. /\ out \in Seq(Frame) /\ Len(out) = field - 1 /\ err = "none"
      /\ field \in Nat \ {0} /\ req \in 0 .. RequestMod - 1
      /\ RequestMod \in Nat \ {0} /\ cur \in Slave
  <2>1. out \in Seq(Frame) /\ Len(out) = field - 1 /\ err = "none"
        /\ cur \in Slave /\ field \in 1 .. FieldCount[cur]
        /\ req \in 0 .. RequestMod - 1
    BY <1>1 DEF ReadingInv, TypeOK
  <2>2. FieldCount[cur] \in Nat \ {0} /\ RequestMod \in Nat \ {0}
    BY <2>1, Constants
  <2> QED
    BY <2>1, <2>2
<1>4. /\ out' \in Seq(Frame) /\ Len(out') = field /\ out'[field] = f
      /\ \A i \in 1 .. Len(out) : out'[i] = out[i]
  BY <1>1, <1>2, <1>3
<1>5. TypeOK'
  <2>1. req' \in 0 .. RequestMod - 1
    <3>1. (req + 1) % RequestMod \in 0 .. RequestMod - 1
      <4>1. req + 1 \in Int
        BY <1>3
      <4> QED
        BY <1>3, <4>1, DivModFact
    <3> QED
      BY <1>1, <1>3, <3>1
  <2>2. field' \in 1 .. FieldCount[cur]
    <3>1. field \in 1 .. FieldCount[cur] /\ FieldCount[cur] \in Nat
      BY <1>3, Constants DEF ReadingInv, TypeOK
    <3> QED
      BY <1>1, <3>1
  <2>3. Len(out') = IF err' = "ok" THEN field' ELSE field' - 1
    BY <1>1, <1>3, <1>4
  <2> QED
    BY <1>1, <1>4, <2>1, <2>2, <2>3, NoBytes DEF ReadingInv, TypeOK
<1>6. BufferUse'
  BY <1>1 DEF BufferUse
<1>7. InTurn'
  BY <1>1 DEF ReadingInv, InTurn
<1>8. InTime' => InTime /\ ~f.late
  <2>1. field \in 1 .. Len(out')
    BY <1>3, <1>4
  <2>2. \A i \in 1 .. Len(out) : i \in 1 .. Len(out')
    BY <1>3, <1>4
  <2> QED
    BY <1>4, <2>1, <2>2 DEF InTime
<1>9. InTime' => f.req = req /\ FreshPending = {}
  <2>1. SUFFICES ASSUME InTime' PROVE f.req = req /\ FreshPending = {}
    OBVIOUS
  <2>2. f \in FreshArrived
    BY <1>2, <1>8, <2>1 DEF FreshArrived, Fresh
  <2> QED
    BY <1>1, <1>8, <2>1, <2>2 DEF ReadingInv, OwnAnswer
<1>10. NothingOld'
  <2>1. FreshPending' = FreshPending
    BY <1>1 DEF FreshPending, Fresh
  <2> QED
    BY <1>1, <1>9, <2>1 DEF NothingOld
<1>11. OwnAnswer'
  BY <1>1 DEF OwnAnswer
<1>12. ASSUME NEW i \in 1 .. field
       PROVE  Expected(i)' = Expected(i)
  <2>1. field - i \in Int /\ (field + 1) - i = (field - i) + 1
    BY <1>3
  <2>2. CASE field' = field + 1 /\ req' = (req + 1) % RequestMod
    BY <1>3, <2>1, <2>2, SameRequest DEF Expected
  <2>3. CASE field' = field /\ req' = req
    BY <2>3 DEF Expected
  <2> QED
    BY <1>1, <2>2, <2>3
<1>13. Expected(field) = req
  <2>1. field - field = 0
    BY <1>3
  <2> QED
    BY <1>3, <2>1, OwnRequest DEF Expected
<1>14. AnswerFits'
  <2>1. SUFFICES ASSUME NEW i \in 1 .. field
                 PROVE  /\ out'[i].kind = "answer"
                        /\ out'[i].slave = cur
                        /\ \/ out'[i].req = Expected(i)
                           \/ \E j \in 1 .. i : out'[j].late
    BY <1>1, <1>4, <1>12 DEF AnswerFits
  <2>2. CASE i \in 1 .. Len(out)
    <3>1. \A j \in 1 .. i : j \in 1 .. Len(out)
      BY <1>3, <2>2
    <3>2. /\ out[i].kind = "answer"
          /\ out[i].slave = cur
          /\ out[i].req = Expected(i) \/ \E j \in 1 .. i : out[j].late
      BY <2>2 DEF ReadingInv, AnswerFits
    <3> QED
      BY <1>4, <2>2, <3>1, <3>2
  <2>3. CASE i = field
    <3>1. f.req = req \/ \E j \in 1 .. field : out'[j].late
      BY <1>4, <1>9 DEF InTime
    <3> QED
      BY <1>2, <1>4, <1>13, <2>3, <3>1
  <2>4. i \in 1 .. Len(out) \/ i = field
    BY <1>3, <2>1
  <2> QED
    BY <2>2, <2>3, <2>4
<1> QED
  BY <1>5, <1>6, <1>7, <1>10, <1>11, <1>14 DEF ReadingInv

(* poll_scheduler.c:99-113: the next device, of which nothing is on its    *)
(* way in time.                                                            *)
LEMMA CallReading ==
  ASSUME ReadingInv, NEW d \in Slave, Call(d), cur \in Nat,
         \/ d = cur + 1 /\ pending' = pending
         \/ pending' = Late(pending)
  PROVE  ReadingInv'
<1>1. /\ pc = "return" /\ pc' = "flush" /\ cur' = d /\ field' = 1
      /\ req' = (req + 1) % RequestMod /\ out' = <<>> /\ err' = "none"
      /\ UNCHANGED <<attempt, buf, rx, replied, calm>>
  BY DEF Call
<1>2. /\ pending' \subseteq Frame
      /\ \A f \in pending' : f.late \/ f.slave < d
  <2>1. pending \subseteq Frame /\ \A f \in pending : f.late \/ f.slave <= cur
    BY DEF ReadingInv, TypeOK, InTurn
  <2>2. \A f \in pending : f.slave \in Nat
    BY <2>1, FrameType
  <2>3. CASE d = cur + 1 /\ pending' = pending
    <3>1. \A k \in Nat : k <= cur => k < d
      BY <2>3
    <3> QED
      BY <2>1, <2>2, <2>3, <3>1
  <2>4. CASE pending' = Late(pending)
    BY <2>1, <2>4, LateFrames
  <2> QED
    BY <2>3, <2>4
<1>3. d \in Nat
  BY Constants
<1>4. TypeOK'
  <2>1. 1 \in 1 .. FieldCount[d]
    <3>1. FieldCount[d] \in Nat \ {0}
      BY Constants
    <3> QED
      BY <3>1
  <2>2. req' \in 0 .. RequestMod - 1
    <3>1. req + 1 \in Int /\ RequestMod \in Nat \ {0}
      BY Constants DEF ReadingInv, TypeOK
    <3> QED
      BY <1>1, <3>1, DivModFact
  <2>3. out' \in Seq(Frame) /\ Len(out') = 0
    BY <1>1
  <2> QED
    BY <1>1, <1>2, <2>1, <2>2, <2>3 DEF ReadingInv, TypeOK
<1>5. BufferUse'
  BY <1>1 DEF ReadingInv, BufferUse
<1>6. InTurn' /\ FreshPending' = {}
  <2>1. \A f \in pending' : f.slave \in Nat
    BY <1>2, FrameType
  <2>2. \A k \in Nat : k < d => k <= d /\ k # d
    BY <1>3
  <2> QED
    BY <1>1, <1>2, <2>1, <2>2 DEF InTurn, FreshPending, Fresh
<1>7. NothingOld'
  BY <1>1, <1>6 DEF NothingOld
<1>8. OwnAnswer'
  BY <1>1 DEF OwnAnswer
<1>9. AnswerFits'
  <2>1. 1 .. Len(out') = {}
    BY <1>1
  <2> QED
    BY <2>1 DEF AnswerFits
<1> QED
  BY <1>4, <1>5, <1>6, <1>7, <1>8, <1>9 DEF ReadingInv

LEMMA NextDeviceReading ==
  ASSUME ReadingInv, NextDevice \/ NextRound
  PROVE  ReadingInv'
<1>1. cur \in 1 .. Len(FieldCount) /\ cur \in Nat /\ Len(FieldCount) \in 1 .. 255
  <2>1. Len(FieldCount) \in 1 .. 255
    BY Constants
  <2>2. cur \in 1 .. Len(FieldCount)
    BY DEF ReadingInv, TypeOK, Slave
  <2> QED
    BY <2>1, <2>2
<1>2. CASE NextDevice
  <2>1. cur < Len(FieldCount) /\ Call(cur + 1) /\ pending' = pending
    BY <1>2 DEF NextDevice
  <2>2. cur + 1 \in Slave
    <3>1. ASSUME NEW n \in 1 .. 255, cur < n PROVE cur + 1 \in 1 .. n
      BY <1>1, <3>1
    <3> QED
      BY <1>1, <2>1, <3>1 DEF Slave
  <2> QED
    BY <1>1, <2>1, <2>2, CallReading
<1>3. CASE NextRound
  <2>1. Call(1) /\ pending' = Late(pending)
    BY <1>3 DEF NextRound
  <2>2. 1 \in Slave
    <3>1. ASSUME NEW n \in 1 .. 255 PROVE 1 \in 1 .. n
      OBVIOUS
    <3> QED
      BY <1>1, <3>1 DEF Slave
  <2> QED
    BY <1>1, <2>1, <2>2, CallReading
<1> QED
  BY <1>2, <1>3

(* What the line brings, whole or damaged, stays to be found in rx; only   *)
(* the one answer that is on its way can be new to it.                     *)
LEMMA ArrivalReading ==
  ASSUME ReadingInv, NEW P \in SUBSET pending, \A f, g \in P : f = g,
         NEW b \in Seq(LineByte), FramesIn(b) \subseteq P \cup {StrayFrame},
         rx' = rx \o b, pending' = pending \ P,
         UNCHANGED <<pc, cur, field, req, attempt, buf, out, err, replied>>,
         calm' \in BOOLEAN
  PROVE  ReadingInv'
<1>1. /\ rx' \in Seq(LineByte)
      /\ FramesIn(rx') \subseteq FramesIn(rx) \cup P \cup {StrayFrame}
  BY FramesInBoth DEF ReadingInv, TypeOK
<1>2. TypeOK'
  BY <1>1 DEF ReadingInv, TypeOK
<1>3. BufferUse' /\ InTurn'
  BY DEF ReadingInv, BufferUse, InTurn
<1>4. /\ FreshPending' = FreshPending \ P
      /\ FreshArrived' \subseteq FreshArrived \cup (FreshPending \cap P)
  <2>1. ~Fresh(StrayFrame)
    BY NotStray DEF ReadingInv
  <2>2. FreshPending' = FreshPending \ P
    BY DEF FreshPending, Fresh
  <2>3. ASSUME NEW f \in FreshArrived'
        PROVE  f \in FreshArrived \cup (FreshPending \cap P)
    <3>1. /\ Fresh(f)
          /\ f \in FramesIn(rx) \cup P \cup {StrayFrame} \cup FramesIn(buf)
      BY <1>1 DEF FreshArrived, Fresh
    <3>2. f # StrayFrame
      BY <2>1, <3>1
    <3> QED
      BY <3>1, <3>2 DEF FreshArrived, FreshPending
  <2> QED
    BY <2>2, <2>3
<1>5. InTime' => InTime
  BY DEF InTime
<1>6. NothingOld'
  BY <1>4, <1>5 DEF ReadingInv, NothingOld
<1>7. OwnAnswer'
  <2>1. SUFFICES ASSUME InTime', pc \in {"receive", "check"}
                 PROVE  /\ \A f \in FreshPending' \cup FreshArrived' : f.req = req
                        /\ \A f, g \in FreshPending' : f = g
                        /\ FreshPending' = {} \/ FreshArrived' = {}
    BY DEF OwnAnswer
  <2>2. /\ \A f \in FreshPending \cup FreshArrived : f.req = req
        /\ \A f, g \in FreshPending : f = g
        /\ FreshPending = {} \/ FreshArrived = {}
    BY <1>5, <2>1 DEF ReadingInv, OwnAnswer
  <2>3. FreshPending' \subseteq FreshPending
    BY <1>4
  <2>4. CASE FreshPending \cap P = {}
    BY <1>4, <2>2, <2>4
  <2>5. CASE FreshPending \cap P # {}
    <3>1. FreshPending' = {}
      BY <1>4, <2>2, <2>5
    <3> QED
      BY <1>4, <2>2, <3>1
  <2> QED
    BY <2>4, <2>5
<1>8. AnswerFits'
  BY DEF ReadingInv, AnswerFits, Expected
<1> QED
  BY <1>2, <1>3, <1>6, <1>7, <1>8 DEF ReadingInv

LEMMA LineReading ==
  ASSUME ReadingInv, Line
  PROVE  ReadingInv'
<1>1. calm \in BOOLEAN /\ pending \subseteq Frame
  BY DEF ReadingInv, TypeOK
<1>2. ASSUME NEW f \in pending, NEW b \in Seq(LineByte), Arrives(b),
             FramesIn(b) \subseteq {f, StrayFrame}, pending' = pending \ {f},
             UNCHANGED <<pc, place, attempt, buf, out, err, replied>>,
             calm' \in BOOLEAN
      PROVE  ReadingInv'
  <2>1. rx' = rx \o b /\ UNCHANGED <<cur, field, req>>
    BY <1>2 DEF Arrives, place
  <2>2. {f} \in SUBSET pending /\ \A g, h \in {f} : g = h
    OBVIOUS
  <2>3. FramesIn(b) \subseteq {f} \cup {StrayFrame}
    BY <1>2
  <2> QED
    BY <1>2, <2>1, <2>2, <2>3, ArrivalReading
<1>3. CASE Delivers
  <2>1. PICK f \in pending : Arrives(Bytes(f)) /\ pending' = pending \ {f}
    BY <1>3 DEF Delivers
  <2>2. Bytes(f) \in Seq(LineByte) /\ FramesIn(Bytes(f)) \subseteq {f, StrayFrame}
    BY <1>1, BytesOf
  <2>3. /\ UNCHANGED <<pc, place, attempt, buf, out, err, replied>>
        /\ calm' \in BOOLEAN
    BY <1>1, <1>3 DEF Delivers
  <2> QED
    BY <1>2, <2>1, <2>2, <2>3
<1>4. CASE DeliversDamaged
  <2>1. PICK f \in pending :
          /\ \/ \E p \in {1, FrameLen(f)}, v \in Stray :
                  Arrives([Bytes(f) EXCEPT ![p] = Byte(StrayFrame, 0, v)])
             \/ \E n \in 0 .. FrameLen(f) - 1 : Arrives(SubSeq(Bytes(f), 1, n))
          /\ pending' = pending \ {f}
    BY <1>4 DEF DeliversDamaged
  <2>2. /\ Bytes(f) \in Seq(LineByte) /\ Len(Bytes(f)) = FrameLen(f)
        /\ FramesIn(Bytes(f)) = {f} /\ FrameLen(f) \in {5, 7}
    BY <1>1, BytesOf, FrameType
  <2>3. /\ UNCHANGED <<pc, place, attempt, buf, out, err, replied>>
        /\ calm' \in BOOLEAN
    BY <1>4 DEF DeliversDamaged
  <2>4. ASSUME NEW p \in {1, FrameLen(f)}, NEW v \in Stray,
               Arrives([Bytes(f) EXCEPT ![p] = Byte(StrayFrame, 0, v)])
        PROVE  ReadingInv'
    <3> DEFINE a == Bytes(f)
               b == [a EXCEPT ![p] = Byte(StrayFrame, 0, v)]
    <3>1. p \in 1 .. Len(a) /\ v \in 0 .. 255
      BY <2>2, Constants
    <3>2. a \in Seq(LineByte) /\ FramesIn(a) = {f}
      BY <2>2
    <3>3. Arrives(b)
      BY <2>4
    <3> HIDE DEF a
    <3>4. b \in Seq(LineByte) /\ FramesIn(b) \subseteq FramesIn(a) \cup {StrayFrame}
      BY <3>1, <3>2, DamagedBytes
    <3> HIDE DEF b
    <3>5. FramesIn(b) \subseteq {f, StrayFrame}
      BY <3>2, <3>4
    <3> QED
      BY <1>2, <2>1, <2>3, <3>3, <3>4, <3>5
  <2>5. ASSUME NEW n \in 0 .. FrameLen(f) - 1, Arrives(SubSeq(Bytes(f), 1, n))
        PROVE  ReadingInv'
    <3> DEFINE b == SubSeq(Bytes(f), 1, n)
    <3>1. 1 \in 1 .. Len(Bytes(f)) + 1 /\ n \in 0 .. Len(Bytes(f))
      BY <2>2
    <3>2. b \in Seq(LineByte) /\ FramesIn(b) \subseteq {f, StrayFrame}
      BY <2>2, <3>1, FramesInPiece
    <3> HIDE DEF b
    <3>3. Arrives(b)
      BY <2>5 DEF b
    <3> QED
      BY <1>2, <2>1, <2>3, <3>2, <3>3
  <2> QED
    BY <2>1, <2>4, <2>5
<1>5. CASE Noise
  <2>1. PICK v \in Stray : Arrives(<<Byte(StrayFrame, 0, v)>>)
    BY <1>5 DEF Noise
  <2>2. v \in 0 .. 255
    BY Constants
  <2> DEFINE b == <<Byte(StrayFrame, 0, v)>>
  <2>3. b \in Seq(LineByte) /\ FramesIn(b) \subseteq {} \cup {StrayFrame}
    BY <2>2, OneStray
  <2> HIDE DEF b
  <2>4. rx' = rx \o b
    BY <2>1 DEF Arrives, b
  <2>5. /\ UNCHANGED <<pc, cur, field, req, attempt, buf, out, err, replied>>
        /\ calm' \in BOOLEAN /\ pending' = pending \ {}
    BY <1>5 DEF Noise, place
  <2>6. {} \in SUBSET pending /\ \A g, h \in {} : g = h
    OBVIOUS
  <2> QED
    BY <2>3, <2>4, <2>5, <2>6, ArrivalReading
<1> QED
  BY <1>3, <1>4, <1>5 DEF Line

LEMMA ReadingStutter ==
  ASSUME ReadingInv, UNCHANGED vars
  PROVE  ReadingInv'
BY DEF ReadingInv, vars, TypeOK, BufferUse, InTurn, NothingOld, OwnAnswer,
       AnswerFits, Expected, InTime, FreshPending, FreshArrived, Fresh

LEMMA ReadingInvariant == Spec => []ReadingInv
<1>1. Init => ReadingInv
  BY ReadingInit
<1>2. ReadingInv /\ [Next]_vars => ReadingInv'
  <2>1. SUFFICES ASSUME ReadingInv, [Next]_vars PROVE ReadingInv'
    OBVIOUS
  <2>2. CASE Master
    <3>1. CASE Transmit
      BY <2>1, <3>1, SendReading DEF Transmit
    <3> QED
      BY <2>1, <2>2, <3>1, FlushReading, ReceiveReading, TimesOutReading,
         RejectReading, AcceptReading, NextDeviceReading DEF Master
  <2>3. CASE Line
    BY <2>1, <2>3, LineReading
  <2>4. CASE UNCHANGED vars
    BY <2>1, <2>4, ReadingStutter
  <2> QED
    BY <2>1, <2>2, <2>3, <2>4 DEF Next
<1> QED
  BY <1>1, <1>2, PTL DEF Spec

(***************************************************************************)
(* The properties.                                                         *)
(***************************************************************************)
(* Every variable stays in its range, and out holds one value for each     *)
(* field that was read: modbus_read_device clears it (modbus_master.c:146).*)
THEOREM TypeCorrect == Spec => []TypeOK
<1>1. ReadingInv => TypeOK
  BY DEF ReadingInv
<1> QED
  BY <1>1, ReadingInvariant, PTL

(* modbus_master.c:37-42, 80-92: a field gets the value the slave sent for *)
(* it, unless the slave did not keep to its time earlier in the reading.   *)
THEOREM AnswersFit == Spec => []AnswerFits
<1>1. ReadingInv => AnswerFits
  BY DEF ReadingInv
<1> QED
  BY <1>1, ReadingInvariant, PTL

(***************************************************************************)
(* A calm line.                                                            *)
(***************************************************************************)
LEMMA ResyncAt ==
  ASSUME NEW b \in Seq(LineByte), NEW k \in 1 .. Len(b), b[k].value = cur,
         \A j \in 1 .. k - 1 : b[j].value # cur
  PROVE  Resync(b) = SubSeq(b, k, Len(b))
<1> DEFINE at == {i \in 1 .. Len(b) : b[i].value = cur}
           first == CHOOSE i \in at : \A j \in at : i <= j
<1>1. k \in at
  OBVIOUS
<1>2. \A j \in at : k <= j
  OBVIOUS
<1>3. at \subseteq Nat
  OBVIOUS
<1>4. Resync(b) = SubSeq(b, first, Len(b))
  BY <1>1 DEF Resync
<1> HIDE DEF at
<1>5. first \in at /\ \A j \in at : first <= j
  BY <1>1, <1>2
<1>6. first = k
  <2>1. first \in Nat /\ k \in Nat /\ first <= k /\ k <= first
    BY <1>1, <1>2, <1>3, <1>5
  <2> QED
    BY <2>1
<1> QED
  BY <1>4, <1>6

LEMMA ResyncNoise ==
  ASSUME TypeOK, NEW n \in TurnNoise
  PROVE  Resync(n) = <<>>
<1>1. cur \in 1 .. 255
  BY Constants DEF TypeOK
<1>2. {i \in 1 .. Len(n) : n[i].value = cur} = {}
  <2>1. CASE n = <<>>
    BY <2>1
  <2>2. CASE n = <<Byte(StrayFrame, 0, 0)>>
    <3> DEFINE x == Byte(StrayFrame, 0, 0)
    <3>1. x.value # cur
      BY <1>1 DEF Byte
    <3> HIDE DEF x
    <3>2. n = <<x>>
      BY <2>2 DEF x
    <3>3. Len(n) = 1 /\ n[1] = x
      BY <3>2
    <3> QED
      BY <3>1, <3>3
  <2> QED
    BY <2>1, <2>2 DEF TurnNoise
<1> QED
  BY <1>2 DEF Resync

(* modbus_master.c:68-77: a byte of noise before the answer is skipped.    *)
LEMMA ResyncReply ==
  ASSUME TypeOK, NEW f \in Frame, f.slave = cur, NEW n \in TurnNoise
  PROVE  Resync(n \o Bytes(f)) = Bytes(f) /\ n \o Bytes(f) # <<>>
<1> DEFINE b == Bytes(f)
<1>1. /\ b \in Seq(LineByte) /\ Len(b) \in {5, 7} /\ b[1].value = cur
      /\ 1 \in 1 .. Len(b)
  <2>1. /\ b \in Seq(LineByte) /\ Len(b) = FrameLen(f) /\ FrameLen(f) \in {5, 7}
        /\ \A p \in 1 .. FrameLen(f) : b[p].value = HeaderByte(f, p)
    BY BytesOf, FrameType
  <2>2. 1 \in 1 .. FrameLen(f) /\ HeaderByte(f, 1) = f.slave
    BY <2>1 DEF HeaderByte
  <2> QED
    BY <2>1, <2>2
<1> HIDE DEF b
<1>2. CASE n = <<>>
  <2>1. n \o b = b
    BY <1>1, <1>2
  <2>2. Resync(b) = SubSeq(b, 1, Len(b))
    BY <1>1, ResyncAt
  <2>3. SubSeq(b, 1, Len(b)) = b /\ b # <<>>
    BY <1>1
  <2> QED
    BY <2>1, <2>2, <2>3 DEF b
<1>3. CASE n = <<Byte(StrayFrame, 0, 0)>>
  <2> DEFINE x == Byte(StrayFrame, 0, 0)
             c == <<x>> \o b
  <2>1. x.value # cur /\ x \in LineByte
    <3>1. cur \in 1 .. 255
      BY Constants DEF TypeOK
    <3>2. 0 \in 0 .. 255
      OBVIOUS
    <3>3. x \in LineByte /\ x.value = 0
      BY <3>2, StrayByte
    <3> QED
      BY <3>1, <3>3
  <2> HIDE DEF x
  <2>2. /\ c \in Seq(LineByte) /\ Len(c) = Len(b) + 1 /\ c[1] = x
        /\ \A i \in 1 .. Len(b) : c[i + 1] = b[i]
    BY <1>1, <2>1
  <2> HIDE DEF c
  <2>3. Resync(c) = SubSeq(c, 2, Len(c))
    <3>1. 2 \in 1 .. Len(c) /\ c[2] = b[1]
      BY <1>1, <2>2
    <3>2. \A j \in 1 .. 2 - 1 : c[j].value # cur
      BY <2>1, <2>2
    <3> QED
      BY <1>1, <2>2, <3>1, <3>2, ResyncAt
  <2>4. SubSeq(c, 2, Len(c)) = b
    <3> DEFINE d == SubSeq(c, 2, Len(c))
    <3>1. d \in Seq(LineByte) /\ Len(d) = Len(b)
      BY <1>1, <2>2
    <3>2. \A i \in 1 .. Len(b) : d[i] = c[i + 1]
      BY <1>1, <2>2
    <3> HIDE DEF d
    <3>3. \A i \in 1 .. Len(b) : d[i] = b[i]
      BY <2>2, <3>2
    <3>4. d = b
      BY <1>1, <3>1, <3>3
    <3> QED
      BY <3>4 DEF d
  <2>5. n \o b = c /\ c # <<>>
    BY <1>1, <1>3, <2>2 DEF c, x
  <2> QED
    BY <2>3, <2>4, <2>5 DEF b
<1> QED
  BY <1>2, <1>3 DEF TurnNoise

(* What the checks make of a whole frame of the slave that was asked.      *)
LEMMA VerdictOfReply ==
  ASSUME NEW f \in Frame, f.slave = cur, buf = Bytes(f)
  PROVE  Verdict = IF f.kind = "answer" THEN "ok" ELSE "offline"
<1>1. /\ buf \in Seq(LineByte) /\ Len(buf) = FrameLen(f)
      /\ FrameLen(f) \in {5, 7} /\ f.kind \in {"answer", "exception"}
      /\ \A p \in 1 .. FrameLen(f) :
           buf[p].frame = f /\ buf[p].value = HeaderByte(f, p)
  BY BytesOf, FrameType
<1>2. 1 \in 1 .. FrameLen(f) /\ 2 \in 1 .. FrameLen(f) /\ 3 \in 1 .. FrameLen(f)
  BY <1>1
<1>3. buf # <<>>
  BY <1>1
<1>4. AddressFits /\ CrcPasses(buf)
  BY <1>1, <1>2, <1>3 DEF AddressFits, CrcPasses, HeaderByte
<1>5. CASE f.kind = "answer"
  <2>1. buf[2].value = 3 /\ buf[3].value = 2 /\ Len(buf) = 7
    BY <1>1, <1>2, <1>5 DEF HeaderByte, FrameLen
  <2> QED
    BY <1>4, <1>5, <2>1 DEF Verdict, Refused, LengthFits
<1>6. CASE f.kind # "answer"
  <2>1. buf[2].value = 131
    BY <1>1, <1>2, <1>6 DEF HeaderByte
  <2> QED
    BY <1>4, <1>6, <2>1 DEF Verdict, Refused
<1> QED
  BY <1>5, <1>6

LEMMA ReplyFrame ==
  ASSUME TypeOK, replied # "silent"
  PROVE  Reply \in Frame /\ Reply.slave = cur /\ Reply.kind = replied
<1>1. /\ replied \in {"answer", "exception"} /\ cur \in Slave
      /\ req \in 0 .. RequestMod - 1
  BY DEF TypeOK
<1> QED
  BY <1>1, ReplyIsFrame DEF Reply, FrameOf

CalmInv ==
  /\ ReadingInv
  /\ Undisturbed
  /\ NoiseTolerated

LEMMA ReceiveCalm ==
  ASSUME Attempts >= 2, CalmInv, Receive
  PROVE  Undisturbed'
<1>1. /\ pc = "receive" /\ rx # <<>> /\ rx' = <<>>
      /\ pc' = IF InFirstHalf(Resync(rx)) \/ attempt = Attempts
                  THEN "check" ELSE "receive"
      /\ buf' = IF pc' = "check" THEN Resync(rx) ELSE <<>>
      /\ attempt' = IF pc' = "receive" THEN attempt + 1 ELSE attempt
      /\ UNCHANGED <<cur, field, req, out, err, pending, replied, calm>>
  BY DEF Receive, place
<1>2. SUFFICES ASSUME calm
               PROVE  /\ pc' = "receive" => /\ attempt' \in {1, 2}
                                            /\ OnItsWay' \/ Arrived'
                      /\ pc' = "check" => replied # "silent" /\ buf' = Bytes(Reply)
  <2>1. Reply' = Reply /\ pc' # "send"
    BY <1>1 DEF Reply
  <2> QED
    BY <1>1, <2>1 DEF Undisturbed
<1>3. TypeOK /\ attempt \in {1, 2} /\ (OnItsWay \/ Arrived)
  BY <1>1, <1>2 DEF CalmInv, ReadingInv, Undisturbed
<1>4. Quiet \subseteq TurnNoise
  BY DEF Quiet, TurnNoise
<1>5. CASE OnItsWay
  <2>1. rx \in TurnNoise /\ attempt = 1
    BY <1>1, <1>3, <1>4, <1>5 DEF OnItsWay, Quiet
  <2>2. Resync(rx) = <<>>
    BY <1>1, <1>3, <2>1, ResyncNoise
  <2>3. attempt # Attempts
    BY <2>1, Constants
  <2>4. pc' = "receive" /\ attempt' = 2
    <3>1. ~InFirstHalf(Resync(rx))
      <4>1. Len(Resync(rx)) = 0 /\ Len(rx) \in Nat
        BY <1>3, <2>2 DEF TypeOK
      <4> QED
        BY <4>1 DEF InFirstHalf
    <3> QED
      BY <1>1, <2>1, <2>3, <3>1
  <2>5. rx' \in Quiet'
    BY <1>1, <2>4 DEF Quiet
  <2>6. OnItsWay'
    BY <1>1, <1>5, <2>5 DEF OnItsWay, Reply
  <2> QED
    BY <2>4, <2>6
<1>6. CASE Arrived
  <2>1. PICK n \in TurnNoise : rx = n \o Bytes(Reply)
    BY <1>4, <1>6 DEF Arrived
  <2>2. replied # "silent" /\ Reply \in Frame /\ Reply.slave = cur
    BY <1>3, <1>6, ReplyFrame DEF Arrived
  <2>3. Resync(rx) = Bytes(Reply)
    BY <1>1, <1>3, <2>1, <2>2, ResyncReply
  <2>4. InFirstHalf(Resync(rx))
    <3>1. Len(Bytes(Reply)) \in {5, 7} /\ Bytes(Reply) \in Seq(LineByte)
      BY <2>2, BytesOf, FrameType
    <3>2. n \in Seq(LineByte) /\ Len(n) \in {0, 1}
      <4>1. n \in Seq(LineByte)
        BY <2>1, TurnNoiseType
      <4>2. CASE n = <<>>
        BY <4>1, <4>2
      <4>3. CASE n = <<Byte(StrayFrame, 0, 0)>>
        BY <4>1, <4>3
      <4> QED
        BY <2>1, <4>1, <4>2, <4>3 DEF TurnNoise
    <3>3. Len(rx) = Len(n) + Len(Bytes(Reply))
      BY <2>1, <3>1, <3>2
    <3>4. Len(Resync(rx)) = Len(Bytes(Reply))
      BY <2>3
    <3>5. Len(rx) - Len(Resync(rx)) < Len(Resync(rx))
      <4>1. Len(n) \in {0, 1} /\ Len(Bytes(Reply)) \in {5, 7}
        BY <3>1, <3>2
      <4>2. ASSUME NEW i \in {0, 1}, NEW j \in {5, 7}
            PROVE  (i + j) - j < j
        OBVIOUS
      <4> QED
        BY <3>3, <3>4, <4>1, <4>2
    <3> QED
      BY <3>5 DEF InFirstHalf
  <2> QED
    BY <1>1, <2>2, <2>3, <2>4
<1> QED
  BY <1>3, <1>5, <1>6

LEMMA DeliversCalm ==
  ASSUME CalmInv, Delivers
  PROVE  Undisturbed'
<1>1. PICK f \in pending : rx' = rx \o Bytes(f) /\ pending' = pending \ {f}
  BY DEF Delivers, Arrives
<1>2. UNCHANGED <<pc, cur, field, req, attempt, buf, out, err, replied, calm>>
  BY DEF Delivers, place
<1>3. Reply' = Reply /\ Quiet' = Quiet
  BY <1>2 DEF Reply, Quiet
<1>4. calm /\ pc = "send" => FALSE
  BY <1>1 DEF CalmInv, Undisturbed
<1>5. calm /\ pc = "receive" => attempt \in {1, 2} /\ Arrived'
  <2>1. SUFFICES ASSUME calm, pc = "receive" PROVE attempt \in {1, 2} /\ Arrived'
    OBVIOUS
  <2>2. attempt \in {1, 2} /\ (OnItsWay \/ Arrived)
    BY <2>1 DEF CalmInv, Undisturbed
  <2>3. OnItsWay
    BY <1>1, <2>2 DEF Arrived
  <2>4. replied # "silent" /\ f = Reply /\ pending' = {} /\ rx \in Quiet
    BY <1>1, <2>3 DEF OnItsWay
  <2> QED
    BY <1>1, <1>2, <1>3, <2>2, <2>4 DEF Arrived
<1>6. calm /\ pc = "check" => replied # "silent" /\ buf = Bytes(Reply)
  BY DEF CalmInv, Undisturbed
<1> QED
  BY <1>2, <1>3, <1>4, <1>5, <1>6 DEF Undisturbed

LEMMA SendCalm ==
  ASSUME CalmInv, NEW n \in TurnNoise, Send(n)
  PROVE  Undisturbed'
<1>1. /\ pc = "send" /\ pc' = "receive" /\ attempt' = 1 /\ rx' = rx \o n
      /\ UNCHANGED <<cur, field, req, buf, out, err, calm>>
  BY DEF Send, place
<1>2. SUFFICES ASSUME calm PROVE OnItsWay'
  BY <1>1 DEF Undisturbed
<1>3. rx = <<>> /\ pending = {}
  BY <1>1, <1>2 DEF CalmInv, Undisturbed
<1>4. rx' \in Quiet'
  <2>1. n \in Seq(LineByte)
    BY TurnNoiseType
  <2>2. rx' = n
    BY <1>1, <1>3, <2>1
  <2> QED
    BY <1>1, <2>2 DEF Quiet
<1>5. pending' = IF replied' = "silent" THEN {} ELSE {FrameOf(replied', cur, req)}
  BY <1>3 DEF Send, Answers, Answer, Exception
<1> QED
  BY <1>1, <1>4, <1>5 DEF OnItsWay, Reply

LEMMA TimesOutCalm ==
  ASSUME CalmInv, TimesOut
  PROVE  NoiseTolerated'
<1>1. /\ pc = "receive" /\ rx = <<>> /\ err' = "timeout"
      /\ calm' = (calm /\ pending = {}) /\ replied' = replied
  BY DEF TimesOut, Fail
<1>2. SUFFICES ASSUME calm, pending = {} PROVE replied = "silent"
  BY <1>1 DEF NoiseTolerated
<1>3. TypeOK /\ (OnItsWay \/ Arrived)
  BY <1>1, <1>2 DEF CalmInv, ReadingInv, Undisturbed
<1>4. CASE OnItsWay
  BY <1>2, <1>4 DEF OnItsWay
<1>5. CASE Arrived
  <2>1. PICK n \in TurnNoise : rx = n \o Bytes(Reply)
    BY <1>5 DEF Arrived, Quiet, TurnNoise
  <2>2. Reply \in Frame /\ Reply.slave = cur
    BY <1>3, <1>5, ReplyFrame DEF Arrived
  <2>3. rx # <<>>
    BY <1>3, <2>1, <2>2, ResyncReply
  <2> QED
    BY <1>1, <2>3
<1> QED
  BY <1>3, <1>4, <1>5

LEMMA CheckCalm ==
  ASSUME CalmInv, Reject \/ Accept
  PROVE  NoiseTolerated'
<1>1. /\ pc = "check" /\ replied' = replied /\ calm' = calm /\ err = "none"
      /\ TypeOK
  BY DEF Reject, Accept, Fail, line, CalmInv, ReadingInv, TypeOK
<1>2. SUFFICES ASSUME calm
               PROVE  /\ err' = "ok" => replied = "answer"
                      /\ err' = "offline" => replied = "exception"
                      /\ err' \in {"none", "ok", "offline"}
  BY <1>1 DEF NoiseTolerated
<1>3. replied # "silent" /\ buf = Bytes(Reply)
  BY <1>1, <1>2 DEF CalmInv, Undisturbed
<1>4. /\ Reply \in Frame /\ Reply.slave = cur /\ Reply.kind = replied
      /\ replied \in {"answer", "exception"}
  BY <1>1, <1>3, ReplyFrame DEF TypeOK
<1>5. Verdict = IF replied = "answer" THEN "ok" ELSE "offline"
  BY <1>3, <1>4, VerdictOfReply
<1>6. CASE Reject
  <2>1. err' = Verdict /\ Verdict # "ok"
    BY <1>6 DEF Reject, Fail
  <2> QED
    BY <1>4, <1>5, <2>1
<1>7. CASE Accept
  <2>1. Verdict = "ok" /\ err' \in {err, "ok"}
    BY <1>7 DEF Accept
  <2> QED
    BY <1>1, <1>5, <2>1
<1> QED
  BY <1>6, <1>7

LEMMA CalmStep ==
  ASSUME Attempts >= 2, CalmInv, [Next]_vars
  PROVE  Undisturbed' /\ NoiseTolerated'
<1>1. CASE Flush
  <2>1. /\ pc' = "send" /\ rx' = <<>> /\ calm' = (pending = {})
        /\ pending' = pending /\ err' = err /\ err = "none"
    BY <1>1 DEF Flush, CalmInv, ReadingInv, TypeOK
  <2> QED
    BY <2>1 DEF Undisturbed, NoiseTolerated
<1>2. CASE Transmit
  <2>1. PICK n \in TurnNoise : Send(n)
    BY <1>2 DEF Transmit
  <2>2. err' = "none"
    BY <2>1 DEF Send, CalmInv, ReadingInv, TypeOK
  <2> QED
    BY <2>1, <2>2, SendCalm DEF NoiseTolerated
<1>3. CASE Receive
  <2>1. err' = "none"
    BY <1>3 DEF Receive, CalmInv, ReadingInv, TypeOK
  <2> QED
    BY <1>3, <2>1, ReceiveCalm DEF NoiseTolerated
<1>4. CASE TimesOut
  <2>1. pc' = "return"
    BY <1>4 DEF TimesOut, Fail
  <2> QED
    BY <1>4, <2>1, TimesOutCalm DEF Undisturbed
<1>5. CASE Reject \/ Accept
  <2>1. pc' \in {"flush", "return"}
    BY <1>5 DEF Reject, Accept, Fail
  <2> QED
    BY <1>5, <2>1, CheckCalm DEF Undisturbed
<1>6. CASE NextDevice \/ NextRound
  <2>1. pc' = "flush" /\ err' = "none"
    BY <1>6 DEF NextDevice, NextRound, Call
  <2> QED
    BY <2>1 DEF Undisturbed, NoiseTolerated
<1>7. CASE Delivers
  <2>1. UNCHANGED <<err, replied, calm>>
    BY <1>7 DEF Delivers
  <2> QED
    BY <1>7, <2>1, DeliversCalm DEF CalmInv, NoiseTolerated
<1>8. CASE DeliversDamaged \/ Noise
  <2>1. calm' = FALSE
    BY <1>8 DEF DeliversDamaged, Noise
  <2> QED
    BY <2>1 DEF Undisturbed, NoiseTolerated
<1>9. CASE UNCHANGED vars
  BY <1>9 DEF vars, CalmInv, Undisturbed, OnItsWay, Arrived, Quiet, Reply,
              NoiseTolerated
<1> QED
  BY <1>1, <1>2, <1>3, <1>4, <1>5, <1>6, <1>7, <1>8, <1>9
     DEF Next, Master, Line

(* modbus_master.c:52-77: with two receives in a call, or more (the code   *)
(* makes two), the byte of noise that turning the line round leaves costs  *)
(* nothing: on a calm line the result of a request is what the slave made  *)
(* of it.                                                                  *)
THEOREM TurnNoiseCostsNothing ==
  ASSUME Attempts >= 2
  PROVE  Spec => []NoiseTolerated
<1>1. Init => Undisturbed /\ NoiseTolerated
  BY DEF Init, Undisturbed, NoiseTolerated
<1>2. ReadingInv /\ Undisturbed /\ NoiseTolerated /\ [Next]_vars
        => (Undisturbed /\ NoiseTolerated)'
  BY CalmStep DEF CalmInv
<1> QED
  BY <1>1, <1>2, ReadingInvariant, PTL DEF Spec

(***************************************************************************)
(* The CRC: sets of places under SymDiff.                                  *)
(***************************************************************************)
LEMMA SymDiffFacts ==
  ASSUME NEW A, NEW B, NEW C
  PROVE  /\ SymDiff(A, {}) = A
         /\ SymDiff(A, A) = {}
         /\ SymDiff(A, B) = SymDiff(B, A)
         /\ SymDiff(SymDiff(A, B), C) = SymDiff(A, SymDiff(B, C))
         /\ A \cap B = {} => A \cup B = SymDiff(A, B)
BY DEF SymDiff

(* What a set differs from another by, and what from that.                 *)
LEMMA SymDiffMoves ==
  ASSUME NEW A, NEW B, NEW C, SymDiff(A, B) = C
  PROVE  /\ A = SymDiff(C, B)
         /\ SymDiff(A, C) = B
BY DEF SymDiff

(* Two sums of four, place by place.                                       *)
LEMMA SymDiffFours ==
  ASSUME NEW A, NEW B, NEW C, NEW D, NEW E, NEW F, NEW G, NEW H
  PROVE  SymDiff(SymDiff(SymDiff(A, E), SymDiff(B, F)),
                 SymDiff(SymDiff(C, G), SymDiff(D, H)))
           = SymDiff(SymDiff(SymDiff(A, B), SymDiff(C, D)),
                     SymDiff(SymDiff(E, F), SymDiff(G, H)))
BY DEF SymDiff

LEMMA ShiftedMember ==
  ASSUME NEW s \in SUBSET Int, NEW n \in Int, NEW k \in Int
  PROVE  k \in Shifted(s, n) <=> k - n \in s
<1>1. ASSUME k - n \in s  PROVE  k \in Shifted(s, n)
  <2>1. k = (k - n) + n
    OBVIOUS
  <2> QED  BY <1>1, <2>1 DEF Shifted
<1>2. ASSUME k \in Shifted(s, n)  PROVE  k - n \in s
  <2>1. PICK j \in s : k = j + n
    BY <1>2 DEF Shifted
  <2>2. k - n = j
    BY <2>1
  <2> QED  BY <2>2
<1> QED  BY <1>1, <1>2

LEMMA ShiftedType ==
  ASSUME NEW s \in SUBSET Int, NEW n \in Int
  PROVE  Shifted(s, n) \subseteq Int
BY DEF Shifted

LEMMA ShiftedNat ==
  ASSUME NEW s \in SUBSET Nat, NEW n \in Nat
  PROVE  Shifted(s, n) \subseteq Nat
BY DEF Shifted

(* Two sets of numbers with the same members are one.                      *)
LEMMA SameInts ==
  ASSUME NEW A \in SUBSET Int, NEW B \in SUBSET Int,
         \A k \in Int : k \in A <=> k \in B
  PROVE  A = B
OBVIOUS

LEMMA SymDiffInt ==
  ASSUME NEW A \in SUBSET Int, NEW B \in SUBSET Int
  PROVE  SymDiff(A, B) \subseteq Int
BY DEF SymDiff

LEMMA ShiftedSymDiff ==
  ASSUME NEW A \in SUBSET Int, NEW B \in SUBSET Int, NEW n \in Int
  PROVE  Shifted(SymDiff(A, B), n) = SymDiff(Shifted(A, n), Shifted(B, n))
<1> DEFINE L == Shifted(SymDiff(A, B), n)
           R == SymDiff(Shifted(A, n), Shifted(B, n))
<1>1. SymDiff(A, B) \in SUBSET Int
  BY SymDiffInt
<1>2. L \in SUBSET Int /\ R \in SUBSET Int
  BY <1>1, ShiftedType, SymDiffInt
<1>3. ASSUME NEW k \in Int  PROVE  k \in L <=> k \in R
  <2>1. k \in L <=> k - n \in SymDiff(A, B)
    BY <1>1, ShiftedMember
  <2>2. k \in Shifted(A, n) <=> k - n \in A
    BY ShiftedMember
  <2>3. k \in Shifted(B, n) <=> k - n \in B
    BY ShiftedMember
  <2> QED  BY <2>1, <2>2, <2>3 DEF SymDiff
<1> HIDE DEF L, R
<1>4. L = R
  BY <1>2, <1>3, SameInts
<1> QED  BY <1>4 DEF L, R

LEMMA TimesType ==
  ASSUME NEW q \in SUBSET Int
  PROVE  Times(q) \subseteq Int
BY ShiftedType, SymDiffInt DEF Times

(* The multiple of a sum is the sum of the multiples.                      *)
LEMMA TimesLinear ==
  ASSUME NEW p \in SUBSET Int, NEW q \in SUBSET Int
  PROVE  Times(SymDiff(p, q)) = SymDiff(Times(p), Times(q))
<1>1. /\ Shifted(SymDiff(p, q), 1) = SymDiff(Shifted(p, 1), Shifted(q, 1))
      /\ Shifted(SymDiff(p, q), 14) = SymDiff(Shifted(p, 14), Shifted(q, 14))
      /\ Shifted(SymDiff(p, q), 16) = SymDiff(Shifted(p, 16), Shifted(q, 16))
  BY ShiftedSymDiff
<1>2. Times(SymDiff(p, q))
        = SymDiff(SymDiff(SymDiff(p, q), SymDiff(Shifted(p, 1), Shifted(q, 1))),
                  SymDiff(SymDiff(Shifted(p, 14), Shifted(q, 14)),
                          SymDiff(Shifted(p, 16), Shifted(q, 16))))
  BY <1>1 DEF Times
<1>3. @ = SymDiff(SymDiff(SymDiff(p, Shifted(p, 1)),
                          SymDiff(Shifted(p, 14), Shifted(p, 16))),
                  SymDiff(SymDiff(q, Shifted(q, 1)),
                          SymDiff(Shifted(q, 14), Shifted(q, 16))))
  BY SymDiffFours
<1> QED  BY <1>2, <1>3 DEF Times

LEMMA TimesOne ==
  ASSUME NEW n \in Int
  PROVE  Times({n}) = {n, n + 1, n + 14, n + 16}
<1>1. /\ Shifted({n}, 1) = {n + 1}
      /\ Shifted({n}, 14) = {n + 14}
      /\ Shifted({n}, 16) = {n + 16}
  BY DEF Shifted
<1> QED  BY <1>1 DEF Times, SymDiff

LEMMA TimesNothing == Times({}) = {}
BY DEF Times, Shifted, SymDiff

(* The lowest place of a multiple is that of its factor, and the highest   *)
(* is sixteen above.                                                       *)
LEMMA TimesLow ==
  ASSUME NEW q \in SUBSET Nat, NEW m \in q, \A k \in q : m <= k
  PROVE  m \in Times(q)
<1>1. m - 1 \notin q /\ m - 14 \notin q /\ m - 16 \notin q
  OBVIOUS
<1>2. /\ m \notin Shifted(q, 1)
      /\ m \notin Shifted(q, 14)
      /\ m \notin Shifted(q, 16)
  BY <1>1, ShiftedMember
<1> QED  BY <1>2 DEF Times, SymDiff

LEMMA TimesHigh ==
  ASSUME NEW q \in SUBSET Nat, NEW m \in q, \A k \in q : k <= m
  PROVE  m + 16 \in Times(q)
<1>1. m + 16 \notin q /\ m + 15 \notin q /\ m + 2 \notin q
  OBVIOUS
<1>2. (m + 16) - 1 = m + 15 /\ (m + 16) - 14 = m + 2 /\ (m + 16) - 16 = m
  OBVIOUS
<1>3. /\ m + 16 \notin Shifted(q, 1)
      /\ m + 16 \notin Shifted(q, 14)
      /\ m + 16 \in Shifted(q, 16)
  BY <1>1, <1>2, ShiftedMember
<1> QED  BY <1>1, <1>3 DEF Times, SymDiff

(* A multiple is nothing or spans seventeen places; it has none below the  *)
(* ones of its factor.                                                     *)
LEMMA MultipleNoBurst ==
  ASSUME NEW n \in Nat, NEW q \in SUBSET (0 .. n), Burst(Times(q))
  PROVE  q = {}
<1>1. SUFFICES ASSUME q # {}  PROVE  FALSE
  OBVIOUS
<1>2. q \subseteq Nat /\ \A x \in q : x <= n
  OBVIOUS
<1>3. PICK a \in q : \A k \in q : a <= k
  BY <1>1, <1>2, Least
<1>4. PICK b \in q : \A k \in q : k <= b
  BY <1>1, <1>2, Greatest
<1>5. a \in Times(q) /\ b + 16 \in Times(q)
  BY <1>2, <1>3, <1>4, TimesLow, TimesHigh
<1>6. (b + 16) - a >= 16
  BY <1>2, <1>3, <1>4
<1> QED  BY <1>2, <1>3, <1>4, <1>5, <1>6 DEF Burst

LEMMA MultipleNotAbove ==
  ASSUME NEW n \in Nat, NEW q \in SUBSET (0 .. n - 1),
         NEW c \in SUBSET Register, Times(q) = Shifted(c, n)
  PROVE  c = {}
<1>1. SUFFICES ASSUME q # {}  PROVE  FALSE
  <2>1. CASE q # {}
    BY <2>1, <1>1
  <2>2. CASE q = {}
    <3>1. Shifted(c, n) = {}
      BY <2>2, TimesNothing
    <3> QED  BY <3>1 DEF Shifted
  <2> QED  BY <2>1, <2>2
<1>2. q \subseteq Nat /\ \A x \in q : x < n
  OBVIOUS
<1>3. PICK a \in q : \A k \in q : a <= k
  BY <1>1, <1>2, Least
<1>4. a \in Shifted(c, n)
  BY <1>2, <1>3, TimesLow
<1>5. PICK k \in c : a = k + n
  BY <1>4 DEF Shifted
<1> QED  BY <1>2, <1>5 DEF Register

(* A multiple has an even number of places.                                *)
LEMMA ShiftedCount ==
  ASSUME NEW s \in SUBSET Int, NEW n \in Int, IsFiniteSet(s)
  PROVE  /\ IsFiniteSet(Shifted(s, n))
         /\ Cardinality(Shifted(s, n)) = Cardinality(s)
<1> DEFINE f == [k \in s |-> k + n]
<1>1. f \in [s -> Shifted(s, n)]
  BY DEF Shifted
<1>2. \A a, b \in s : f[a] = f[b] => a = b
  OBVIOUS
<1>3. \A t \in Shifted(s, n) : \E k \in s : f[k] = t
  BY DEF Shifted
<1> HIDE DEF f
<1>4. f \in Bijection(s, Shifted(s, n))
  BY <1>1, <1>2, <1>3 DEF Bijection, Injection, Surjection, IsInjective
<1>5. ExistsBijection(s, Shifted(s, n))
  BY <1>4 DEF ExistsBijection
<1> QED  BY <1>5, FS_Bijection

LEMMA SymDiffCount ==
  ASSUME NEW A, NEW B, IsFiniteSet(A), IsFiniteSet(B)
  PROVE  /\ IsFiniteSet(SymDiff(A, B))
         /\ \E h \in Nat :
              Cardinality(SymDiff(A, B)) + 2 * h
                = Cardinality(A) + Cardinality(B)
<1> DEFINE h == Cardinality(A \cap B)
<1>1. /\ IsFiniteSet(A \ B) /\ Cardinality(A \ B) = Cardinality(A) - h
      /\ IsFiniteSet(B \ A) /\ IsFiniteSet(A \cap B)
  BY FS_Difference, FS_Intersection
<1>2. Cardinality(B \ A) = Cardinality(B) - Cardinality(B \cap A)
  BY FS_Difference
<1>3. B \cap A = A \cap B /\ (A \ B) \cap (B \ A) = {}
  OBVIOUS
<1>4. /\ IsFiniteSet(SymDiff(A, B))
      /\ Cardinality(SymDiff(A, B))
           = Cardinality(A \ B) + Cardinality(B \ A) - Cardinality({})
  BY <1>1, <1>3, FS_Union DEF SymDiff
<1>5. /\ h \in Nat /\ Cardinality(A) \in Nat /\ Cardinality(B) \in Nat
      /\ Cardinality({}) = 0
  BY <1>1, FS_CardinalityType, FS_EmptySet
<1>6. Cardinality(SymDiff(A, B)) + 2 * h = Cardinality(A) + Cardinality(B)
  <2>1. Cardinality(SymDiff(A, B))
          = (Cardinality(A) - h) + (Cardinality(B) - h) - 0
    BY <1>1, <1>2, <1>3, <1>4, <1>5
  <2> HIDE DEF h
  <2> QED  BY <2>1, <1>5
<1> QED  BY <1>4, <1>5, <1>6

LEMMA EvenSum ==
  ASSUME NEW c \in Nat, NEW a \in Nat, NEW b \in Nat, NEW s \in Nat,
         NEW g \in Nat, NEW h \in Nat, NEW k \in Nat,
         a + 2 * g = c + c, b + 2 * h = c + c, s + 2 * k = a + b
  PROVE  s % 2 = 0
<1> DEFINE x == c + c - g - h - k
<1>1. s = 2 * x
  OBVIOUS
<1>2. x \in Int
  OBVIOUS
<1> HIDE DEF x
<1> QED  BY <1>1, <1>2

LEMMA TimesEven ==
  ASSUME NEW q \in SUBSET Int, IsFiniteSet(q)
  PROVE  Cardinality(Times(q)) % 2 = 0
<1> DEFINE c == Cardinality(q)
           A == SymDiff(q, Shifted(q, 1))
           B == SymDiff(Shifted(q, 14), Shifted(q, 16))
<1>1. /\ IsFiniteSet(Shifted(q, 1)) /\ Cardinality(Shifted(q, 1)) = c
      /\ IsFiniteSet(Shifted(q, 14)) /\ Cardinality(Shifted(q, 14)) = c
      /\ IsFiniteSet(Shifted(q, 16)) /\ Cardinality(Shifted(q, 16)) = c
  BY ShiftedCount
<1>2. IsFiniteSet(A) /\ \E h \in Nat : Cardinality(A) + 2 * h = c + c
  BY <1>1, SymDiffCount
<1>3. IsFiniteSet(B) /\ \E h \in Nat : Cardinality(B) + 2 * h = c + c
  BY <1>1, SymDiffCount
<1> HIDE DEF A, B
<1>4. /\ IsFiniteSet(SymDiff(A, B))
      /\ \E h \in Nat : Cardinality(SymDiff(A, B)) + 2 * h
                         = Cardinality(A) + Cardinality(B)
  BY <1>2, <1>3, SymDiffCount
<1>5. /\ c \in Nat /\ Cardinality(A) \in Nat /\ Cardinality(B) \in Nat
      /\ Cardinality(SymDiff(A, B)) \in Nat
  BY <1>2, <1>3, <1>4, FS_CardinalityType
<1> HIDE DEF c
<1>6. Cardinality(SymDiff(A, B)) % 2 = 0
  <2>1. PICK g \in Nat : Cardinality(A) + 2 * g = c + c
    BY <1>2
  <2>2. PICK h \in Nat : Cardinality(B) + 2 * h = c + c
    BY <1>3
  <2>3. PICK k \in Nat : Cardinality(SymDiff(A, B)) + 2 * k
                           = Cardinality(A) + Cardinality(B)
    BY <1>4
  <2> QED  BY <1>5, <2>1, <2>2, <2>3, EvenSum
<1> QED  BY <1>6 DEF Times, A, B

(***************************************************************************)
(* The CRC: the inductive invariant.                                       *)
(***************************************************************************)
CrcShape ==
  /\ phase \in {"idle", "seal", "verify", "pass", "reject"}
  /\ len \in Nat
  /\ data \subseteq Places(len)
  /\ damage \subseteq Places(len)
  /\ from \in Nat
  /\ taken \in Nat
  /\ from <= taken /\ taken <= len
  /\ bit \in 0 .. 8
  /\ taken = from => bit = 8

(* As it was sealed, what is checked is a multiple of the divisor.         *)
SealedMultiple ==
  IF phase \in {"idle", "seal"} THEN from = 0 /\ damage = {}
  ELSE \E q \in SUBSET Places(len) :
         SymDiff(SymDiff(data, damage), Register) = Times(q)

Verdicts ==
  phase \in {"pass", "reject"} => Returned /\ (phase = "pass" <=> crc = {})

CrcInv == CrcShape /\ MatchesPolynomial /\ SealedMultiple /\ Verdicts

(* One turn of the inner loop, as polynomials.                             *)
LEMMA ShiftType ==
  ASSUME NEW c \in SUBSET Register
  PROVE  Shift(c) \subseteq Register
BY DEF Shift, Register, Polynomial, SymDiff

LEMMA ShiftPlain ==
  ASSUME NEW c \in SUBSET Register, NEW n \in Nat, 0 \notin c
  PROVE  Shifted(Shift(c), n + 1) = Shifted(c, n)
<1>1. Shift(c) = {k \in 0 .. 14 : k + 1 \in c}
  BY DEF Shift
<1>2. Shift(c) \in SUBSET Int /\ c \in SUBSET Int
  BY <1>1 DEF Register
<1>3. Shifted(Shift(c), n + 1) \in SUBSET Int /\ Shifted(c, n) \in SUBSET Int
  BY <1>2, ShiftedType
<1>4. ASSUME NEW k \in Int
      PROVE  k \in Shifted(Shift(c), n + 1) <=> k \in Shifted(c, n)
  <2>1. k \in Shifted(Shift(c), n + 1) <=> k - (n + 1) \in Shift(c)
    BY <1>2, ShiftedMember
  <2>2. k \in Shifted(c, n) <=> k - n \in c
    BY <1>2, ShiftedMember
  <2>3. (k - (n + 1)) + 1 = k - n
    OBVIOUS
  <2>4. k - (n + 1) \in Shift(c)
          <=> k - (n + 1) \in 0 .. 14 /\ k - n \in c
    BY <1>1, <2>3
  <2>5. k - n \in c => k - (n + 1) \in 0 .. 14
    <3>1. ASSUME k - n \in c  PROVE  k - n \in 1 .. 15
      BY <3>1 DEF Register
    <3>2. k - n \in 1 .. 15 => k - (n + 1) \in 0 .. 14
      OBVIOUS
    <3> QED  BY <3>1, <3>2
  <2> QED  BY <2>1, <2>2, <2>4, <2>5
<1> QED  BY <1>3, <1>4, SameInts

LEMMA ShiftApplied ==
  ASSUME NEW c \in SUBSET Register, NEW n \in Nat, 0 \in c
  PROVE  Shifted(Shift(c), n + 1) = SymDiff(Shifted(c, n), Times({n}))
<1> DEFINE half == {k \in 0 .. 14 : k + 1 \in c}
<1>1. c \ {0} \in SUBSET Register /\ 0 \notin c \ {0}
  OBVIOUS
<1>2. Shift(c \ {0}) = half
  <2>1. \A k \in 0 .. 14 : k + 1 # 0
    OBVIOUS
  <2> QED  BY <1>1, <2>1 DEF Shift
<1>3. Shift(c) = SymDiff(half, Polynomial)
  BY DEF Shift
<1>4. half \in SUBSET Int /\ Polynomial \in SUBSET Int
  BY DEF Polynomial
<1>5. Shifted(half, n + 1) = Shifted(c \ {0}, n)
  BY <1>1, <1>2, ShiftPlain
<1>6. Shifted(Polynomial, n + 1) = {n + 1, n + 14, n + 16}
  BY DEF Shifted, Polynomial
<1>7. Shifted(c \ {0}, n) = SymDiff(Shifted(c, n), {n})
  <2>1. c = SymDiff(c \ {0}, {0})
    BY DEF SymDiff
  <2>2. c \ {0} \in SUBSET Int /\ {0} \in SUBSET Int
    BY DEF Register
  <2>3. Shifted({0}, n) = {n}
    BY DEF Shifted
  <2>4. Shifted(SymDiff(c \ {0}, {0}), n)
          = SymDiff(Shifted(c \ {0}, n), Shifted({0}, n))
    BY <2>2, ShiftedSymDiff
  <2>5. SymDiff(Shifted(c \ {0}, n), {n}) = Shifted(c, n)
    BY <2>1, <2>3, <2>4
  <2> QED  BY <2>5, SymDiffMoves
<1>8. Shifted(Shift(c), n + 1)
        = SymDiff(SymDiff(Shifted(c, n), {n}), {n + 1, n + 14, n + 16})
  <2>1. n + 1 \in Int
    OBVIOUS
  <2>2. Shifted(SymDiff(half, Polynomial), n + 1)
          = SymDiff(Shifted(half, n + 1), Shifted(Polynomial, n + 1))
    BY <1>4, <2>1, ShiftedSymDiff
  <2> HIDE DEF half
  <2> QED  BY <1>3, <1>5, <1>6, <1>7, <2>2
<1>9. SymDiff({n}, {n + 1, n + 14, n + 16}) = Times({n})
  <2>1. SymDiff({n}, {n + 1, n + 14, n + 16}) = {n, n + 1, n + 14, n + 16}
    BY DEF SymDiff
  <2>2. n \in Int
    OBVIOUS
  <2>3. Times({n}) = {n, n + 1, n + 14, n + 16}
    BY <2>2, TimesOne
  <2> QED  BY <2>1, <2>3
<1> QED  BY <1>8, <1>9, SymDiffFacts

(* modbus_crc16 is entered: nothing is divided yet.                        *)
LEMMA EntryDivides ==
  ASSUME NEW d \in SUBSET Int, NEW start \in Nat
  PROVE  SymDiff(SymDiff({k \in d : 8 * start <= k /\ k < 8 * start},
                         Shifted(Register, 8 * start)), Times({}))
           = Shifted(Register, 8 * start)
<1>1. {k \in d : 8 * start <= k /\ k < 8 * start} = {}
  <2>1. \A k, n \in Int : ~ (n <= k /\ k < n)
    OBVIOUS
  <2>2. 8 * start \in Int
    OBVIOUS
  <2> QED  BY <2>1, <2>2
<1>2. \A p : SymDiff(SymDiff({}, p), {}) = p
  BY DEF SymDiff
<1> QED  BY <1>1, <1>2, TimesNothing

LEMMA CrcStart ==
  ASSUME CrcInit  PROVE CrcInv
<1>1. CrcShape
  BY DEF CrcInit, CrcShape, Places
<1>2. MatchesPolynomial
  <2>1. Done = 8 * 0 /\ quotient = {} /\ crc = Register /\ from = 0 /\ taken = 0
    BY DEF CrcInit, Done, Preset
  <2>2. data \in SUBSET Int
    BY <1>1 DEF CrcShape, Places
  <2>3. SymDiff(Dividend, Times(quotient)) = Shifted(crc, Done)
    BY <2>1, <2>2, EntryDivides DEF Dividend
  <2> QED  BY <2>1, <2>3 DEF MatchesPolynomial
<1> QED  BY <1>1, <1>2 DEF CrcInv, SealedMultiple, Verdicts, CrcInit

LEMMA SymDiffInto ==
  ASSUME NEW A, NEW B, NEW C, NEW D
  PROVE  SymDiff(SymDiff(SymDiff(A, B), C), D)
           = SymDiff(SymDiff(SymDiff(A, C), D), B)
BY DEF SymDiff

LEMMA TakeByteStep ==
  ASSUME CrcInv, TakeByte  PROVE CrcInv'
<1> DEFINE n == 8 * taken
           old == {k \in data : 8 * from <= k /\ k < n}
           new == {k \in data : n <= k /\ k < n + 8}
<1>1. /\ taken \in Nat /\ from \in Nat /\ len \in Nat /\ from <= taken
      /\ taken < len /\ bit = 8 /\ data \in SUBSET Int /\ crc \in SUBSET Int
      /\ crc \subseteq Register
  BY DEF CrcInv, CrcShape, MatchesPolynomial, TakeByte, Places, Register
<1>2. /\ taken' = taken + 1 /\ bit' = 0 /\ quotient' = quotient
      /\ crc' = SymDiff(crc, ByteAt(taken)) /\ data' = data /\ from' = from
      /\ len' = len /\ phase' = phase /\ damage' = damage
  BY DEF TakeByte, call
<1>3. CrcShape'
  BY <1>1, <1>2 DEF CrcInv, CrcShape, Places
<1>4. MatchesPolynomial'
  <2>1. n \in Nat /\ Done = n /\ Done' = n /\ 8 * (taken + 1) = n + 8
    BY <1>1, <1>2 DEF Done
  <2>2. ByteAt(taken) \in SUBSET Int /\ ByteAt(taken) \subseteq Register
    BY DEF ByteAt, Register
  <2>3. Shifted(ByteAt(taken), n) = new
    <3>1. Shifted(ByteAt(taken), n) \in SUBSET Int /\ new \in SUBSET Int
      <4>1. new \in SUBSET Int
        BY <1>1
      <4>2. n \in Int
        BY <2>1
      <4> QED  BY <2>2, <4>1, <4>2, ShiftedType
    <3>2. ASSUME NEW k \in Int
          PROVE  k \in Shifted(ByteAt(taken), n) <=> k \in new
      <4>1. k \in Shifted(ByteAt(taken), n) <=> k - n \in ByteAt(taken)
        BY <2>1, <2>2, ShiftedMember
      <4>2. n + (k - n) = k
        BY <2>1
      <4>3. k - n \in 0 .. 7 <=> n <= k /\ k < n + 8
        BY <2>1
      <4> HIDE DEF n
      <4>4. k - n \in ByteAt(taken) <=> k - n \in 0 .. 7 /\ k \in data
        BY <4>2 DEF ByteAt, n
      <4> QED  BY <4>1, <4>3, <4>4
    <3> HIDE DEF new
    <3> QED  BY <3>1, <3>2, SameInts
  <2>4. {k \in data' : 8 * from' <= k /\ k < 8 * taken'} = SymDiff(old, new)
    <3>1. 8 * from <= n
      BY <1>1
    <3>2. \A k \in data : 8 * from <= k /\ k < n + 8
            <=> (k \in old /\ k \notin new) \/ (k \in new /\ k \notin old)
      BY <1>1, <2>1, <3>1
    <3>3. old \subseteq data /\ new \subseteq data
      OBVIOUS
    <3> HIDE DEF old, new
    <3>4. {k \in data : 8 * from <= k /\ k < n + 8} = SymDiff(old, new)
      BY <3>2, <3>3 DEF SymDiff
    <3> QED  BY <1>2, <2>1, <3>4
  <2>5. Dividend' = SymDiff(SymDiff(old, new), Shifted(Register, 8 * from))
    BY <1>2, <2>4 DEF Dividend
  <2>6. Dividend = SymDiff(old, Shifted(Register, 8 * from))
    BY DEF Dividend
  <2>7. SymDiff(Dividend, Times(quotient)) = Shifted(crc, n)
    BY <2>1 DEF CrcInv, MatchesPolynomial
  <2>8. Shifted(crc', n) = SymDiff(Shifted(crc, n), new)
    <3>1. n \in Int
      BY <2>1
    <3>2. Shifted(SymDiff(crc, ByteAt(taken)), n)
            = SymDiff(Shifted(crc, n), Shifted(ByteAt(taken), n))
      BY <1>1, <2>2, <3>1, ShiftedSymDiff
    <3> QED  BY <1>2, <2>3, <3>2
  <2> HIDE DEF old, new, n
  <2>9. SymDiff(Dividend', Times(quotient')) = Shifted(crc', Done')
    BY <1>2, <2>1, <2>5, <2>6, <2>7, <2>8, SymDiffInto
  <2>10. crc' \subseteq Register
    BY <1>1, <1>2, <2>2 DEF SymDiff
  <2>11. quotient' \subseteq 8 * from' .. Done' - 1
    BY <1>2, <2>1 DEF CrcInv, MatchesPolynomial
  <2> QED  BY <2>9, <2>10, <2>11 DEF MatchesPolynomial
<1>5. SealedMultiple' /\ Verdicts'
  BY <1>1, <1>2 DEF CrcInv, SealedMultiple, Verdicts, Returned
<1> QED  BY <1>3, <1>4, <1>5 DEF CrcInv

LEMMA ShiftOnceStep ==
  ASSUME CrcInv, ShiftOnce  PROVE CrcInv'
<1>1. /\ taken \in Nat /\ from \in Nat /\ from < taken /\ bit \in 0 .. 7
      /\ crc \in SUBSET Register /\ quotient \subseteq 8 * from .. Done - 1
      /\ SymDiff(Dividend, Times(quotient)) = Shifted(crc, Done)
  BY DEF CrcInv, CrcShape, MatchesPolynomial, ShiftOnce
<1>2. /\ bit' = bit + 1 /\ crc' = Shift(crc) /\ taken' = taken
      /\ data' = data /\ from' = from /\ len' = len /\ phase' = phase
      /\ damage' = damage
      /\ quotient' = quotient \cup (IF 0 \in crc THEN {Done} ELSE {})
  BY DEF ShiftOnce, call
<1>3. CrcShape'
  BY <1>1, <1>2 DEF CrcInv, CrcShape
<1>4. /\ Done \in Nat /\ Done' = Done + 1 /\ 8 * from <= Done
      /\ Dividend' = Dividend
  BY <1>1, <1>2 DEF Done, Dividend
<1>5. quotient \in SUBSET Int /\ Done \notin quotient
  BY <1>1, <1>4
<1>6. SymDiff(Dividend, Times(quotient')) = Shifted(crc', Done + 1)
  <2>1. CASE 0 \in crc
    <3>1. quotient' = SymDiff(quotient, {Done})
      BY <1>2, <1>5, <2>1 DEF SymDiff
    <3>2. Times(quotient') = SymDiff(Times(quotient), Times({Done}))
      BY <1>4, <1>5, <3>1, TimesLinear
    <3>3. SymDiff(Dividend, SymDiff(Times(quotient), Times({Done})))
            = SymDiff(SymDiff(Dividend, Times(quotient)), Times({Done}))
      BY SymDiffFacts
    <3>4. Shifted(Shift(crc), Done + 1)
            = SymDiff(Shifted(crc, Done), Times({Done}))
      BY <1>1, <1>4, <2>1, ShiftApplied
    <3> QED  BY <1>1, <1>2, <3>2, <3>3, <3>4
  <2>2. CASE 0 \notin crc
    <3>1. quotient' = quotient
      BY <1>2, <2>2
    <3>2. Shifted(Shift(crc), Done + 1) = Shifted(crc, Done)
      BY <1>1, <1>4, <2>2, ShiftPlain
    <3> QED  BY <1>1, <1>2, <3>1, <3>2
  <2> QED  BY <2>1, <2>2
<1>7. crc' \subseteq Register
  BY <1>1, <1>2, ShiftType
<1>8. quotient' \subseteq 8 * from' .. Done' - 1
  <2>1. 8 * from .. Done - 1 \subseteq 8 * from .. (Done + 1) - 1
    BY <1>1, <1>4
  <2>2. Done \in 8 * from .. (Done + 1) - 1
    BY <1>1, <1>4
  <2> QED  BY <1>1, <1>2, <1>4, <2>1, <2>2
<1>9. MatchesPolynomial'
  BY <1>4, <1>6, <1>7, <1>8 DEF MatchesPolynomial
<1>10. SealedMultiple' /\ Verdicts'
  BY <1>1, <1>2 DEF CrcInv, SealedMultiple, Verdicts, Returned
<1> QED  BY <1>3, <1>9, <1>10 DEF CrcInv

LEMMA AllPlaces ==
  ASSUME NEW l \in Nat, NEW d, d \subseteq Places(l)
  PROVE  {k \in d : 0 <= k /\ k < 8 * l} = d
<1>1. \A n \in Int : \A k \in 0 .. n - 1 : 0 <= k /\ k < n
  OBVIOUS
<1>2. 8 * l \in Int
  OBVIOUS
<1>3. \A k \in d : 0 <= k /\ k < 8 * l
  BY <1>1, <1>2 DEF Places
<1> QED  BY <1>3

LEMMA TransferStep ==
  ASSUME CrcInv, Transfer  PROVE CrcInv'
<1> DEFINE n == 8 * len
<1>1. PICK start \in 0 .. len' - 1 : Enter(start)
  BY DEF Transfer
<1>2. /\ phase = "seal" /\ bit = 8 /\ taken = len /\ phase' = "verify"
      /\ len' = len + 2 /\ damage' \subseteq Places(len')
      /\ data' = SymDiff(Sealed, damage')
  BY DEF Transfer, Returned
<1>3. /\ len \in Nat /\ data \subseteq Places(len) /\ crc \in SUBSET Register
      /\ from = 0 /\ n \in Nat
      /\ quotient \subseteq 0 .. n - 1
      /\ SymDiff(Dividend, Times(quotient)) = Shifted(crc, n)
  <2>1. from = 0 /\ len \in Nat
    BY <1>2 DEF CrcInv, CrcShape, SealedMultiple
  <2>2. Done = n /\ 8 * from = 0
    BY <1>2, <2>1 DEF Done
  <2> HIDE DEF n
  <2>3. n \in Nat
    BY <2>1 DEF n
  <2> QED  BY <2>1, <2>2, <2>3 DEF CrcInv, CrcShape, MatchesPolynomial
<1>4. /\ from' = start /\ taken' = start /\ bit' = 8 /\ crc' = Register
      /\ quotient' = {} /\ start \in Nat /\ start < len'
  BY <1>1, <1>2, <1>3 DEF Enter, Preset
<1>5. /\ Shifted(crc, n) \subseteq Places(len + 2)
      /\ data \cap Shifted(crc, n) = {}
  <2>1. ASSUME NEW k \in crc
        PROVE  k + n \in Places(len + 2) /\ k + n \notin Places(len)
    <3>1. k \in 0 .. 15
      BY <1>3 DEF Register
    <3> QED  BY <1>3, <3>1 DEF Places
  <2> HIDE DEF n
  <2> QED  BY <1>3, <2>1 DEF Shifted
<1>6. data' \subseteq Places(len')
  <2>1. Places(len) \subseteq Places(len + 2)
    BY <1>3 DEF Places
  <2>2. Sealed \subseteq Places(len + 2)
    BY <1>3, <1>5, <2>1 DEF Sealed
  <2> QED  BY <1>2, <2>2 DEF SymDiff
<1>7. CrcShape'
  BY <1>2, <1>3, <1>4, <1>6 DEF CrcShape
<1>8. MatchesPolynomial'
  <2>1. data' \in SUBSET Int
    BY <1>6 DEF Places
  <2>2. Done' = 8 * start
    BY <1>4 DEF Done
  <2>3. SymDiff(Dividend', Times(quotient')) = Shifted(crc', Done')
    BY <1>4, <2>1, <2>2, EntryDivides DEF Dividend
  <2> QED  BY <1>4, <2>3 DEF MatchesPolynomial
<1>9. SealedMultiple'
  <2>1. Sealed = SymDiff(data, Shifted(crc, n))
    <3>1. \A a, b : a \cap b = {} => a \cup b = SymDiff(a, b)
      BY DEF SymDiff
    <3> QED  BY <1>5, <3>1 DEF Sealed
  <2>2. SymDiff(data', damage') = Sealed
    <3>1. SymDiff(SymDiff(Sealed, damage'), damage') = Sealed
      BY DEF SymDiff
    <3> QED  BY <1>2, <3>1
  <2>3. Dividend = SymDiff(data, Register)
    <3>1. 8 * from = 0 /\ 8 * taken = n
      BY <1>2, <1>3
    <3>2. {k \in data : 8 * from <= k /\ k < 8 * taken} = data
      BY <1>3, <3>1, AllPlaces
    <3>3. Shifted(Register, 0) = Register
      BY DEF Shifted, Register
    <3> QED  BY <3>1, <3>2, <3>3 DEF Dividend
  <2>4. SymDiff(SymDiff(data, Register), Times(quotient)) = Shifted(crc, n)
    BY <1>3, <2>3
  <2>5. SymDiff(SymDiff(data, Shifted(crc, n)), Register) = Times(quotient)
    <3>1. \A a, b, c, d : SymDiff(SymDiff(a, b), c) = d
                           => SymDiff(SymDiff(a, d), b) = c
      BY DEF SymDiff
    <3> QED  BY <2>4, <3>1
  <2>6. quotient \in SUBSET Places(len')
    BY <1>2, <1>3 DEF Places
  <2>7. phase' \notin {"idle", "seal"}
    BY <1>2
  <2>8. SymDiff(SymDiff(data', damage'), Register) = Times(quotient)
    BY <2>1, <2>2, <2>5
  <2> QED  BY <2>6, <2>7, <2>8 DEF SealedMultiple
<1>10. Verdicts'
  BY <1>2 DEF Verdicts
<1> QED  BY <1>7, <1>8, <1>9, <1>10 DEF CrcInv

LEMMA JudgeStep ==
  ASSUME CrcInv, Judge  PROVE CrcInv'
<1>1. /\ phase = "verify" /\ Returned
      /\ phase' = IF crc = {} THEN "pass" ELSE "reject"
      /\ damage' = damage /\ data' = data /\ len' = len
      /\ from' = from /\ taken' = taken /\ bit' = bit /\ crc' = crc
      /\ quotient' = quotient
  BY DEF Judge, Passes
<1>2. CrcShape'
  BY <1>1 DEF CrcInv, CrcShape
<1>3. MatchesPolynomial'
  BY <1>1 DEF CrcInv, MatchesPolynomial, Dividend, Done
<1>4. SealedMultiple'
  BY <1>1 DEF CrcInv, SealedMultiple
<1>5. Verdicts'
  BY <1>1 DEF Verdicts, Returned
<1> QED  BY <1>2, <1>3, <1>4, <1>5 DEF CrcInv

(* At the entry of modbus_crc16 nothing is divided.                        *)
LEMMA EntryStep ==
  ASSUME data' \in SUBSET Int, Enter(0)
  PROVE  MatchesPolynomial'
<1>1. /\ from' = 0 /\ taken' = 0 /\ bit' = 8 /\ crc' = Register
      /\ quotient' = {}
  BY DEF Enter, Preset
<1>2. Done' = 8 * 0
  BY <1>1 DEF Done
<1>3. SymDiff(Dividend', Times(quotient')) = Shifted(crc', Done')
  BY <1>1, <1>2, EntryDivides DEF Dividend
<1> QED  BY <1>1, <1>3 DEF MatchesPolynomial

LEMMA ComposeStep ==
  ASSUME CrcInv, Compose  PROVE CrcInv'
<1>1. /\ phase' = "seal" /\ damage' = {}
      /\ from' = 0 /\ taken' = 0 /\ bit' = 8
      /\ len' \in Nat /\ data' \subseteq Places(len')
  BY CrcAssumption DEF Compose, Enter, CrcInv, SealedMultiple
<1>2. CrcShape'
  BY <1>1 DEF CrcShape
<1>3. MatchesPolynomial'
  BY <1>1, EntryStep DEF Compose, Places
<1> QED  BY <1>1, <1>2, <1>3 DEF CrcInv, SealedMultiple, Verdicts

LEMMA LeaveStep ==
  ASSUME CrcInv, Leave  PROVE CrcInv'
<1>1. /\ phase' = "idle" /\ damage' = {} /\ data' = {} /\ len' = 0
      /\ from' = 0 /\ taken' = 0 /\ bit' = 8
  BY DEF Leave, Enter
<1>2. CrcShape'
  BY <1>1 DEF CrcShape
<1>3. MatchesPolynomial'
  BY <1>1, EntryStep DEF Leave
<1> QED  BY <1>1, <1>2, <1>3 DEF CrcInv, SealedMultiple, Verdicts

LEMMA CrcInductive ==
  ASSUME CrcInv, [CrcNext]_crcVars  PROVE CrcInv'
<1>1. CASE TakeByte
  BY <1>1, TakeByteStep
<1>2. CASE ShiftOnce
  BY <1>2, ShiftOnceStep
<1>3. CASE Transfer
  BY <1>3, TransferStep
<1>4. CASE Judge
  BY <1>4, JudgeStep
<1>5. CASE Compose \/ Leave
  BY <1>5, ComposeStep, LeaveStep
<1>6. CASE UNCHANGED crcVars
  <2> USE <1>6 DEF crcVars
  <2>1. CrcShape' /\ SealedMultiple' /\ Verdicts'
    BY DEF CrcInv, CrcShape, SealedMultiple, Verdicts, Returned
  <2>2. MatchesPolynomial'
    BY DEF CrcInv, MatchesPolynomial, Dividend, Done
  <2> QED  BY <2>1, <2>2 DEF CrcInv
<1> QED  BY <1>1, <1>2, <1>3, <1>4, <1>5, <1>6 DEF CrcNext

LEMMA CrcAlways == CrcSpec => []CrcInv
<1>1. CrcInit => CrcInv
  BY CrcStart
<1>2. CrcInv /\ [CrcNext]_crcVars => CrcInv'
  BY CrcInductive
<1> QED  BY <1>1, <1>2, PTL DEF CrcSpec

(* The whole of what was received, divided.                                *)
LEMMA WholeDivided ==
  ASSUME CrcInv, Returned, from = 0
  PROVE  /\ len \in Nat /\ 8 * len \in Nat /\ Done = 8 * len
         /\ quotient \in SUBSET (0 .. 8 * len - 1)
         /\ Dividend = SymDiff(data, Register)
<1>1. len \in Nat /\ taken = len /\ bit = 8 /\ data \subseteq Places(len)
  BY DEF CrcInv, CrcShape, Returned
<1>2. 8 * len \in Nat /\ Done = 8 * len /\ 8 * from = 0
  BY <1>1 DEF Done
<1>3. quotient \in SUBSET (0 .. 8 * len - 1)
  BY <1>2 DEF CrcInv, MatchesPolynomial
<1>4. {k \in data : 8 * from <= k /\ k < 8 * taken} = data
  BY <1>1, <1>2, AllPlaces
<1>5. Shifted(Register, 0) = Register
  BY DEF Shifted, Register
<1> QED  BY <1>1, <1>2, <1>3, <1>4, <1>5 DEF Dividend

LEMMA WholePasses ==
  ASSUME CrcInv  PROVE WholeFramePasses
<1>1. SUFFICES ASSUME phase = "reject", from = 0, damage = {}  PROVE FALSE
  BY DEF WholeFramePasses
<1> DEFINE n == 8 * len
<1>2. Returned /\ crc # {}
  BY <1>1 DEF CrcInv, Verdicts
<1>3. /\ n \in Nat /\ Done = n /\ quotient \in SUBSET (0 .. n - 1)
      /\ Dividend = SymDiff(data, Register)
  BY <1>1, <1>2, WholeDivided
<1>4. PICK p \in SUBSET (0 .. n - 1) :
        SymDiff(SymDiff(data, damage), Register) = Times(p)
  BY <1>1 DEF CrcInv, SealedMultiple, Places
<1> HIDE DEF n
<1>5. Times(p) = Dividend
  <2>1. SymDiff(data, {}) = data
    BY DEF SymDiff
  <2> QED  BY <1>1, <1>3, <1>4, <2>1
<1>6. p \in SUBSET Int /\ quotient \in SUBSET Int
  BY <1>3
<1>7. Times(SymDiff(p, quotient)) = Shifted(crc, n)
  <2>1. Times(SymDiff(p, quotient)) = SymDiff(Times(p), Times(quotient))
    BY <1>6, TimesLinear
  <2> QED  BY <1>3, <1>5, <2>1 DEF CrcInv, MatchesPolynomial
<1>8. SymDiff(p, quotient) \in SUBSET (0 .. n - 1)
  BY <1>3 DEF SymDiff
<1>9. crc \in SUBSET Register
  BY DEF CrcInv, MatchesPolynomial
<1> QED  BY <1>2, <1>3, <1>7, <1>8, <1>9, MultipleNotAbove

LEMMA DamageSeen ==
  ASSUME CrcInv  PROVE DamageFound
<1>1. SUFFICES ASSUME phase = "pass", from = 0, damage # {}
              PROVE  ~Burst(damage) /\ Cardinality(damage) % 2 = 0
  BY DEF DamageFound
<1> DEFINE n == 8 * len
<1>2. Returned /\ crc = {}
  BY <1>1 DEF CrcInv, Verdicts
<1>3. /\ n \in Nat /\ Done = n /\ quotient \in SUBSET (0 .. n - 1)
      /\ Dividend = SymDiff(data, Register)
  BY <1>1, <1>2, WholeDivided
<1>4. PICK p \in SUBSET (0 .. n - 1) :
        SymDiff(SymDiff(data, damage), Register) = Times(p)
  BY <1>1 DEF CrcInv, SealedMultiple, Places
<1> HIDE DEF n
<1> DEFINE q == SymDiff(p, quotient)
<1>5. Times(quotient) = SymDiff(data, Register)
  <2>1. SymDiff(Dividend, Times(quotient)) = Shifted({}, n)
    BY <1>2, <1>3 DEF CrcInv, MatchesPolynomial
  <2>2. Shifted({}, n) = {}
    BY DEF Shifted
  <2>3. \A a, b : SymDiff(a, b) = {} => b = a
    BY DEF SymDiff
  <2> QED  BY <1>3, <2>1, <2>2, <2>3
<1>6. q \in SUBSET (0 .. n - 1) /\ p \in SUBSET Int /\ quotient \in SUBSET Int
  BY <1>3 DEF SymDiff
<1>7. damage = Times(q)
  <2>1. Times(q) = SymDiff(Times(p), Times(quotient))
    BY <1>6, TimesLinear
  <2>2. \A a, b, c : SymDiff(SymDiff(SymDiff(a, b), c), SymDiff(a, c)) = b
    BY DEF SymDiff
  <2> QED  BY <1>4, <1>5, <2>1, <2>2
<1> HIDE DEF q
<1>8. ~Burst(damage)
  <2>1. SUFFICES ASSUME Burst(damage)  PROVE FALSE
    OBVIOUS
  <2>2. q \in SUBSET (0 .. n)
    BY <1>3, <1>6
  <2>3. q = {}
    BY <1>3, <1>7, <2>1, <2>2, MultipleNoBurst
  <2> QED  BY <1>1, <1>7, <2>3, TimesNothing
<1>9. Cardinality(damage) % 2 = 0
  <2>1. IsFiniteSet(0 .. n - 1)
    BY <1>3, FS_Interval
  <2>2. IsFiniteSet(q) /\ q \in SUBSET Int
    <3>1. IsFiniteSet(q)
      BY <1>6, <2>1, FS_Subset
    <3>2. 0 .. n - 1 \subseteq Int
      OBVIOUS
    <3> QED  BY <1>6, <3>1, <3>2
  <2> QED  BY <1>7, <2>2, TimesEven
<1> QED  BY <1>8, <1>9

(***************************************************************************)
(* The CRC: theorems.                                                      *)
(***************************************************************************)
(* modbus_crc.c:10-29, for frames of any length and contents and for any   *)
(* place resynchronisation starts from: after every turn of the loops the  *)
(* register holds the remainder of the division by the polynomial.         *)
THEOREM CrcIsRemainder == CrcSpec => []MatchesPolynomial
<1>1. CrcInv => MatchesPolynomial
  BY DEF CrcInv
<1> QED  BY <1>1, CrcAlways, PTL

(* modbus_master.c:32-36, 87-92, for every frame: low byte first is the    *)
(* order in which the check over the whole comes out as zero.              *)
THEOREM SealedFramesPass == CrcSpec => []WholeFramePasses
<1>1. CrcInv => WholeFramePasses
  BY WholePasses
<1> QED  BY <1>1, CrcAlways, PTL

(* modbus_master.c:87-92, for every frame and every error: a burst of up   *)
(* to sixteen places and an odd number of places are always found.         *)
THEOREM DamageIsFound == CrcSpec => []DamageFound
<1>1. CrcInv => DamageFound
  BY DamageSeen
<1> QED  BY <1>1, CrcAlways, PTL
=============================================================================
