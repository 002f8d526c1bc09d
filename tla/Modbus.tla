------------------------------- MODULE Modbus -------------------------------
(***************************************************************************)
(* modbus_read_device of protocol/modbus_master.c over drivers/rs485.c:    *)
(* the devices are read in turn, one request for each field, over a line   *)
(* where slaves may be silent, answer with an exception, or answer late,   *)
(* and where bytes are added and damaged.                                  *)
(*                                                                         *)
(* A byte on the line is known by the frame it belongs to and its place in *)
(* it.  The CRC is taken to be perfect here (ModbusCrc is about that): it  *)
(* passes for one whole frame and nothing else.  The contents of the data  *)
(* and CRC bytes are not modelled; the address, function and count bytes   *)
(* are, because resynchronisation looks for the address everywhere.        *)
(***************************************************************************)
EXTENDS Integers, Sequences, FiniteSets

CONSTANTS
  FieldCount,   \* map_count of each device; device d has address d, a uint8_t
  Attempts,     \* receives in a call of modbus_recv_response: 2
  Stray,        \* values of the bytes the line makes up
  RequestMod,   \* bound: requests told apart
  MaxAnswers,   \* bound: answers on their way at once
  MaxFrames,    \* bound: bytes of frames in the FIFO, which holds 256
  MaxStray      \* bound: stray bytes in the FIFO

Slave == 1 .. Len(FieldCount)

ASSUME ModbusAssumption ==
  /\ FieldCount \in Seq(Nat \ {0})
  /\ Len(FieldCount) \in 1 .. 255
  /\ Attempts \in Nat \ {0}
  /\ Stray \subseteq 0 .. 255
  /\ RequestMod \in Nat \ {0}
  /\ MaxAnswers \in Nat
  /\ MaxFrames \in Nat
  /\ MaxStray \in Nat

VARIABLES
  pc,           \* where poll_task is
  cur,          \* the device being read
  field,        \* i in modbus_read_device
  req,          \* the number of the request on the line
  attempt,      \* attempt in modbus_recv_response
  buf,          \* resp, up to resp_len
  out,          \* the frames whose value went into out, by field
  err,          \* the latest result of modbus_read_device
  rx,           \* the receive FIFO of the UART
  pending,      \* answers that are still on their way
  replied,      \* history: what the slave made of this request
  calm          \* history: nothing disturbed the line since the flush

vars == <<pc, cur, field, req, attempt, buf, out, err, rx, pending, replied,
          calm>>
place == <<cur, field, req>>
line == <<rx, pending, replied, calm>>

(***************************************************************************)
(* Frames and bytes.                                                       *)
(***************************************************************************)
(* A frame of a slave; late when it was still on its way after the master  *)
(* had timed out, or after the pause between two rounds.                   *)
FrameOf(kind, s, r) == [kind |-> kind, slave |-> s, req |-> r, late |-> FALSE]
Answer(s, r) == FrameOf("answer", s, r)
Exception(s, r) == FrameOf("exception", s, r)
StrayFrame == FrameOf("stray", 0, 0)
Late(frames) == {[f EXCEPT !.late = TRUE] : f \in frames}

(* A value is two bytes, an exception is a code, and the CRC is two bytes. *)
FrameLen(f) == IF f.kind = "answer" THEN 7 ELSE 5

Byte(f, p, v) == [frame |-> f, at |-> p, value |-> v]

HeaderByte(f, p) ==
  CASE p = 1 -> f.slave
    [] p = 2 -> IF f.kind = "answer" THEN 3 ELSE 131
    [] p = 3 -> 2
    [] OTHER -> 0

Bytes(f) == [p \in 1 .. FrameLen(f) |-> Byte(f, p, HeaderByte(f, p))]

(* modbus_crc16(buf, n) = 0.                                               *)
CrcPasses(b) == b # <<>> /\ b = Bytes(b[1].frame)

Init ==
  /\ pc = "flush"
  /\ cur = 1
  /\ field = 1
  /\ req = 0
  /\ attempt = 1
  /\ buf = <<>>
  /\ out = <<>>
  /\ err = "none"
  /\ rx = <<>>
  /\ pending = {}
  /\ replied = "silent"
  /\ calm = TRUE

(***************************************************************************)
(* modbus_send_request: empty the FIFO, then send.                         *)
(***************************************************************************)
(* Mutant: the FIFO is not emptied.                                        *)
NoFlush ==
  /\ pc = "flush"
  /\ pc' = "send"
  /\ UNCHANGED <<place, attempt, buf, out, err, line>>

Flush ==
  /\ pc = "flush"
  /\ pc' = "send"
  /\ rx' = <<>>
  /\ calm' = (pending = {})
  /\ UNCHANGED <<place, attempt, buf, out, err, pending, replied>>

Answers(f) ==
  /\ Cardinality(pending) < MaxAnswers
  /\ pending' = pending \cup {f}

(* rs485_send: the slave gets the request, if there is one, and answers or *)
(* not.  Turning the line round may leave a byte of noise in the FIFO.     *)
Send(noise) ==
  /\ pc = "send"
  /\ pc' = "receive"
  /\ attempt' = 1
  /\ rx' = rx \o noise
  /\ \/ replied' = "silent" /\ UNCHANGED pending
     \/ replied' = "answer" /\ Answers(Answer(cur, req))
     \/ replied' = "exception" /\ Answers(Exception(cur, req))
  /\ UNCHANGED <<place, buf, out, err, calm>>

TurnNoise == {<<>>, <<Byte(StrayFrame, 0, 0)>>}

(***************************************************************************)
(* modbus_recv_response.                                                   *)
(***************************************************************************)
(* The bytes from the first one that equals the address on.                *)
Resync(b) ==
  LET at == {i \in 1 .. Len(b) : b[i].value = cur}
  IN  IF at = {} THEN <<>>
      ELSE SubSeq(b, CHOOSE i \in at : \A j \in at : i <= j, Len(b))

(* modbus_master.c:72-76: the test of offset against n comes when n is     *)
(* already smaller by offset.  An address in the second half of the chunk  *)
(* does not end the loop: what was found is overwritten by the next chunk. *)
InFirstHalf(found) == Len(rx) - Len(found) < Len(found)

(* Mutant: what does not start with the address is not searched.           *)
ReceiveNoResync ==
  /\ pc = "receive"
  /\ rx # <<>>
  /\ rx' = <<>>
  /\ buf' = rx
  /\ pc' = IF rx[1].value # cur /\ attempt < Attempts
             THEN "receive" ELSE "check"
  /\ attempt' = IF pc' = "receive" THEN attempt + 1 ELSE attempt
  /\ UNCHANGED <<place, out, err, pending, replied, calm>>

(* Mutant: it is tried for as long as there is something to read.          *)
ReceiveForEver ==
  /\ pc = "receive"
  /\ rx # <<>>
  /\ rx' = <<>>
  /\ pc' = IF InFirstHalf(Resync(rx)) THEN "check" ELSE "receive"
  /\ buf' = IF pc' = "check" THEN Resync(rx) ELSE <<>>
  /\ UNCHANGED <<place, attempt, out, err, pending, replied, calm>>

(* One chunk from the UART.                                                *)
Receive ==
  /\ pc = "receive"
  /\ rx # <<>>
  /\ rx' = <<>>
  /\ pc' = IF InFirstHalf(Resync(rx)) \/ attempt = Attempts
             THEN "check" ELSE "receive"
  /\ buf' = IF pc' = "check" THEN Resync(rx) ELSE <<>>
  /\ attempt' = IF pc' = "receive" THEN attempt + 1 ELSE attempt
  /\ UNCHANGED <<place, out, err, pending, replied, calm>>

Fail(e) ==
  /\ err' = e
  /\ pc' = "return"
  /\ buf' = <<>>
  /\ UNCHANGED <<place, attempt, out>>

TimesOut ==
  /\ pc = "receive"
  /\ rx = <<>>
  /\ Fail("timeout")
  /\ pending' = Late(pending)
  /\ calm' = (calm /\ pending = {})
  /\ UNCHANGED <<rx, replied>>

(* The address, the CRC, the exception bit and the length, in this order.  *)
AddressFits == buf # <<>> /\ buf[1].value = cur
Refused == buf[2].value >= 128
LengthFits == Len(buf) = 5 + buf[3].value

Verdict ==
  IF ~AddressFits \/ ~CrcPasses(buf) THEN "crc"
  ELSE IF Refused THEN "offline"
  ELSE IF LengthFits THEN "ok" ELSE "crc"

Reject ==
  /\ pc = "check"
  /\ Verdict # "ok"
  /\ Fail(Verdict)
  /\ UNCHANGED line

(* The value goes into its field, and the next field is asked for.         *)
Accept ==
  /\ pc = "check"
  /\ Verdict = "ok"
  /\ out' = Append(out, buf[1].frame)
  /\ buf' = <<>>
  /\ IF field < FieldCount[cur]
       THEN /\ pc' = "flush"
            /\ field' = field + 1
            /\ req' = (req + 1) % RequestMod
            /\ UNCHANGED err
       ELSE /\ pc' = "return"
            /\ err' = "ok"
            /\ UNCHANGED <<field, req>>
  /\ UNCHANGED <<cur, attempt, line>>

(***************************************************************************)
(* poll_task calls modbus_read_device for the next device after 20 ms, and *)
(* starts a new round after a pause.                                       *)
(***************************************************************************)
Call(d) ==
  /\ pc = "return"
  /\ pc' = "flush"
  /\ cur' = d
  /\ field' = 1
  /\ req' = (req + 1) % RequestMod
  /\ out' = <<>>
  /\ err' = "none"
  /\ UNCHANGED <<attempt, buf, rx, replied, calm>>

NextDevice ==
  /\ cur < Len(FieldCount)
  /\ Call(cur + 1)
  /\ UNCHANGED pending

NextRound ==
  /\ cur = Len(FieldCount)
  /\ Call(1)
  /\ pending' = Late(pending)

(***************************************************************************)
(* The line.                                                               *)
(***************************************************************************)
StrayIn(b) == Cardinality({i \in 1 .. Len(b) : b[i].frame = StrayFrame})

Arrives(b) ==
  /\ rx' = rx \o b
  /\ StrayIn(rx') <= MaxStray
  /\ Len(rx') <= MaxFrames + StrayIn(rx')

Delivers ==
  /\ \E f \in pending :
       /\ Arrives(Bytes(f))
       /\ pending' = pending \ {f}
  /\ UNCHANGED <<pc, place, attempt, buf, out, err, replied, calm>>

(* The first or the last byte arrives as another one, or the end is lost.  *)
DeliversDamaged ==
  /\ \E f \in pending :
       /\ \/ \E p \in {1, FrameLen(f)}, v \in Stray :
               Arrives([Bytes(f) EXCEPT ![p] = Byte(StrayFrame, 0, v)])
          \/ \E n \in 0 .. FrameLen(f) - 1 : Arrives(SubSeq(Bytes(f), 1, n))
       /\ pending' = pending \ {f}
  /\ calm' = FALSE
  /\ UNCHANGED <<pc, place, attempt, buf, out, err, replied>>

Noise ==
  /\ \E v \in Stray : Arrives(<<Byte(StrayFrame, 0, v)>>)
  /\ calm' = FALSE
  /\ UNCHANGED <<pc, place, attempt, buf, out, err, pending, replied>>

Transmit == \E n \in TurnNoise : Send(n)

Master ==
  \/ Flush \/ Transmit \/ Receive \/ TimesOut \/ Reject \/ Accept
  \/ NextDevice \/ NextRound
Line == Delivers \/ DeliversDamaged \/ Noise

Next == Master \/ Line

Spec == Init /\ [][Next]_vars

(***************************************************************************)
(* Properties.                                                             *)
(***************************************************************************)
Frame ==
  [kind : {"answer", "exception"}, slave : Slave, req : 0 .. RequestMod - 1,
   late : BOOLEAN]
LineByte ==
  [frame : Frame \cup {StrayFrame}, at : 0 .. 7, value : 0 .. 255]

(* Every variable in its range; what passed the checks was read for the    *)
(* fields of the device so far.                                            *)
TypeOK ==
  /\ pc \in {"flush", "send", "receive", "check", "return"}
  /\ cur \in Slave
  /\ field \in 1 .. FieldCount[cur]
  /\ req \in 0 .. RequestMod - 1
  /\ attempt \in 1 .. Attempts
  /\ buf \in Seq(LineByte)
  /\ out \in Seq(Frame)
  /\ Len(out) = IF err = "ok" THEN field ELSE field - 1
  /\ err \in {"none", "ok", "timeout", "crc", "offline"}
  /\ err # "none" <=> pc = "return"
  /\ rx \in Seq(LineByte)
  /\ pending \subseteq Frame
  /\ replied \in {"silent", "answer", "exception"}
  /\ calm \in BOOLEAN

(* rs485.h:52-55, modbus_master.c:37: the value that goes into a field was *)
(* sent by the slave that was asked, in answer to the request for that     *)
(* field.  It may be the answer to an earlier request only if the slave    *)
(* did not keep to its time (MODBUS_TIMEOUT_MS, and the pause between two  *)
(* rounds); then the values behind it in the same reading may be shifted.  *)
Expected(i) == (req + RequestMod - (field - i)) % RequestMod
AnswerFits ==
  \A i \in 1 .. Len(out) :
    /\ out[i].kind = "answer"
    /\ out[i].slave = cur
    /\ out[i].req = Expected(i) \/ \E j \in 1 .. i : out[j].late

(* modbus_master.c:68-77, docs/troubleshooting.md:319-386 (problem 6): a   *)
(* byte of noise when the line turns round costs nothing.  Once the line   *)
(* is calm, whatever went before, what the master makes of a request is    *)
(* what the slave did with it.                                             *)
NoiseTolerated ==
  calm =>
    /\ err = "ok" => replied = "answer"
    /\ err = "timeout" => replied = "silent"
    /\ err = "offline" => replied = "exception"
    /\ err # "crc"

(* modbus_master.c:57: whatever the line and the slaves do, every device   *)
(* is asked again and again.                                               *)
EveryDevicePolled == \A d \in Slave : []<>(pc = "return" /\ cur = d)
=============================================================================
