------------------------------ MODULE MCModbus ------------------------------
(***************************************************************************)
(* Instances of Modbus and ModbusCrc for TLC, side by side: they share no  *)
(* variable, so CRCs are computed before the first request only, and the   *)
(* master goes on when none is being computed.                             *)
(***************************************************************************)
EXTENDS Modbus, ModbusCrc

TwoSlaves == <<2, 1>>

FrameOfBytes(bytes) ==
  [len  |-> Len(bytes),
   ones |-> {k \in Places(Len(bytes)) :
               (bytes[k \div 8 + 1] \div 2^(k % 8)) % 2 = 1}]

(* A request, the answers of slaves 1 to 3 to it, and their exceptions.    *)
DataBytes == {0, 1, 43, 100, 131, 255}
SomeFrames ==
  {FrameOfBytes(b) : b \in
     {<<1, 3, 0, 1, 0, 1>>}
       \cup {<<s, 3, 2, high, low>> : s \in 1 .. 3, high, low \in DataBytes}
       \cup {<<s, 131, code>> : s \in 1 .. 3, code \in 1 .. 4}}

(* In the request: every place, two places at every distance, and bursts.  *)
SomeErrors ==
  [n \in {3, 5, 6} |->
     {{}} \cup IF n < 6 THEN {}
              ELSE {{k} : k \in Places(8)} \cup {{0, k} : k \in Places(8)}
                     \cup {Shifted(b, k) : b \in {0 .. 2, 0 .. 15, {0, 3, 7, 15}},
                                          k \in Places(8)}]

MCInit == Init /\ CrcInit

Reading(step) == phase = "idle" /\ step /\ UNCHANGED crcVars
Summing == Init /\ CrcNext /\ UNCHANGED vars

(* The task that polls gets to run, and computes a CRC now and then;       *)
(* nothing is asked of the line.                                           *)
MCSpec ==
  /\ MCInit
  /\ [][Reading(Next) \/ Summing]_<<vars, crcVars>>
  /\ WF_crcVars(Summing)
  /\ SF_vars(Reading(Master))
=============================================================================
