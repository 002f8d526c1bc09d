--------------------------- MODULE PollingProofs ----------------------------
(***************************************************************************)
(* poll_task over a device table of any size, with any number of fields    *)
(* and any width of the failure counter above the threshold.               *)
(***************************************************************************)
EXTENDS Polling, TLAPS

(***************************************************************************)
(* Helpers.                                                                *)
(***************************************************************************)
LEMMA MapCountFact == ASSUME NEW d \in Device PROVE MapCount[d] \in Nat \ {0}
BY PollingAssumption DEF Devices

LEMMA DeviceFact ==
  /\ Devices \in Nat \ {0}
  /\ Device = 1 .. Devices
BY PollingAssumption DEF Devices

LEMMA AppendFact ==
  ASSUME NEW S, NEW s \in Seq(S), NEW e \in S
  PROVE  /\ Append(s, e) \in Seq(S)
         /\ Len(Append(s, e)) = Len(s) + 1
         /\ \A i \in 1 .. Len(s) : Append(s, e)[i] = s[i]
         /\ Append(s, e)[Len(s) + 1] = e
OBVIOUS

LEMMA ModFact ==
  ASSUME NEW m \in Nat \ {0}, NEW n \in Nat
  PROVE  n % m \in 0 .. m - 1 /\ n % m \in Nat /\ (n < m => n % m = n)
OBVIOUS

LEMMA LineFact ==
  ASSUME NEW o \in BOOLEAN, NEW t \in 0 .. TimeMod - 1, NEW s \in Sample
  PROVE  /\ Line(o, t, s) \in Lines
         /\ Line(o, t, s).online = o
         /\ Line(o, t, s).sample = s
BY DEF Line, Lines

LEMMA SetOnlineFact ==
  ASSUME NEW l \in Lines, NEW o \in BOOLEAN
  PROVE  /\ [l EXCEPT !.online = o] \in Lines
         /\ [l EXCEPT !.online = o].online = o
         /\ [l EXCEPT !.online = o].sample = l.sample
BY DEF Lines

LEMMA NoLine == Line(FALSE, 0, Unread) \in Lines
<1>1. <<>> \in Sample
  BY DEF Sample
<1>2. 0 \in 0 .. TimeMod - 1
  BY ClockAssumption
<1> QED
  BY <1>1, <1>2, LineFact DEF Unread

(***************************************************************************)
(* Types: where the task is, and what it has in its hands.                 *)
(***************************************************************************)
Points == {"none", "round", "device", "read", "good", "update", "failed",
           "verdict", "delay", "pause", "exit"}
TaskOK ==
  /\ running \in BOOLEAN
  /\ handle \in BOOLEAN
  /\ pc \in Points
  /\ pc = "none" <=> ~handle
  /\ cur \in Device
TableOK ==
  /\ table \in [Device -> Lines]
  /\ clock \in 0 .. TimeMod - 1
  /\ watch \in {"idle", "marking"}
  /\ watchNow \in 0 .. TimeMod - 1
ReadsOK ==
  /\ data \in Sample
  /\ lastValid \in [Device -> Lines]
  /\ hasData \in [Device -> BOOLEAN]
  /\ reading \in [Device -> Nat]
  /\ good \in [Device -> Nat]
  /\ answers \subseteq Device
CountsOK ==
  /\ failCount \in [Device -> 0 .. FailMod - 1]
  /\ streak \in [Device -> 0 .. Threshold]

LEMMA TypeParts == TypeOK <=> TaskOK /\ TableOK /\ ReadsOK /\ CountsOK
BY DEF TypeOK, TaskOK, TableOK, ReadsOK, CountsOK, Points

LEMMA TypePartsNext ==
  TypeOK' <=> TaskOK' /\ TableOK' /\ ReadsOK' /\ CountsOK'
BY DEF TypeOK, TaskOK, TableOK, ReadsOK, CountsOK, Points

LEMMA TypeInit == ASSUME Init PROVE TypeOK
<1>1. 0 \in 0 .. FailMod - 1 /\ 0 \in 0 .. Threshold
      /\ 0 \in 0 .. TimeMod - 1 /\ 1 \in Device
  BY PollingAssumption, ClockAssumption, DeviceFact
<1>2. <<>> \in Sample
  BY DEF Sample
<1>3. TaskOK
  BY <1>1 DEF Init, TaskOK, Points
<1>4. TableOK
  BY <1>1, NoLine DEF Init, TableInit, TableOK
<1>5. ReadsOK
  BY <1>1, <1>2, NoLine DEF Init, ReadsOK
<1>6. CountsOK
  BY <1>1 DEF Init, CountsOK
<1> QED
  BY <1>3, <1>4, <1>5, <1>6, TypeParts

Loops == RoundBegins \/ DelayOver \/ PauseOver \/ Exit
Outside == Start \/ StartFails \/ Stop
Reads == DeviceBegins \/ FieldRead \/ ReadFails
Results == KeepSample \/ UpdateTable \/ CountFailure \/ Verdict

LEMMA NextParts ==
  ASSUME Next
  PROVE  \/ Loops \/ Outside \/ Reads \/ Results
         \/ Tick \/ SlaveTurns \/ CheckOffline
BY DEF Next, PollTask, Loops, Outside, Reads, Results

LEMMA TaskStep == ASSUME TaskOK, [Next]_vars PROVE TaskOK'
<1> USE DEF TaskOK, Points, Go, task
<1>1. CASE RoundBegins
  BY <1>1, DeviceFact DEF RoundBegins
<1>2. CASE DelayOver
  <2>1. cur' \in Device
    BY <1>2, DeviceFact DEF DelayOver
  <2> QED
    BY <1>2, <2>1 DEF DelayOver
<1>3. CASE PauseOver \/ Exit
  BY <1>3 DEF PauseOver, Exit
<1>4. CASE Start
  BY <1>4 DEF Start
<1>5. CASE StartFails \/ Stop
  <2>1. pc' = pc /\ handle' = handle /\ cur' = cur
    BY <1>5 DEF StartFails, Stop
  <2>2. running' \in BOOLEAN
    BY <1>5 DEF StartFails, Stop
  <2> QED
    BY <2>1, <2>2
<1>6. CASE DeviceBegins \/ ReadFails
  BY <1>6 DEF DeviceBegins, ReadFails
<1>7. CASE FieldRead
  <2>1. pc' \in {"read", "good"}
    BY <1>7 DEF FieldRead
  <2> QED
    BY <1>7, <2>1 DEF FieldRead
<1>8. CASE Results
  BY <1>8 DEF Results, KeepSample, UpdateTable, CountFailure, Verdict
<1>9. CASE Tick \/ SlaveTurns \/ CheckOffline \/ UNCHANGED vars
  BY <1>9 DEF Tick, SlaveTurns, CheckOffline, vars
<1> QED
  BY <1>1, <1>2, <1>3, <1>4, <1>5, <1>6, <1>7, <1>8, <1>9, NextParts
     DEF Loops, Outside, Reads

LEMMA CheckFact ==
  ASSUME TableOK, CheckOffline
  PROVE  /\ TableOK'
         /\ \A d \in Device : table'[d].sample = table[d].sample
                              /\ (table'[d].online => table[d].online)
<1>1. CASE CheckBegins
  BY <1>1 DEF CheckBegins, TableOK
<1>2. CASE CheckMarks
  <2>1. ASSUME NEW d \in Device
        PROVE  /\ table'[d] \in Lines
               /\ table'[d].sample = table[d].sample
               /\ table'[d].online => table[d].online
    <3> DEFINE o == table[d].online /\ ~Stale(d)
    <3>1. table[d] \in Lines /\ o \in BOOLEAN /\ (o => table[d].online)
      BY DEF TableOK
    <3>2. table'[d] = [table[d] EXCEPT !.online = o]
      BY <1>2, <3>1 DEF CheckMarks, Lines
    <3> HIDE DEF o
    <3> QED
      BY <3>1, <3>2, SetOnlineFact
  <2>2. table' = [d \in Device |-> [table[d] EXCEPT !.online = @ /\ ~Stale(d)]]
    BY <1>2 DEF CheckMarks
  <2>3. table' \in [Device -> Lines]
    BY <2>1, <2>2
  <2>4. 0 \in 0 .. TimeMod - 1
    BY ClockAssumption
  <2>5. TableOK'
    BY <1>2, <2>3, <2>4 DEF CheckMarks, TableOK
  <2> QED
    BY <2>1, <2>5
<1> QED
  BY <1>1, <1>2 DEF CheckOffline

LEMMA VerdictLine ==
  ASSUME TaskOK, TableOK, ReadsOK, Verdict
  PROVE  /\ table' = [table EXCEPT ![cur] = table'[cur]]
         /\ table'[cur] \in Lines
         /\ table'[cur].online = FALSE
<1>1. lastValid[cur] \in Lines
  BY DEF TaskOK, ReadsOK
<1>2. /\ [lastValid[cur] EXCEPT !.online = FALSE] \in Lines
      /\ [lastValid[cur] EXCEPT !.online = FALSE].online = FALSE
  BY <1>1, SetOnlineFact
<1>3. Line(FALSE, 0, Unread).online = FALSE
  BY DEF Line
<1> QED
  BY <1>2, <1>3, NoLine DEF Verdict, Update, TaskOK, TableOK

LEMMA TableStep ==
  ASSUME TaskOK, TableOK, ReadsOK, [Next]_vars
  PROVE  TableOK'
<1> USE DEF TableOK, watcher
<1>1. CASE Loops \/ Outside \/ Reads \/ SlaveTurns
  BY <1>1 DEF Loops, RoundBegins, DelayOver, PauseOver, Exit, Outside, Start,
     StartFails, Stop, Reads, DeviceBegins, FieldRead, ReadFails, SlaveTurns
<1>2. CASE KeepSample \/ CountFailure \/ UNCHANGED vars
  BY <1>2 DEF KeepSample, CountFailure, vars
<1>3. CASE UpdateTable
  <2>1. table' \in [Device -> Lines]
    BY <1>3 DEF UpdateTable, Update, TaskOK, ReadsOK
  <2> QED
    BY <1>3, <2>1 DEF UpdateTable
<1>4. CASE Verdict
  <2>1. table' \in [Device -> Lines]
    BY <1>4, VerdictLine DEF TaskOK
  <2> QED
    BY <1>4, <2>1 DEF Verdict
<1>5. CASE Tick
  <2>1. TimeMod \in Nat \ {0} /\ clock + 1 \in Nat
    BY ClockAssumption
  <2>2. clock' \in 0 .. TimeMod - 1
    BY <1>5, <2>1, ModFact DEF Tick
  <2> QED
    BY <1>5, <2>2 DEF Tick
<1>6. CASE CheckOffline
  BY <1>6, CheckFact
<1> QED
  BY <1>1, <1>2, <1>3, <1>4, <1>5, <1>6, NextParts DEF Results

LEMMA ReadsStep ==
  ASSUME TaskOK, TableOK, ReadsOK, [Next]_vars
  PROVE  ReadsOK'
<1> USE DEF ReadsOK, kept, calls
<1>0. <<>> \in Sample
  BY DEF Sample
<1>1. CASE Loops \/ Outside \/ Tick \/ CheckOffline
  BY <1>1 DEF Loops, RoundBegins, DelayOver, PauseOver, Exit, Outside, Start,
     StartFails, Stop, Tick, CheckOffline
<1>2. CASE UpdateTable \/ CountFailure \/ Verdict \/ UNCHANGED vars
  BY <1>2 DEF UpdateTable, CountFailure, Verdict, vars
<1>3. CASE SlaveTurns
  BY <1>3 DEF SlaveTurns
<1>4. CASE DeviceBegins
  <2>1. reading[cur] + 1 \in Nat /\ Readings[cur] \in Nat \ {0}
    BY PollingAssumption DEF TaskOK
  <2>2. (reading[cur] + 1) % Readings[cur] \in Nat
    BY <2>1, ModFact
  <2>3. reading' \in [Device -> Nat]
    BY <1>4, <2>2 DEF DeviceBegins
  <2> QED
    BY <1>0, <1>4, <2>3 DEF DeviceBegins
<1>5. CASE FieldRead
  <2>1. reading[cur] \in Nat
    BY DEF TaskOK
  <2>2. data' \in Sample
    BY <1>5, <2>1, AppendFact DEF FieldRead, Sample
  <2>3. good' \in [Device -> Nat]
    BY <1>5, <2>1 DEF FieldRead
  <2> QED
    BY <1>5, <2>2, <2>3 DEF FieldRead
<1>6. CASE ReadFails
  BY <1>0, <1>6 DEF ReadFails
<1>7. CASE KeepSample
  <2>1. Line(TRUE, clock, data) \in Lines
    BY LineFact DEF TableOK
  <2> QED
    BY <1>0, <1>7, <2>1 DEF KeepSample
<1> QED
  BY <1>1, <1>2, <1>3, <1>4, <1>5, <1>6, <1>7, NextParts DEF Reads, Results

LEMMA NextCountFact ==
  ASSUME TaskOK, CountsOK
  PROVE  /\ NextCount \in 0 .. FailMod - 1
         /\ failCount[cur] < Threshold => NextCount = failCount[cur] + 1
<1>1. /\ FailMod \in Nat \ {0} /\ failCount[cur] + 1 \in Nat
      /\ failCount[cur] < Threshold => failCount[cur] + 1 < FailMod
  BY PollingAssumption DEF TaskOK, CountsOK
<1> QED
  BY <1>1, ModFact DEF NextCount

LEMMA CountsStep ==
  ASSUME TaskOK, CountsOK, [Next]_vars
  PROVE  CountsOK'
<1> USE DEF CountsOK, tallies
<1>1. CASE Loops \/ Outside \/ Reads \/ Tick \/ SlaveTurns \/ CheckOffline
  BY <1>1 DEF Loops, RoundBegins, DelayOver, PauseOver, Exit, Outside, Start,
     StartFails, Stop, Reads, DeviceBegins, FieldRead, ReadFails, Tick,
     SlaveTurns, CheckOffline
<1>2. CASE KeepSample \/ Verdict \/ UNCHANGED vars
  BY <1>2 DEF KeepSample, Verdict, vars
<1>3. CASE UpdateTable
  <2>1. 0 \in 0 .. FailMod - 1 /\ 0 \in 0 .. Threshold
    BY PollingAssumption
  <2> QED
    BY <1>3, <2>1 DEF UpdateTable
<1>4. CASE CountFailure
  <2>1. NextCount \in 0 .. FailMod - 1
    BY NextCountFact
  <2>2. \A n \in 0 .. Threshold :
          (IF n < Threshold THEN n + 1 ELSE n) \in 0 .. Threshold
    BY PollingAssumption
  <2> QED
    BY <1>4, <2>1, <2>2 DEF CountFailure
<1> QED
  BY <1>1, <1>2, <1>3, <1>4, NextParts DEF Results

LEMMA TypeStep == TypeOK /\ [Next]_vars => TypeOK'
BY TypeParts, TypePartsNext, TaskStep, TableStep, ReadsStep, CountsStep

(* Every variable stays in its range - the failure count in its byte, the  *)
(* cursor in the table (poll_scheduler.c:93-148) - and a task that has     *)
(* gone has no handle.                                                     *)
THEOREM TypeCorrect == Spec => []TypeOK
<1> QED
  BY TypeInit, TypeStep, PTL DEF Spec

(***************************************************************************)
(* The verdict.  Below the threshold the byte counts what the history      *)
(* counts, so the failure that reaches the threshold is seen; after it the *)
(* byte may run over, but nothing puts the device back but an answer.      *)
(***************************************************************************)
CountExact == \A d \in Device : streak[d] < Threshold => failCount[d] = streak[d]
VerdictInv == CountExact /\ VerdictTimely

LEMMA VerdictStep == TypeOK /\ VerdictInv /\ [Next]_vars => VerdictInv'
<1> SUFFICES ASSUME TypeOK, VerdictInv, [Next]_vars PROVE VerdictInv'
  OBVIOUS
<1>0. TaskOK /\ TableOK /\ ReadsOK /\ CountsOK
  BY TypeParts
<1> USE DEF VerdictInv, CountExact, VerdictTimely, GetAll, tallies, Go
<1>1. CASE Loops
  BY <1>1 DEF Loops, RoundBegins, DelayOver, PauseOver, Exit
<1>2. CASE Outside \/ Tick \/ SlaveTurns
  BY <1>0, <1>2 DEF Outside, Start, StartFails, Stop, Tick, SlaveTurns, TaskOK
<1>3. CASE CheckOffline
  BY <1>0, <1>3, CheckFact DEF CheckOffline
<1>4. CASE Reads \/ KeepSample
  BY <1>4 DEF Reads, DeviceBegins, FieldRead, ReadFails, KeepSample
<1>5. CASE UpdateTable
  BY <1>0, <1>5, PollingAssumption
     DEF UpdateTable, Update, CountsOK, TaskOK, TableOK
<1>6. CASE CountFailure
  <2>1. /\ streak[cur] \in 0 .. Threshold
        /\ streak[cur] < Threshold => NextCount = streak[cur] + 1
    BY <1>0, NextCountFact DEF TaskOK, CountsOK
  <2>2. ASSUME NEW d \in Device, streak'[d] < Threshold
        PROVE  failCount'[d] = streak'[d]
    BY <1>0, <1>6, <2>1, <2>2, PollingAssumption
       DEF CountFailure, CountsOK, TaskOK
  <2>3. ASSUME NEW d \in Device, table'[d].online, ~(streak'[d] < Threshold)
        PROVE  pc' = "verdict" /\ cur' = d
    <3>1. table[d].online /\ pc = "failed" /\ cur' = cur
      BY <1>6, <2>3 DEF CountFailure
    <3>2. streak[d] < Threshold
      BY <3>1
    <3>3. d = cur
      BY <1>0, <1>6, <2>3, <3>2 DEF CountFailure, CountsOK
    <3>4. streak'[cur] = streak[cur] + 1
      BY <1>0, <1>6, <3>2, <3>3 DEF CountFailure, CountsOK, TaskOK
    <3>5. NextCount >= Threshold
      BY <2>1, <2>3, <3>2, <3>3, <3>4, PollingAssumption
    <3> QED
      BY <1>6, <3>1, <3>3, <3>5 DEF CountFailure
  <2> QED
    BY <2>2, <2>3
<1>7. CASE Verdict
  BY <1>0, <1>7, VerdictLine DEF Verdict, TaskOK, TableOK
<1>8. CASE UNCHANGED vars
  BY <1>8 DEF vars
<1> QED
  BY <1>1, <1>2, <1>3, <1>4, <1>5, <1>6, <1>7, <1>8, NextParts DEF Results

(* README.md:8, poll_scheduler.c:77-78: a device that failed Threshold     *)
(* times in a row is not reported as online, for any threshold and any     *)
(* width of the counter above it.                                          *)
THEOREM VerdictInTime == Spec => []VerdictTimely
<1>1. Init => VerdictInv
  BY DEF Init, TableInit, VerdictInv, CountExact, VerdictTimely, GetAll, Line
<1>2. VerdictInv => VerdictTimely
  BY DEF VerdictInv
<1> QED
  BY <1>1, <1>2, VerdictStep, TypeCorrect, PTL DEF Spec

(***************************************************************************)
(* The samples.  Inside a call all fields read so far are of that call;    *)
(* what leaves it is whole; and until the table has it, the device is the  *)
(* one the task is at.                                                     *)
(***************************************************************************)
CallOfOne ==
  pc = "read" => /\ Len(data) < MapCount[cur]
                 /\ \A i \in 1 .. Len(data) : data[i] = reading[cur]
CallWhole == pc = "good" => data = WholeSample(cur, good[cur])
KeptWhole == pc = "update" => lastValid[cur].sample = WholeSample(cur, good[cur])
SampleInv == CallOfOne /\ CallWhole /\ KeptWhole /\ ReportsLastReading

LEMMA WholeFact ==
  ASSUME NEW d \in Device, NEW r, NEW s \in Sample,
         Len(s) = MapCount[d], \A i \in 1 .. Len(s) : s[i] = r
  PROVE  s = WholeSample(d, r)
<1>1. s = [i \in 1 .. Len(s) |-> s[i]]
  BY DEF Sample
<1> QED
  BY <1>1 DEF WholeSample

LEMMA SampleStep == TypeOK /\ SampleInv /\ [Next]_vars => SampleInv'
<1> SUFFICES ASSUME TypeOK, SampleInv, [Next]_vars PROVE SampleInv'
  OBVIOUS
<1>0. TaskOK /\ TableOK /\ ReadsOK
  BY TypeParts
<1> USE DEF SampleInv, CallOfOne, CallWhole, KeptWhole, ReportsLastReading,
            GetAll, WholeSample, kept, calls, Go
<1>1. CASE Loops
  BY <1>1 DEF Loops, RoundBegins, DelayOver, PauseOver, Exit
<1>2. CASE Outside
  BY <1>0, <1>2 DEF Outside, Start, StartFails, Stop, TaskOK
<1>3. CASE Tick \/ SlaveTurns
  BY <1>3 DEF Tick, SlaveTurns
<1>4. CASE CheckOffline
  BY <1>0, <1>4, CheckFact DEF CheckOffline
<1>5. CASE DeviceBegins
  <2>1. MapCount[cur] > 0 /\ Len(<<>>) = 0
    BY <1>0, MapCountFact DEF TaskOK
  <2>2. CallOfOne'
    BY <1>5, <2>1 DEF DeviceBegins
  <2> QED
    BY <1>5, <2>2 DEF DeviceBegins
<1>6. CASE FieldRead
  <2>1. /\ cur \in Device /\ reading[cur] \in Nat /\ data \in Seq(Nat)
        /\ good \in [Device -> Nat]
    BY <1>0 DEF TaskOK, ReadsOK, Sample
  <2>2. /\ data' \in Sample
        /\ Len(data') = Len(data) + 1
        /\ \A i \in 1 .. Len(data') : data'[i] = reading[cur]
    BY <1>6, <2>1, AppendFact DEF FieldRead, Sample
  <2>3. MapCount[cur] \in Nat /\ Len(data) \in Nat
    BY <2>1, MapCountFact
  <2>4. CASE Len(data') = MapCount[cur]
    <3>1. data' = WholeSample(cur, reading[cur])
      BY <2>1, <2>2, <2>4, WholeFact
    <3>2. /\ good' = [good EXCEPT ![cur] = reading[cur]]
          /\ pc' = "good" /\ cur' = cur /\ table' = table
      BY <1>6, <2>4 DEF FieldRead
    <3> QED
      BY <1>6, <2>1, <3>1, <3>2
  <2>5. CASE Len(data') # MapCount[cur]
    BY <1>6, <2>2, <2>3, <2>5 DEF FieldRead
  <2> QED
    BY <2>4, <2>5
<1>7. CASE ReadFails
  BY <1>7 DEF ReadFails
<1>8. CASE KeepSample
  <2>1. lastValid'[cur].sample = data
    BY <1>0, <1>8 DEF KeepSample, TaskOK, ReadsOK, Line
  <2> QED
    BY <1>8, <2>1 DEF KeepSample
<1>9. CASE UpdateTable
  BY <1>0, <1>9 DEF UpdateTable, Update, TaskOK, TableOK
<1>10. CASE CountFailure
  BY <1>10 DEF CountFailure
<1>11. CASE Verdict
  BY <1>0, <1>11, VerdictLine DEF Verdict, TaskOK, TableOK
<1>12. CASE UNCHANGED vars
  BY <1>12 DEF vars
<1> QED
  BY <1>1, <1>2, <1>3, <1>4, <1>5, <1>6, <1>7, <1>8, <1>9, <1>10, <1>11,
     <1>12, NextParts
     DEF Reads, Results

(* app_task.c:27: what app_task is handed was read in one call, the last   *)
(* the slave answered in full, for any number of devices and fields.       *)
THEOREM LastReadingReported == Spec => []ReportsLastReading
<1>1. Init => SampleInv
  BY DEF Init, TableInit, SampleInv, CallOfOne, CallWhole, KeptWhole,
     ReportsLastReading, GetAll, Line
<1>2. SampleInv => ReportsLastReading
  BY DEF SampleInv
<1> QED
  BY <1>1, <1>2, SampleStep, TypeCorrect, PTL DEF Spec
=============================================================================
