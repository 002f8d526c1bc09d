------------------------------ MODULE Polling -------------------------------
(***************************************************************************)
(* poll_task of scheduler/poll_scheduler.c over the device table: one      *)
(* round reads every device, field by field, counts failures in a row and  *)
(* writes the table.  poll_scheduler_start and poll_scheduler_stop may be  *)
(* called at any time, although the firmware itself only starts it.        *)
(*                                                                         *)
(* What a read goes through on the line is the subject of Modbus: here a   *)
(* field is answered or the read fails.  A value is known by the call of   *)
(* modbus_read_device that read it.                                        *)
(***************************************************************************)
EXTENDS DeviceManager

CONSTANTS
  MapCount,     \* map_count: how many fields each device has
  Threshold,    \* OFFLINE_THRESHOLD, 3 in the code
  FailMod,      \* s_fail_count is a uint8_t: 256
  Readings      \* bound: how many calls of modbus_read_device in a row are
                \* told apart, for each device

Devices == Len(MapCount)

ASSUME PollingAssumption ==
  /\ MapCount \in Seq(Nat \ {0})
  /\ Device = 1 .. Devices
  /\ Devices > 0
  /\ Threshold \in Nat \ {0}
  /\ FailMod \in Nat /\ FailMod > Threshold
  /\ Readings \in [Device -> Nat \ {0}]

VARIABLES
  running,      \* s_running
  handle,       \* s_task_handle is not NULL
  pc,           \* where poll_task is
  cur,          \* the device it is at
  data,         \* the fields read so far in this call; nothing between calls
  failCount,    \* s_fail_count
  lastValid,    \* s_last_valid
  hasData,      \* s_has_data
  answers,      \* the devices that answer on the line
  reading,      \* the number of the latest call per device
  good,         \* history: the latest call that was answered in full
  streak        \* history: failures in a row, up to Threshold

task == <<running, handle>>
tallies == <<failCount, streak>>
kept == <<lastValid, hasData>>
calls == <<reading, good>>
watcher == <<watch, watchNow>>
vars == <<table, clock, watcher, task, pc, cur, data, tallies, kept, calls,
          answers>>

Init ==
  /\ TableInit
  /\ running = TRUE
  /\ handle = TRUE
  /\ pc = "round"
  /\ cur = 1
  /\ data = <<>>
  /\ failCount = [d \in Device |-> 0]
  /\ streak = [d \in Device |-> 0]
  /\ lastValid = [d \in Device |-> Line(FALSE, 0, Unread)]
  /\ hasData = [d \in Device |-> FALSE]
  /\ reading = [d \in Device |-> 0]
  /\ good = [d \in Device |-> 0]
  /\ answers \in SUBSET Device

Go(from, to) == pc = from /\ pc' = to

(***************************************************************************)
(* The loops of poll_task.  s_running is tested before every round and     *)
(* before every device.                                                    *)
(***************************************************************************)
RoundBegins ==
  /\ Go("round", IF running THEN "device" ELSE "exit")
  /\ cur' = 1
  /\ UNCHANGED <<table, clock, watcher, task, data, tallies, kept, calls,
                 answers>>

(* Mutant: a device that is offline is asked no more.                      *)
DeviceSkipsOffline ==
  /\ Go("device", IF ~running THEN "pause"
                  ELSE IF failCount[cur] < Threshold THEN "read" ELSE "delay")
  /\ data' = <<>>
  /\ reading' = IF pc' = "read"
                  THEN [reading EXCEPT ![cur] = (@ + 1) % Readings[cur]]
                  ELSE reading
  /\ UNCHANGED <<table, clock, watcher, task, cur, tallies, kept, good,
                 answers>>

DeviceBegins ==
  /\ Go("device", IF running THEN "read" ELSE "pause")
  /\ data' = <<>>
  /\ reading' = IF running
                  THEN [reading EXCEPT ![cur] = (@ + 1) % Readings[cur]]
                  ELSE reading
  /\ UNCHANGED <<table, clock, watcher, task, cur, tallies, kept, good,
                 answers>>

(* vTaskDelay between two devices, and between two rounds.                 *)
DelayOver ==
  /\ Go("delay", IF cur < Devices THEN "device" ELSE "pause")
  /\ cur' = IF cur < Devices THEN cur + 1 ELSE cur
  /\ UNCHANGED <<table, clock, watcher, task, data, tallies, kept, calls,
                 answers>>

PauseOver ==
  /\ Go("pause", "round")
  /\ UNCHANGED <<table, clock, watcher, task, cur, data, tallies, kept, calls,
                 answers>>

Exit ==
  /\ Go("exit", "none")
  /\ handle' = FALSE
  /\ UNCHANGED <<table, clock, watcher, running, cur, data, tallies, kept,
                 calls, answers>>

(***************************************************************************)
(* modbus_read_device: one request for each field of the device.           *)
(***************************************************************************)
FieldRead ==
  /\ pc = "read"
  /\ cur \in answers
  /\ data' = Append(data, reading[cur])
  /\ IF Len(data') = MapCount[cur]
       THEN pc' = "good" /\ good' = [good EXCEPT ![cur] = reading[cur]]
       ELSE UNCHANGED <<pc, good>>
  /\ UNCHANGED <<table, clock, watcher, task, cur, tallies, kept, reading,
                 answers>>

(* Mutant: a read that fails half-way hands out what it has.               *)
ReadFailsHalfway ==
  /\ Go("read", IF data = <<>> THEN "failed" ELSE "good")
  /\ UNCHANGED <<table, clock, watcher, task, cur, data, tallies, kept, calls,
                 answers>>

(* No answer, a damaged one, or an exception: the fields read are dropped. *)
ReadFails ==
  /\ Go("read", "failed")
  /\ data' = <<>>
  /\ UNCHANGED <<table, clock, watcher, task, cur, tallies, kept, calls,
                 answers>>

(***************************************************************************)
(* What poll_task makes of it.                                             *)
(***************************************************************************)
KeepSample ==
  /\ Go("good", "update")
  /\ lastValid' = [lastValid EXCEPT ![cur] = Line(TRUE, clock, data)]
  /\ hasData' = [hasData EXCEPT ![cur] = TRUE]
  /\ data' = <<>>
  /\ UNCHANGED <<table, clock, watcher, task, cur, tallies, calls, answers>>

UpdateTable ==
  /\ Go("update", "delay")
  /\ Update(cur, lastValid[cur])
  /\ failCount' = [failCount EXCEPT ![cur] = 0]
  /\ streak' = [streak EXCEPT ![cur] = 0]
  /\ UNCHANGED <<clock, watcher, task, cur, data, kept, calls, answers>>

(* The count after one more failure.                                       *)
NextCount == (failCount[cur] + 1) % FailMod

CountFailure ==
  /\ Go("failed", IF NextCount >= Threshold THEN "verdict" ELSE "delay")
  /\ failCount' = [failCount EXCEPT ![cur] = NextCount]
  /\ streak' = [streak EXCEPT ![cur] = IF @ < Threshold THEN @ + 1 ELSE @]
  /\ UNCHANGED <<table, clock, watcher, task, cur, data, kept, calls, answers>>

(* Mutant: the line of the table is written back as it was kept.           *)
VerdictKeepsOnline ==
  /\ Go("verdict", "delay")
  /\ Update(cur, lastValid[cur])
  /\ UNCHANGED <<clock, watcher, task, cur, data, tallies, kept, calls,
                 answers>>

(* The device is offline: its last sample stays, or zeros.                 *)
Verdict ==
  /\ Go("verdict", "delay")
  /\ Update(cur, IF hasData[cur]
                   THEN [lastValid[cur] EXCEPT !.online = FALSE]
                   ELSE Line(FALSE, 0, Unread))
  /\ UNCHANGED <<clock, watcher, task, cur, data, tallies, kept, calls,
                 answers>>

(***************************************************************************)
(* poll_scheduler_start and poll_scheduler_stop.                           *)
(***************************************************************************)
(* A task that is there, even on its way out, is not started again.        *)
Start ==
  /\ ~handle
  /\ running' = TRUE
  /\ handle' = TRUE
  /\ pc' = "round"
  /\ UNCHANGED <<table, clock, watcher, cur, data, tallies, kept, calls,
                 answers>>

(* xTaskCreate has no memory, and nobody looks.                            *)
StartFails ==
  /\ ~handle
  /\ running' = TRUE
  /\ UNCHANGED <<table, clock, watcher, handle, pc, cur, data, tallies, kept,
                 calls, answers>>

Stop ==
  /\ handle
  /\ running' = FALSE
  /\ UNCHANGED <<table, clock, watcher, handle, pc, cur, data, tallies, kept,
                 calls, answers>>

(***************************************************************************)
(* The world: time passes, and slaves come and go.                         *)
(***************************************************************************)
Tick ==
  /\ clock' = (clock + 1) % TimeMod
  /\ UNCHANGED <<table, watcher, task, pc, cur, data, tallies, kept, calls,
                 answers>>

SlaveTurns ==
  /\ \E d \in Device :
       answers' = IF d \in answers THEN answers \ {d} ELSE answers \cup {d}
  /\ UNCHANGED <<table, clock, watcher, task, pc, cur, data, tallies, kept,
                 calls>>

(* A task that calls device_manager_check_offline.                         *)
CheckOffline ==
  /\ CheckBegins \/ CheckMarks
  /\ UNCHANGED <<task, pc, cur, data, tallies, kept, calls, answers>>

PollTask ==
  \/ RoundBegins \/ DeviceBegins \/ DelayOver \/ PauseOver \/ Exit
  \/ FieldRead \/ ReadFails \/ KeepSample \/ UpdateTable
  \/ CountFailure \/ Verdict

Next ==
  \/ PollTask
  \/ Start \/ StartFails \/ Stop
  \/ Tick \/ SlaveTurns \/ CheckOffline

(* A slave that answers is read wrongly only so often.                     *)
Noise == ReadFails /\ cur \in answers

Spec == Init /\ [][Next]_vars
LiveSpec == Spec /\ WF_vars(PollTask) /\ <>[][~Noise]_vars

(***************************************************************************)
(* Properties.                                                             *)
(***************************************************************************)
Sample == Seq(Nat)
Lines == [online : BOOLEAN, ts : 0 .. TimeMod - 1, sample : Sample]

(* Every variable in its range; a task that has gone has no handle.        *)
TypeOK ==
  /\ table \in [Device -> Lines]
  /\ clock \in 0 .. TimeMod - 1
  /\ watch \in {"idle", "marking"}
  /\ watchNow \in 0 .. TimeMod - 1
  /\ running \in BOOLEAN
  /\ handle \in BOOLEAN
  /\ pc \in {"none", "round", "device", "read", "good", "update", "failed",
             "verdict", "delay", "pause", "exit"}
  /\ pc = "none" <=> ~handle
  /\ cur \in Device
  /\ data \in Sample
  /\ failCount \in [Device -> 0 .. FailMod - 1]
  /\ streak \in [Device -> 0 .. Threshold]
  /\ lastValid \in [Device -> Lines]
  /\ hasData \in [Device -> BOOLEAN]
  /\ reading \in [Device -> Nat]
  /\ good \in [Device -> Nat]
  /\ answers \subseteq Device

(* README.md:8, poll_scheduler.c:77-78: a device that failed Threshold     *)
(* times in a row is offline before the next device is asked, and stays    *)
(* so though its counter is a byte that runs over.                         *)
VerdictTimely ==
  \A d \in GetAll :
    \/ streak[d] < Threshold
    \/ pc = "verdict" /\ cur = d

(* app_task.c:27: whatever moment app_task asks, every sample it is handed *)
(* was read from the slave, all fields of it in one call, and that call is *)
(* the last one the slave answered in full - never the values made up by   *)
(* device_manager_init, zeros, or half a reading.                          *)
WholeSample(d, r) == [i \in 1 .. MapCount[d] |-> r]
ReportsLastReading ==
  \A d \in GetAll :
    \/ table[d].sample = WholeSample(d, good[d])
    \/ pc \in {"good", "update"} /\ cur = d

(* The task is there and nobody stops it.                                  *)
Serving == running /\ handle

(* README.md:8: while the task is left alone, a device that answers no     *)
(* more is offline in the end, for good - whatever its counter runs        *)
(* through, and whoever else marks the table.                              *)
DeadGoesOffline ==
  \A d \in Device :
    <>[](Serving /\ d \notin answers) => <>[](d \notin GetAll)

(* poll_scheduler.c:117-121: while the task is left alone, a device that   *)
(* answers again comes back, however long it was away and however often a  *)
(* check by the clock takes it offline.                                    *)
AliveComesOnline ==
  \A d \in Device :
    <>[](Serving /\ d \in answers) => []<>(d \in GetAll)
=============================================================================
