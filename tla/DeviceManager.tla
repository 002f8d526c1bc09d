--------------------------- MODULE DeviceManager ----------------------------
(***************************************************************************)
(* The device table of manager/device_manager.c.  poll_scheduler writes it *)
(* and app_task asks it for the devices that are online, each under the    *)
(* mutex and so in one step.  device_manager_check_offline reads the clock *)
(* before it takes the mutex, so it is two steps.                          *)
(***************************************************************************)
EXTENDS Integers, Sequences

CONSTANTS
  Device,       \* the ids in the table, 1 .. 3 in the code
  TimeMod,      \* esp_timer_get_time() / 1000 is kept modulo this (2^32)
  Timeout       \* OFFLINE_TIMEOUT_MS

ASSUME ClockAssumption ==
  /\ TimeMod \in Nat \ {0}
  /\ Timeout \in Nat

VARIABLES
  table,        \* device_table
  clock,        \* the millisecond clock
  watch,        \* where a caller of device_manager_check_offline is
  watchNow      \* its now; 0 while there is no caller

(* The values of a device nobody has read yet: what device_manager_init    *)
(* makes up, or zeros.                                                     *)
Unread == <<>>

(* A line of the table.                                                    *)
Line(online, ts, sample) == [online |-> online, ts |-> ts, sample |-> sample]

TableInit ==
  /\ table = [d \in Device |-> Line(FALSE, 0, Unread)]
  /\ clock \in 0 .. TimeMod - 1
  /\ watch = "idle"
  /\ watchNow = 0

(* device_manager_update                                                   *)
Update(d, line) == table' = [table EXCEPT ![d] = line]

(* device_manager_get_all: the devices app_task reports.                   *)
GetAll == {d \in Device : table[d].online}

(* now - ts > OFFLINE_TIMEOUT_MS, in unsigned arithmetic.                  *)
Stale(d) ==
  /\ table[d].online
  /\ table[d].ts # 0
  /\ (watchNow + TimeMod - table[d].ts) % TimeMod > Timeout

(* device_manager_check_offline: read the clock...                         *)
CheckBegins ==
  /\ watch = "idle"
  /\ watch' = "marking"
  /\ watchNow' = clock
  /\ UNCHANGED <<table, clock>>

(* ...and, with the mutex taken, mark what is out of date.                 *)
CheckMarks ==
  /\ watch = "marking"
  /\ watch' = "idle"
  /\ table' = [d \in Device |-> [table[d] EXCEPT !.online = @ /\ ~Stale(d)]]
  /\ watchNow' = 0
  /\ UNCHANGED clock
=============================================================================
