----------------------------- MODULE ClientLife -----------------------------
(***************************************************************************)
(* What the rest of the firmware may rely on of the state machine: when    *)
(* the MQTT client exists, and when s_online lets cache_task publish.  A   *)
(* client is created, connects at most once (automatic reconnection is     *)
(* disabled, mqtt_app.c:132) and is destroyed; it is never destroyed, nor  *)
(* a new one created, while s_online is set.                               *)
(*                                                                         *)
(* StateMachine implements this module, and Gateway is built on it.        *)
(***************************************************************************)
VARIABLES
  online,       \* s_online
  conn          \* the client: none, connecting, connected or lost

vars == <<online, conn>>

Init ==
  /\ online = FALSE
  /\ conn = "none"

(* mqtt_app_start                                                          *)
Start ==
  /\ ~online
  /\ conn = "none"
  /\ conn' = "connecting"
  /\ UNCHANGED online

(* The client's own task.                                                  *)
Turn(from, to) ==
  /\ conn = from
  /\ conn' = to
  /\ UNCHANGED online

Join == Turn("connecting", "connected")
Lose == Turn("connecting", "lost") \/ Turn("connected", "lost")

(* cache_task_set_online.  News of the connection come late, so that it    *)
(* may be lost again by now; after a drain that came too early the news    *)
(* may even be an old client's.                                            *)
GoOnline ==
  /\ conn # "none"
  /\ online' = TRUE
  /\ UNCHANGED conn

GoOffline ==
  /\ online' = FALSE
  /\ UNCHANGED conn

(* mqtt_app_stop                                                           *)
Destroy ==
  /\ ~online
  /\ conn' = "none"
  /\ UNCHANGED online

Next == Start \/ Join \/ Lose \/ GoOnline \/ GoOffline \/ Destroy

Spec == Init /\ [][Next]_vars
=============================================================================
