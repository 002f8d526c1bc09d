---------------------------- MODULE StateMachine ----------------------------
(***************************************************************************)
(* The connection supervisor: app/state_machine.c, the WiFi driver wrapper *)
(* drivers/wifi.c and the life of the MQTT client in protocol/mqtt_app.c.  *)
(*                                                                         *)
(* Three tasks meet in one event queue.  The state machine task runs one   *)
(* handler per state and pc says where it is; the event task hands WiFi    *)
(* events (in air) to wifi_event_handler; the client task of esp-mqtt runs *)
(* mqtt_event_handler (callback).  The radio, the client's connection, the *)
(* access point and the broker belong to the world outside.                *)
(***************************************************************************)
EXTENDS Naturals, Sequences

CONSTANT QueueDepth   \* EVT_QUEUE_DEPTH, 10 in the code

ASSUME QueueAssumption == QueueDepth \in Nat \ {0}

WifiUp   == "WIFI_CONNECTED"
WifiDown == "WIFI_DISCONNECTED"
MqttUp   == "MQTT_CONNECTED"
MqttDown == "MQTT_DISCONNECTED"
Events == {WifiUp, WifiDown, MqttUp, MqttDown}

States == {"INIT", "WIFI_CONN", "MQTT_CONN", "RUNNING"}

(* Mutant: after a stop the WiFi is waited for, but not started again.     *)
WakesWithoutStart ==
           [wifi_start_sleep   |-> "wifi_start",
            wifi_stopped_sleep |-> "wifi_wait",
            wifi_retry_sleep   |-> "wifi_wait",
            mqtt_start_sleep   |-> "mqtt_start",
            mqtt_stopped_sleep |-> "mqtt_restart",
            mqtt_retry_sleep   |-> "mqtt_wait"]

(* Where a sleeping state machine task (vTaskDelay) goes on.               *)
WakesAt == [wifi_start_sleep   |-> "wifi_start",
            wifi_stopped_sleep |-> "wifi_restart",
            wifi_retry_sleep   |-> "wifi_wait",
            mqtt_start_sleep   |-> "mqtt_start",
            mqtt_stopped_sleep |-> "mqtt_restart",
            mqtt_retry_sleep   |-> "mqtt_wait"]

(* What the client task is doing in mqtt_event_handler: nothing, about to  *)
(* test s_sys_event_queue, or past that test and about to send.            *)
Quiet == <<"quiet", "none">>
Callbacks == {Quiet} \cup ({"test", "send"} \X {MqttUp, MqttDown})

VARIABLES
  state,        \* s_current_state
  pc,           \* where the state machine task is inside its handler
  goal,         \* where it goes once the client is stopped
  queue,        \* s_event_queue
  listening,    \* s_sys_event_queue is not NULL
  online,       \* s_online of cache_task
  air,          \* WiFi events the event task has not handled yet
  radio,        \* the WiFi driver: "off", "idle", "connecting" or "up"
  conn,         \* "none" when s_client is NULL, else its connection
  callback,     \* the client task in mqtt_event_handler
  ap, broker,   \* the access point and the broker can be reached
  unclean       \* history: the last restart of the WiFi failed to stop it,
                \* or its drain came before an event that was raised

flags == <<listening, online>>
wifi == <<air, radio>>
client == <<conn, callback>>
world == <<ap, broker, unclean>>
vars == <<state, pc, goal, queue, flags, wifi, client, world>>

Init ==
  /\ state = "INIT"
  /\ pc = "init"
  /\ goal = "init"
  /\ queue = <<>>
  /\ listening = FALSE
  /\ online = FALSE
  /\ air = <<>>
  /\ radio = "off"
  /\ conn = "none"
  /\ callback = Quiet
  /\ ap \in BOOLEAN
  /\ broker \in BOOLEAN
  /\ unclean = FALSE

(***************************************************************************)
(* The event queue.  A sender does not wait: a full queue drops the event. *)
(***************************************************************************)
Send(ev) ==
  queue' = IF Len(queue) < QueueDepth THEN Append(queue, ev) ELSE queue

(* The task at point p takes an event of evs out of the queue.             *)
Receive(p, evs) ==
  /\ pc = p
  /\ queue # <<>>
  /\ Head(queue) \in evs

TimeOut(p) == pc = p /\ queue = <<>>

(* drain_event_queue, and the mutant that leaves everything in it.         *)
DrainNothing == UNCHANGED queue
Drain == queue' = <<>>

Go(from, to) == pc = from /\ pc' = to

(* A delay of a second or more outlasts the event task.                    *)
Wake ==
  /\ pc \in DOMAIN WakesAt
  /\ air = <<>>
  /\ pc' = WakesAt[pc]
  /\ UNCHANGED <<state, goal, queue, flags, wifi, client, world>>

(***************************************************************************)
(* STATE_INIT.  A failure of wifi_driver_init restarts the chip.           *)
(***************************************************************************)
HandleInit ==
  /\ Go("init", "wifi_start")
  /\ state' = "WIFI_CONN"
  /\ UNCHANGED <<goal, queue, flags, wifi, client, world>>

InitFails ==
  /\ Go("init", "reset")
  /\ UNCHANGED <<state, goal, queue, flags, wifi, client, world>>

EspRestart ==
  /\ Go("reset", "init")
  /\ UNCHANGED <<state, goal, queue, flags, wifi, client, world>>

(***************************************************************************)
(* STATE_WIFI_CONN                                                         *)
(***************************************************************************)
(* wifi_driver_start, called when the handler is entered and after a stop. *)
WifiDriverStart(from) ==
  /\ Go(from, "wifi_wait")
  /\ radio' = IF radio \in {"off", "idle"} THEN "connecting" ELSE radio
  /\ UNCHANGED <<state, goal, queue, flags, air, client, world>>

(* esp_wifi_start or esp_wifi_connect refuses.                             *)
WifiDriverStartFails(from, to) ==
  /\ Go(from, to)
  /\ radio' \in {radio, IF radio = "off" THEN "idle" ELSE radio}
  /\ UNCHANGED <<state, goal, queue, flags, air, client, world>>

WifiStart == WifiDriverStart("wifi_start")
WifiStartFails == WifiDriverStartFails("wifi_start", "wifi_start_sleep")
WifiRestart == WifiDriverStart("wifi_restart")
WifiRestartFails == WifiDriverStartFails("wifi_restart", "wifi_retry_sleep")

WifiConnected ==
  /\ Receive("wifi_wait", {WifiUp})
  /\ queue' = Tail(queue)
  /\ state' = "MQTT_CONN"
  /\ pc' = "mqtt_start"
  /\ UNCHANGED <<goal, flags, wifi, client, world>>

(* Any other event, and the queue is drained; or 5 s without an event.     *)
WifiAttemptOver ==
  /\ Receive("wifi_wait", Events \ {WifiUp}) \/ TimeOut("wifi_wait")
  /\ Drain
  /\ pc' = "wifi_stop"
  /\ UNCHANGED <<state, goal, flags, wifi, client, world>>

(* wifi_driver_stop: a station that is connecting or connected answers     *)
(* esp_wifi_stop with a DISCONNECTED event.                                *)
WifiDriverStop ==
  /\ Go("wifi_stop", "wifi_drain")
  /\ radio' = "off"
  /\ air' = IF radio \in {"connecting", "up"} THEN Append(air, WifiDown) ELSE air
  /\ UNCHANGED <<state, goal, queue, flags, client, world>>

WifiDriverStopFails ==
  /\ Go("wifi_stop", "wifi_drain")
  /\ UNCHANGED <<state, goal, queue, flags, wifi, client, world>>

WifiDrain ==
  /\ Go("wifi_drain", "wifi_stopped_sleep")
  /\ Drain
  /\ unclean' = (radio # "off" \/ air # <<>>)
  /\ UNCHANGED <<state, goal, flags, wifi, client, ap, broker>>

(***************************************************************************)
(* STATE_MQTT_CONN                                                         *)
(***************************************************************************)
(* Mutant: the event queue of the stopped client is not handed over again. *)
MqttAppStartDeaf(from) ==
  /\ Go(from, "mqtt_wait")
  /\ callback = Quiet
  /\ conn' = "connecting"
  /\ UNCHANGED <<state, goal, queue, flags, wifi, callback, world>>

(* mqtt_app_start.  A client that is still there is stopped and destroyed, *)
(* which waits for its callback.                                           *)
MqttAppStart(from) ==
  /\ Go(from, "mqtt_wait")
  /\ callback = Quiet
  /\ listening' = TRUE
  /\ conn' = "connecting"
  /\ UNCHANGED <<state, goal, queue, online, wifi, callback, world>>

(* esp_mqtt_client_init has no memory for a client.                        *)
MqttAppStartFails(from, to) ==
  /\ Go(from, to)
  /\ callback = Quiet
  /\ listening' = TRUE
  /\ conn' = "none"
  /\ UNCHANGED <<state, goal, queue, online, wifi, callback, world>>

MqttStart == MqttAppStart("mqtt_start")
MqttStartFails == MqttAppStartFails("mqtt_start", "mqtt_start_sleep")
MqttRestart == MqttAppStart("mqtt_restart")
MqttRestartFails == MqttAppStartFails("mqtt_restart", "mqtt_retry_sleep")

MqttConnected ==
  /\ Receive("mqtt_wait", {MqttUp})
  /\ queue' = Tail(queue)
  /\ online' = TRUE
  /\ state' = "RUNNING"
  /\ pc' = "run_wait"
  /\ UNCHANGED <<goal, listening, wifi, client, world>>

(* The task takes an event of evs, leaves s_online at on, and goes on to    *)
(* stop the client on its way to g.                                        *)
GiveUpClient(p, evs, on, g) ==
  /\ Receive(p, evs)
  /\ queue' = Tail(queue)
  /\ online' = on
  /\ pc' = "client_deaf"
  /\ goal' = g
  /\ UNCHANGED <<state, listening, wifi, client, world>>

WifiLostWhileConnecting ==
  GiveUpClient("mqtt_wait", {WifiDown}, online, "wifi_undrained")

(* Any other event, or 3 s without one.                                    *)
MqttAttemptOver ==
  \/ GiveUpClient("mqtt_wait", Events \ {MqttUp, WifiDown}, online, "retry")
  \/ /\ TimeOut("mqtt_wait")
     /\ pc' = "client_deaf"
     /\ goal' = "retry"
     /\ UNCHANGED <<state, queue, flags, wifi, client, world>>

(* mqtt_app_stop: first no event is let through any more...                *)
MqttAppStop ==
  /\ Go("client_deaf", "client_stop")
  /\ listening' = FALSE
  /\ UNCHANGED <<state, goal, queue, online, wifi, client, world>>

(* ...then esp_mqtt_client_stop waits for the client task, and the client  *)
(* is destroyed.                                                           *)
ClientDestroyed ==
  /\ Go("client_stop", "client_gone")
  /\ callback = Quiet
  /\ conn' = "none"
  /\ UNCHANGED <<state, goal, queue, flags, wifi, callback, world>>

(* Only line 197 goes back without draining the queue.                     *)
BackToWifi ==
  /\ Go("client_gone", "wifi_start")
  /\ goal \in {"wifi", "wifi_undrained"}
  /\ IF goal = "wifi" THEN Drain ELSE UNCHANGED queue
  /\ state' = "WIFI_CONN"
  /\ UNCHANGED <<goal, flags, wifi, client, world>>

BackTo(st) ==
  /\ pc = "client_gone"
  /\ goal \in {"mqtt", "retry"}
  /\ Drain
  /\ state' = st
  /\ pc' = IF goal = "mqtt" THEN "mqtt_start" ELSE "mqtt_stopped_sleep"
  /\ UNCHANGED <<goal, flags, wifi, client, world>>

BackToMqtt == BackTo("MQTT_CONN")

(***************************************************************************)
(* STATE_RUNNING                                                           *)
(***************************************************************************)
(* Mutant: the cache task is not told.                                     *)
WifiLostKeepsOnline == GiveUpClient("run_wait", {WifiDown}, online, "wifi")

WifiLost == GiveUpClient("run_wait", {WifiDown}, FALSE, "wifi")

(* Mutant: the loss of the broker is taken for the loss of the WiFi.       *)
MqttLostBacksToWifi == GiveUpClient("run_wait", {MqttDown}, FALSE, "wifi")

(* Mutant: handle_running has no branch for the event.                     *)
MqttLostIgnored ==
  /\ Receive("run_wait", {MqttDown})
  /\ queue' = Tail(queue)
  /\ UNCHANGED <<state, pc, goal, flags, wifi, client, world>>

MqttLost == GiveUpClient("run_wait", {MqttDown}, FALSE, "mqtt")

EventIgnored ==
  /\ Receive("run_wait", {WifiUp, MqttUp})
  /\ queue' = Tail(queue)
  /\ UNCHANGED <<state, pc, goal, flags, wifi, client, world>>

(***************************************************************************)
(* The event task: wifi_event_handler passes one event on.                 *)
(***************************************************************************)
WifiEventHandler ==
  /\ air # <<>>
  /\ Send(Head(air))
  /\ air' = Tail(air)
  /\ UNCHANGED <<state, pc, goal, flags, radio, client, world>>

(***************************************************************************)
(* The client task.  mqtt_event_handler tests s_sys_event_queue, and later *)
(* sends; the test and the send are two steps.                             *)
(***************************************************************************)
CallbackTest ==
  /\ callback[1] = "test"
  /\ callback' = IF listening THEN <<"send", callback[2]>> ELSE Quiet
  /\ UNCHANGED <<state, pc, goal, queue, flags, wifi, conn, world>>

CallbackSend ==
  /\ callback[1] = "send"
  /\ Send(callback[2])
  /\ callback' = Quiet
  /\ UNCHANGED <<state, pc, goal, flags, wifi, conn, world>>

(***************************************************************************)
(* The world outside.  The radio answers a connect and reports a lost link *)
(* once, and never reconnects by itself; nor does the client, whose        *)
(* automatic reconnection is disabled (mqtt_app.c:132).  A turn of the     *)
(* radio takes longer than the event task needs for the one before.        *)
(***************************************************************************)
RadioTurns(from, to, ev) ==
  /\ radio = from
  /\ air = <<>>
  /\ radio' = to
  /\ air' = Append(air, ev)
  /\ UNCHANGED <<state, pc, goal, queue, flags, client, world>>

RadioJoins == ap /\ RadioTurns("connecting", "up", WifiUp)
RadioFails == ~ap /\ RadioTurns("connecting", "idle", WifiDown)
RadioDrops == ~ap /\ RadioTurns("up", "idle", WifiDown)

ClientTurns(from, to, ev) ==
  /\ conn = from
  /\ callback = Quiet
  /\ conn' = to
  /\ callback' = <<"test", ev>>
  /\ UNCHANGED <<state, pc, goal, queue, flags, wifi, world>>

Reachable == radio = "up" /\ broker
ClientJoins == Reachable /\ ClientTurns("connecting", "connected", MqttUp)
ClientFails == ~Reachable /\ ClientTurns("connecting", "lost", MqttDown)
ClientDrops == ~Reachable /\ ClientTurns("connected", "lost", MqttDown)

ApTurns ==
  /\ ap' = ~ap
  /\ UNCHANGED <<state, pc, goal, queue, flags, wifi, client, broker, unclean>>

BrokerTurns ==
  /\ broker' = ~broker
  /\ UNCHANGED <<state, pc, goal, queue, flags, wifi, client, ap, unclean>>

(***************************************************************************)
(* The specifications.                                                     *)
(***************************************************************************)
MachineTask ==
  \/ HandleInit \/ InitFails \/ EspRestart \/ Wake
  \/ WifiStart \/ WifiStartFails \/ WifiRestart \/ WifiRestartFails
  \/ WifiConnected \/ WifiAttemptOver
  \/ WifiDriverStop \/ WifiDriverStopFails \/ WifiDrain
  \/ MqttStart \/ MqttStartFails \/ MqttRestart \/ MqttRestartFails
  \/ MqttConnected \/ WifiLostWhileConnecting \/ MqttAttemptOver
  \/ MqttAppStop \/ ClientDestroyed \/ BackToWifi \/ BackToMqtt
  \/ WifiLost \/ MqttLost \/ EventIgnored

ClientTask == CallbackTest \/ CallbackSend

Radio == RadioJoins \/ RadioFails \/ RadioDrops
Client == ClientJoins \/ ClientFails \/ ClientDrops

Next ==
  \/ MachineTask
  \/ WifiEventHandler
  \/ ClientTask
  \/ Radio
  \/ Client
  \/ ApTurns
  \/ BrokerTurns

Spec == Init /\ [][Next]_vars

(* What may go wrong on the gateway itself: a call of the platform is      *)
(* refused, a timeout beats an answer that is due, or the drain that       *)
(* follows esp_wifi_stop beats the event task.                             *)
Misfortune ==
  \/ InitFails
  \/ WifiStartFails \/ WifiRestartFails
  \/ WifiDriverStopFails /\ radio # "off"
  \/ MqttStartFails \/ MqttRestartFails
  \/ WifiAttemptOver /\ TimeOut("wifi_wait")
       /\ (air # <<>> \/ radio = "connecting")
  \/ MqttAttemptOver /\ TimeOut("mqtt_wait")
       /\ (callback # Quiet \/ conn = "connecting")
  \/ WifiDrain /\ air # <<>>

(* Every task gets to run, and the radio and the client find out in the    *)
(* end what happened to them.                                              *)
Fairness ==
  /\ WF_vars(MachineTask)
  /\ WF_vars(WifiEventHandler)
  /\ WF_vars(ClientTask)
  /\ WF_vars(Radio)
  /\ WF_vars(Client)

(* The misfortunes do not go on for ever; there are none at all.           *)
FairSpec == Spec /\ Fairness /\ <>[][~Misfortune]_vars
SmoothSpec == Init /\ [][Next /\ ~Misfortune]_vars /\ Fairness

(***************************************************************************)
(* The properties.                                                         *)
(***************************************************************************)
(* The points of each state's handler.                                     *)
StopPoints == {"client_deaf", "client_stop", "client_gone"}
PointsOf ==
  [INIT      |-> {"init", "reset"},
   WIFI_CONN |-> {"wifi_start", "wifi_start_sleep", "wifi_wait", "wifi_stop",
                  "wifi_drain", "wifi_stopped_sleep", "wifi_restart",
                  "wifi_retry_sleep"},
   MQTT_CONN |-> {"mqtt_start", "mqtt_start_sleep", "mqtt_wait",
                  "mqtt_stopped_sleep", "mqtt_restart", "mqtt_retry_sleep"}
                   \cup StopPoints,
   RUNNING   |-> {"run_wait"} \cup StopPoints]

(* Every variable stays in its range, and the task in the handler of its   *)
(* state.                                                                  *)
TypeOK ==
  /\ state \in States
  /\ pc \in PointsOf[state]
  /\ goal \in {"init", "wifi", "wifi_undrained", "mqtt", "retry"}
  /\ queue \in Seq(Events)
  /\ air \in Seq({WifiUp, WifiDown})
  /\ listening \in BOOLEAN
  /\ online \in BOOLEAN
  /\ radio \in {"off", "idle", "connecting", "up"}
  /\ conn \in {"none", "connecting", "connected", "lost"}
  /\ callback \in Callbacks
  /\ ap \in BOOLEAN
  /\ broker \in BOOLEAN
  /\ unclean \in BOOLEAN

Queued(ev) == \E i \in DOMAIN queue : queue[i] = ev

(* cache_task_set_online: while the cache publishes directly, the client   *)
(* it publishes through did connect, and if that connection is lost the    *)
(* event that tells the state machine is on its way.  No stale event of an *)
(* earlier client turns the cache online, and none is dropped.             *)
OnlineTruthful ==
  online /\ ~unclean =>
    /\ state = "RUNNING"
    /\ pc = "run_wait"
    /\ listening
    /\ \/ conn = "connected"
       \/ conn = "lost" /\ (callback[2] = MqttDown \/ Queued(MqttDown))

(* wifi.c:34, 55 and mqtt_app.c:47, 84 drop an event when the queue is     *)
(* full: it never is.                                                      *)
NoEventDropped == Len(queue) < QueueDepth

(* The comment at state_machine.c:52-59: no leftover event is mistaken for *)
(* the loss of the WiFi.  The machine goes back to WIFI_CONN only when the *)
(* link really is down.                                                    *)
FallBackJustified ==
  [][ (state \in {"MQTT_CONN", "RUNNING"} /\ state' = "WIFI_CONN")
        => radio # "up" \/ unclean ]_vars

(* A lost connection turns the cache to storing, sooner or later.          *)
LossNoticed == (online /\ conn = "lost") ~> ~online

(* With an access point that stays, the machine leaves WIFI_CONN for good. *)
WifiFound == <>[]ap => <>[](state # "WIFI_CONN")

(* With the radio up for good, an outage of the broker heals.              *)
BrokerOutageHeals ==
  <>[](radio = "up" /\ broker) => <>[](state = "RUNNING")

(* README.md:12: the machine falls back by stages and retries without end, *)
(* so once the network is back for good the gateway is back for good.      *)
OutageHeals == <>[](ap /\ broker) => <>[](state = "RUNNING")

(* cache_task.c:34-39 and mqtt_app.c:96-111, 161-176: cache_task publishes *)
(* through a client that the state machine creates and destroys.  s_online *)
(* is set only while there is a client, and reset before that client is    *)
(* destroyed or another one created.                                       *)
Life == INSTANCE ClientLife
ImplementsClientLife == Life!Spec
=============================================================================
