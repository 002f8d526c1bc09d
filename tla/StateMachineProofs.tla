------------------------- MODULE StateMachineProofs -------------------------
(***************************************************************************)
(* The connection supervisor, for every size of the event queue: it        *)
(* implements ClientLife.  With four places or more (the code has ten, a   *)
(* kind of event waits at most once) the online flag is true and the       *)
(* machine falls back for a reason, unless the drain behind a stop of the  *)
(* WiFi came before an event that stop had raised; with the ten places of  *)
(* the code no event is ever dropped.                                      *)
(***************************************************************************)
EXTENDS StateMachine, FiniteSetTheorems, TLAPS

(***************************************************************************)
(* The points of the handlers, the sleeps, and the event queue.            *)
(***************************************************************************)
LEMMA PointsFact ==
  /\ PointsOf["INIT"] = {"init", "reset"}
  /\ PointsOf["WIFI_CONN"] =
       {"wifi_start", "wifi_start_sleep", "wifi_wait", "wifi_stop",
        "wifi_drain", "wifi_stopped_sleep", "wifi_restart",
        "wifi_retry_sleep"}
  /\ PointsOf["MQTT_CONN"] =
       {"mqtt_start", "mqtt_start_sleep", "mqtt_wait", "mqtt_stopped_sleep",
        "mqtt_restart", "mqtt_retry_sleep", "client_deaf", "client_stop",
        "client_gone"}
  /\ PointsOf["RUNNING"] =
       {"run_wait", "client_deaf", "client_stop", "client_gone"}
BY DEF PointsOf, StopPoints

(* A sleep ends where the code goes on behind its vTaskDelay.              *)
LEMMA WakesFact ==
  ASSUME Wake
  PROVE  /\ UNCHANGED <<state, goal, queue, flags, wifi, client, world>>
         /\ air = <<>>
         /\ \/ pc = "wifi_start_sleep" /\ pc' = "wifi_start"
            \/ pc = "wifi_stopped_sleep" /\ pc' = "wifi_restart"
            \/ pc = "wifi_retry_sleep" /\ pc' = "wifi_wait"
            \/ pc = "mqtt_start_sleep" /\ pc' = "mqtt_start"
            \/ pc = "mqtt_stopped_sleep" /\ pc' = "mqtt_restart"
            \/ pc = "mqtt_retry_sleep" /\ pc' = "mqtt_wait"
<1>1. DOMAIN WakesAt = {"wifi_start_sleep", "wifi_stopped_sleep",
        "wifi_retry_sleep", "mqtt_start_sleep", "mqtt_stopped_sleep",
        "mqtt_retry_sleep"}
  BY DEF WakesAt
<1>2. /\ WakesAt["wifi_start_sleep"] = "wifi_start"
      /\ WakesAt["wifi_stopped_sleep"] = "wifi_restart"
      /\ WakesAt["wifi_retry_sleep"] = "wifi_wait"
      /\ WakesAt["mqtt_start_sleep"] = "mqtt_start"
      /\ WakesAt["mqtt_stopped_sleep"] = "mqtt_restart"
      /\ WakesAt["mqtt_retry_sleep"] = "mqtt_wait"
  BY DEF WakesAt
<1> QED
  BY <1>1, <1>2 DEF Wake

Holds(s, ev) == \E i \in 1 .. Len(s) : s[i] = ev

LEMMA AppendFact ==
  ASSUME NEW S, NEW s \in Seq(S), NEW e \in S
  PROVE  /\ Append(s, e) \in Seq(S)
         /\ Len(Append(s, e)) = Len(s) + 1
         /\ \A i \in 1 .. Len(s) : Append(s, e)[i] = s[i]
         /\ Append(s, e)[Len(s) + 1] = e
OBVIOUS

LEMMA TailFact ==
  ASSUME NEW S, NEW s \in Seq(S), s # <<>>
  PROVE  /\ Head(s) = s[1] /\ Head(s) \in S /\ Len(s) > 0
         /\ Tail(s) \in Seq(S)
         /\ Len(Tail(s)) = Len(s) - 1
         /\ \A i \in 1 .. Len(s) - 1 : Tail(s)[i] = s[i + 1]
OBVIOUS

(***************************************************************************)
(* Types.                                                                  *)
(***************************************************************************)
LEMMA SendType ==
  ASSUME queue \in Seq(Events), NEW ev \in Events, Send(ev)
  PROVE  queue' \in Seq(Events)
BY AppendFact DEF Send

(* TypeOK in two parts: where the task is, and everything else.            *)
Located ==
  \/ state = "INIT" /\ pc \in {"init", "reset"}
  \/ /\ state = "WIFI_CONN"
     /\ pc \in {"wifi_start", "wifi_start_sleep", "wifi_wait", "wifi_stop",
                "wifi_drain", "wifi_stopped_sleep", "wifi_restart",
                "wifi_retry_sleep"}
  \/ /\ state = "MQTT_CONN"
     /\ pc \in {"mqtt_start", "mqtt_start_sleep", "mqtt_wait",
                "mqtt_stopped_sleep", "mqtt_restart", "mqtt_retry_sleep",
                "client_deaf", "client_stop", "client_gone"}
  \/ /\ state = "RUNNING"
     /\ pc \in {"run_wait", "client_deaf", "client_stop", "client_gone"}

EventsOK == queue \in Seq(Events) /\ air \in Seq({WifiUp, WifiDown})

RangesOK ==
  /\ goal \in {"init", "wifi", "wifi_undrained", "mqtt", "retry"}
  /\ listening \in BOOLEAN
  /\ online \in BOOLEAN
  /\ radio \in {"off", "idle", "connecting", "up"}
  /\ conn \in {"none", "connecting", "connected", "lost"}
  /\ callback \in Callbacks
  /\ ap \in BOOLEAN
  /\ broker \in BOOLEAN
  /\ unclean \in BOOLEAN

LEMMA TypeParts == TypeOK <=> Located /\ EventsOK /\ RangesOK
<1>1. state \in States => (pc \in PointsOf[state] <=> Located)
  BY PointsFact DEF States, Located
<1>2. Located => state \in States
  BY DEF Located, States
<1> QED
  BY <1>1, <1>2 DEF TypeOK, EventsOK, RangesOK

LEMMA TypeInit == ASSUME Init PROVE TypeOK
<1>1. Located
  BY DEF Init, Located
<1>2. EventsOK
  BY DEF Init, EventsOK
<1>3. RangesOK
  BY DEF Init, RangesOK, Callbacks
<1> QED
  BY <1>1, <1>2, <1>3, TypeParts

(* The task of the state machine.                                          *)
LEMMA LocatedMachine == ASSUME Located, MachineTask PROVE Located'
<1> USE DEF Located, Go, Receive, TimeOut
<1>1. CASE HandleInit \/ InitFails \/ EspRestart
  BY <1>1 DEF HandleInit, InitFails, EspRestart
<1>2. CASE Wake
  BY <1>2, WakesFact
<1>3. CASE WifiStart \/ WifiStartFails \/ WifiRestart \/ WifiRestartFails
  BY <1>3 DEF WifiStart, WifiStartFails, WifiRestart, WifiRestartFails,
              WifiDriverStart, WifiDriverStartFails
<1>4. CASE WifiConnected \/ WifiAttemptOver
  BY <1>4 DEF WifiConnected, WifiAttemptOver
<1>5. CASE WifiDriverStop \/ WifiDriverStopFails \/ WifiDrain
  BY <1>5 DEF WifiDriverStop, WifiDriverStopFails, WifiDrain
<1>6. CASE MqttStart \/ MqttStartFails \/ MqttRestart \/ MqttRestartFails
  BY <1>6 DEF MqttStart, MqttStartFails, MqttRestart, MqttRestartFails,
              MqttAppStart, MqttAppStartFails
<1>7. CASE MqttConnected \/ EventIgnored
  BY <1>7 DEF MqttConnected, EventIgnored
<1>8. CASE WifiLostWhileConnecting \/ MqttAttemptOver
  BY <1>8 DEF WifiLostWhileConnecting, MqttAttemptOver, GiveUpClient
<1>9. CASE MqttAppStop \/ ClientDestroyed
  BY <1>9 DEF MqttAppStop, ClientDestroyed
<1>10. CASE BackToWifi \/ BackToMqtt
  BY <1>10 DEF BackToWifi, BackToMqtt, BackTo
<1>11. CASE WifiLost \/ MqttLost
  BY <1>11 DEF WifiLost, MqttLost, GiveUpClient
<1> QED
  BY <1>1, <1>2, <1>3, <1>4, <1>5, <1>6, <1>7, <1>8, <1>9, <1>10, <1>11
     DEF MachineTask

(* What a step of the task does to its two queues.                         *)
LEMMA QueueMachine ==
  ASSUME MachineTask
  PROVE  /\ \/ queue' = queue \/ queue' = <<>>
            \/ queue # <<>> /\ queue' = Tail(queue)
         /\ air' = air \/ air' = Append(air, WifiDown)
<1> USE DEF Drain, Receive, flags, wifi, client, world
<1>1. CASE HandleInit \/ InitFails \/ EspRestart \/ Wake
  BY <1>1 DEF HandleInit, InitFails, EspRestart, Wake
<1>2. CASE WifiStart \/ WifiStartFails \/ WifiRestart \/ WifiRestartFails
  BY <1>2 DEF WifiStart, WifiStartFails, WifiRestart, WifiRestartFails,
              WifiDriverStart, WifiDriverStartFails
<1>3. CASE WifiConnected \/ WifiAttemptOver
  BY <1>3 DEF WifiConnected, WifiAttemptOver
<1>4. CASE WifiDriverStop \/ WifiDriverStopFails \/ WifiDrain
  BY <1>4 DEF WifiDriverStop, WifiDriverStopFails, WifiDrain
<1>5. CASE MqttStart \/ MqttStartFails \/ MqttRestart \/ MqttRestartFails
  BY <1>5 DEF MqttStart, MqttStartFails, MqttRestart, MqttRestartFails,
              MqttAppStart, MqttAppStartFails
<1>6. CASE MqttConnected \/ EventIgnored
  BY <1>6 DEF MqttConnected, EventIgnored
<1>7. CASE WifiLostWhileConnecting \/ MqttAttemptOver
  BY <1>7 DEF WifiLostWhileConnecting, MqttAttemptOver, GiveUpClient
<1>8. CASE MqttAppStop \/ ClientDestroyed
  BY <1>8 DEF MqttAppStop, ClientDestroyed
<1>9. CASE BackToWifi \/ BackToMqtt
  BY <1>9 DEF BackToWifi, BackToMqtt, BackTo
<1>10. CASE WifiLost \/ MqttLost
  BY <1>10 DEF WifiLost, MqttLost, GiveUpClient
<1> QED
  BY <1>1, <1>2, <1>3, <1>4, <1>5, <1>6, <1>7, <1>8, <1>9, <1>10
     DEF MachineTask

LEMMA RangesMachine == ASSUME RangesOK, MachineTask PROVE RangesOK'
<1> USE DEF RangesOK, flags, wifi, client, world
<1>1. CASE HandleInit \/ InitFails \/ EspRestart \/ Wake
  BY <1>1 DEF HandleInit, InitFails, EspRestart, Wake
<1>2. CASE WifiStart \/ WifiStartFails \/ WifiRestart \/ WifiRestartFails
  BY <1>2 DEF WifiStart, WifiStartFails, WifiRestart, WifiRestartFails,
              WifiDriverStart, WifiDriverStartFails
<1>3. CASE WifiConnected \/ WifiAttemptOver
  BY <1>3 DEF WifiConnected, WifiAttemptOver
<1>4. CASE WifiDriverStop \/ WifiDriverStopFails
  BY <1>4 DEF WifiDriverStop, WifiDriverStopFails
<1>5. CASE WifiDrain
  <2>1. unclean' \in BOOLEAN
    BY <1>5 DEF WifiDrain
  <2> QED
    BY <1>5, <2>1 DEF WifiDrain
<1>6. CASE MqttStart \/ MqttStartFails \/ MqttRestart \/ MqttRestartFails
  BY <1>6 DEF MqttStart, MqttStartFails, MqttRestart, MqttRestartFails,
              MqttAppStart, MqttAppStartFails
<1>7. CASE MqttConnected \/ EventIgnored
  BY <1>7 DEF MqttConnected, EventIgnored
<1>8. CASE WifiLostWhileConnecting \/ MqttAttemptOver
  BY <1>8 DEF WifiLostWhileConnecting, MqttAttemptOver, GiveUpClient
<1>9. CASE MqttAppStop \/ ClientDestroyed
  BY <1>9 DEF MqttAppStop, ClientDestroyed
<1>10. CASE BackToWifi \/ BackToMqtt
  BY <1>10 DEF BackToWifi, BackToMqtt, BackTo
<1>11. CASE WifiLost \/ MqttLost
  BY <1>11 DEF WifiLost, MqttLost, GiveUpClient
<1> QED
  BY <1>1, <1>2, <1>3, <1>4, <1>5, <1>6, <1>7, <1>8, <1>9, <1>10, <1>11
     DEF MachineTask

LEMMA EventsMachine == ASSUME EventsOK, MachineTask PROVE EventsOK'
<1>1. queue' \in Seq(Events)
  <2>1. CASE queue' = queue
    BY <2>1 DEF EventsOK
  <2>3. CASE queue' = <<>>
    <3>1. <<>> \in Seq(Events)
      OBVIOUS
    <3> QED
      BY <2>3, <3>1
  <2>2. CASE queue # <<>> /\ queue' = Tail(queue)
    BY <2>2, TailFact DEF EventsOK
  <2> QED
    BY <2>1, <2>2, <2>3, QueueMachine
<1>2. air' \in Seq({WifiUp, WifiDown})
  BY QueueMachine, AppendFact DEF EventsOK
<1> QED
  BY <1>1, <1>2 DEF EventsOK

(* The other tasks and the world.                                          *)
Surroundings ==
  \/ WifiEventHandler \/ ClientTask \/ Radio \/ Client \/ ApTurns
  \/ BrokerTurns

LEMMA LocatedSurroundings ==
  ASSUME Surroundings
  PROVE  state' = state /\ pc' = pc /\ goal' = goal /\ online' = online
           /\ listening' = listening /\ unclean' = unclean
BY DEF Surroundings, WifiEventHandler, ClientTask, CallbackTest, CallbackSend,
       Radio, RadioJoins, RadioFails, RadioDrops, RadioTurns, Client,
       ClientJoins, ClientFails, ClientDrops, ClientTurns, ApTurns,
       BrokerTurns, flags, wifi, client, world

LEMMA TypeSurroundings ==
  ASSUME EventsOK, RangesOK, Surroundings
  PROVE  EventsOK' /\ RangesOK'
<1> USE DEF flags, wifi, client, world
<1>1. CASE WifiEventHandler
  <2>1. Head(air) \in Events /\ Tail(air) \in Seq({WifiUp, WifiDown})
    BY <1>1, TailFact DEF WifiEventHandler, Events, EventsOK
  <2>2. EventsOK'
    BY <1>1, <2>1, SendType DEF WifiEventHandler, EventsOK
  <2> QED
    BY <1>1, <2>2 DEF WifiEventHandler, RangesOK
<1>2. CASE ClientTask
  <2>1. Quiet \in Callbacks /\ \A ev \in {MqttUp, MqttDown} :
          <<"test", ev>> \in Callbacks /\ <<"send", ev>> \in Callbacks
    BY DEF Callbacks
  <2>2. callback = Quiet \/ callback[2] \in {MqttUp, MqttDown}
    BY DEF Callbacks, RangesOK
  <2>3. CASE CallbackTest
    <3>1. callback # Quiet
      BY <2>3 DEF CallbackTest, Quiet
    <3>2. callback' \in Callbacks
      BY <2>1, <2>2, <2>3, <3>1 DEF CallbackTest
    <3>3. EventsOK'
      BY <2>3 DEF CallbackTest, EventsOK
    <3> QED
      BY <2>3, <3>2, <3>3 DEF CallbackTest, RangesOK
  <2>4. CASE CallbackSend
    <3>1. callback # Quiet
      BY <2>4 DEF CallbackSend, Quiet
    <3>2. queue' \in Seq(Events)
      BY <2>2, <2>4, <3>1, SendType DEF CallbackSend, EventsOK, Events
    <3> QED
      BY <2>1, <2>4, <3>2 DEF CallbackSend, EventsOK, RangesOK
  <2> QED
    BY <1>2, <2>3, <2>4 DEF ClientTask
<1>3. CASE Radio
  BY <1>3, AppendFact DEF Radio, RadioJoins, RadioFails, RadioDrops,
     RadioTurns, EventsOK, RangesOK
<1>4. CASE Client
  BY <1>4 DEF Client, ClientJoins, ClientFails, ClientDrops, ClientTurns,
              Callbacks, EventsOK, RangesOK
<1>5. CASE ApTurns \/ BrokerTurns
  BY <1>5 DEF ApTurns, BrokerTurns, EventsOK, RangesOK
<1> QED
  BY <1>1, <1>2, <1>3, <1>4, <1>5 DEF Surroundings

LEMMA NextParts == ASSUME Next PROVE MachineTask \/ Surroundings
BY DEF Next, Surroundings

LEMMA TypeStep == ASSUME TypeOK, [Next]_vars PROVE TypeOK'
<1>0. Located /\ EventsOK /\ RangesOK
  BY TypeParts
<1>1. (Located /\ EventsOK /\ RangesOK)'
  <2>1. CASE MachineTask
    BY <1>0, <2>1, LocatedMachine, EventsMachine, RangesMachine
  <2>2. CASE Surroundings
    BY <1>0, <2>2, LocatedSurroundings, TypeSurroundings DEF Located
  <2>3. CASE UNCHANGED vars
    BY <1>0, <2>3 DEF vars, Located, EventsOK, RangesOK, flags, wifi, client,
                      world
  <2> QED
    BY <2>1, <2>2, <2>3, NextParts
<1>2. TypeOK' <=> (Located /\ EventsOK /\ RangesOK)'
  <2>1. state' \in States => (pc' \in PointsOf[state'] <=> Located')
    BY PointsFact DEF States, Located
  <2>2. Located' => state' \in States
    BY DEF Located, States
  <2> QED
    BY <2>1, <2>2 DEF TypeOK, EventsOK, RangesOK
<1> QED
  BY <1>1, <1>2

(* Every variable stays in its range, and the task in the handler of its   *)
(* state (state_machine.c:286-313), whatever the size of the queue.        *)
THEOREM TypeCorrect == Spec => []TypeOK
<1>1. Init => TypeOK
  BY TypeInit
<1>2. TypeOK /\ [Next]_vars => TypeOK'
  BY TypeStep
<1> QED
  BY <1>1, <1>2, PTL DEF Spec
(***************************************************************************)
(* ClientLife: no news of an earlier client turns the cache online, for    *)
(* the queue is drained before a client is created anew, and a destroyed   *)
(* client sends nothing any more.                                          *)
(***************************************************************************)
OnlineRuns == online => pc = "run_wait"
RunsOverClient == pc = "run_wait" => conn # "none"
ClientPlace ==
  conn # "none" => pc \in {"mqtt_wait", "run_wait", "client_deaf", "client_stop"}
CallbackOfClient == conn = "none" => callback = Quiet
NoStaleUp ==
  \/ pc \in {"mqtt_stopped_sleep", "mqtt_restart", "mqtt_retry_sleep"}
  \/ pc = "mqtt_wait" /\ conn = "none"
  => ~Holds(queue, MqttUp)

ClientInv ==
  /\ OnlineRuns
  /\ RunsOverClient
  /\ ClientPlace
  /\ CallbackOfClient
  /\ NoStaleUp

LEMMA TailHolds ==
  ASSUME NEW s \in Seq(Events), s # <<>>, NEW e, Holds(Tail(s), e)
  PROVE  Holds(s, e)
<1>1. PICK i \in 1 .. Len(Tail(s)) : Tail(s)[i] = e
  BY DEF Holds
<1>2. i + 1 \in 1 .. Len(s) /\ s[i + 1] = e
  BY <1>1, TailFact
<1> QED
  BY <1>2 DEF Holds

LEMMA AppendHolds ==
  ASSUME NEW s \in Seq(Events), NEW ev \in Events, NEW e,
         Holds(Append(s, ev), e)
  PROVE  Holds(s, e) \/ e = ev
<1>1. PICK i \in 1 .. Len(Append(s, ev)) : Append(s, ev)[i] = e
  BY DEF Holds
<1>2. i \in 1 .. Len(s) \/ i = Len(s) + 1
  BY <1>1, AppendFact
<1>3. CASE i \in 1 .. Len(s)
  BY <1>1, <1>3, AppendFact DEF Holds
<1>4. CASE i = Len(s) + 1
  BY <1>1, <1>4, AppendFact
<1> QED
  BY <1>2, <1>3, <1>4

LEMMA SendHolds ==
  ASSUME queue \in Seq(Events), NEW ev \in Events, Send(ev), NEW e,
         Holds(queue', e)
  PROVE  Holds(queue, e) \/ e = ev
BY AppendHolds DEF Send

LEMMA EmptyHolds == ASSUME NEW e PROVE ~Holds(<<>>, e)
BY DEF Holds

(* The task of the state machine puts nothing into the queue.              *)
LEMMA MachineHolds ==
  ASSUME EventsOK, MachineTask, NEW e, Holds(queue', e)
  PROVE  Holds(queue, e)
<1>1. CASE queue' = queue
  BY <1>1
<1>2. CASE queue' = <<>>
  BY <1>2, EmptyHolds
<1>3. CASE queue # <<>> /\ queue' = Tail(queue)
  BY <1>3, TailHolds DEF EventsOK
<1> QED
  BY <1>1, <1>2, <1>3, QueueMachine

LEMMA ClientMachine ==
  ASSUME EventsOK, RangesOK, ClientInv, MachineTask
  PROVE  ClientInv'
<1>0. ~Holds(queue, MqttUp) => ~Holds(queue', MqttUp)
  BY MachineHolds
<1> USE DEF ClientInv, OnlineRuns, RunsOverClient, ClientPlace,
            CallbackOfClient, NoStaleUp, Go, flags, wifi, client, world
<1>1. CASE HandleInit \/ InitFails \/ EspRestart
  BY <1>1 DEF HandleInit, InitFails, EspRestart
<1>2. CASE Wake
  BY <1>0, <1>2, WakesFact
<1>3. CASE WifiStart \/ WifiStartFails \/ WifiRestart \/ WifiRestartFails
  BY <1>3 DEF WifiStart, WifiStartFails, WifiRestart, WifiRestartFails,
              WifiDriverStart, WifiDriverStartFails
<1>4. CASE WifiConnected \/ WifiAttemptOver
  BY <1>4 DEF WifiConnected, WifiAttemptOver, Receive, TimeOut
<1>5. CASE WifiDriverStop \/ WifiDriverStopFails \/ WifiDrain
  BY <1>5 DEF WifiDriverStop, WifiDriverStopFails, WifiDrain
<1>6. CASE MqttStart \/ MqttRestart
  BY <1>6 DEF MqttStart, MqttRestart, MqttAppStart
<1>7. CASE MqttStartFails \/ MqttRestartFails
  BY <1>0, <1>7 DEF MqttStartFails, MqttRestartFails, MqttAppStartFails
<1>8. CASE MqttConnected
  <2>1. Holds(queue, MqttUp)
    BY <1>8, TailFact DEF MqttConnected, Receive, EventsOK, Holds
  <2> QED
    BY <1>8, <2>1 DEF MqttConnected, Receive
<1>9. CASE EventIgnored
  BY <1>9 DEF EventIgnored, Receive
<1>10. CASE WifiLostWhileConnecting \/ MqttAttemptOver
  BY <1>10 DEF WifiLostWhileConnecting, MqttAttemptOver, GiveUpClient,
               Receive, TimeOut
<1>11. CASE MqttAppStop \/ ClientDestroyed
  BY <1>11 DEF MqttAppStop, ClientDestroyed
<1>12. CASE BackToWifi
  BY <1>12 DEF BackToWifi
<1>13. CASE BackToMqtt
  BY <1>13, EmptyHolds DEF BackToMqtt, BackTo, Drain
<1>14. CASE WifiLost \/ MqttLost
  BY <1>14 DEF WifiLost, MqttLost, GiveUpClient, Receive
<1> QED
  BY <1>1, <1>2, <1>3, <1>4, <1>5, <1>6, <1>7, <1>8, <1>9, <1>10, <1>11,
     <1>12, <1>13, <1>14
     DEF MachineTask

LEMMA ClientSurroundings ==
  ASSUME EventsOK, RangesOK, ClientInv, Surroundings
  PROVE  ClientInv'
<1> USE DEF ClientInv, OnlineRuns, RunsOverClient, ClientPlace,
            CallbackOfClient, NoStaleUp, flags, wifi, client, world
<1>1. CASE WifiEventHandler
  <2>1. Head(air) \in Events /\ Head(air) # MqttUp
    BY <1>1, TailFact DEF WifiEventHandler, Events, EventsOK, WifiUp, WifiDown,
       MqttUp
  <2>2. ~Holds(queue, MqttUp) => ~Holds(queue', MqttUp)
    BY <1>1, <2>1, SendHolds DEF WifiEventHandler, EventsOK
  <2> QED
    BY <1>1, <2>2 DEF WifiEventHandler
<1>2. CASE ClientTask
  <2>1. callback # Quiet
    BY <1>2 DEF ClientTask, CallbackTest, CallbackSend, Quiet
  <2> QED
    BY <1>2, <2>1 DEF ClientTask, CallbackTest, CallbackSend
<1>3. CASE Radio
  BY <1>3 DEF Radio, RadioJoins, RadioFails, RadioDrops, RadioTurns
<1>4. CASE Client
  BY <1>4 DEF Client, ClientJoins, ClientFails, ClientDrops, ClientTurns
<1>5. CASE ApTurns \/ BrokerTurns
  BY <1>5 DEF ApTurns, BrokerTurns
<1> QED
  BY <1>1, <1>2, <1>3, <1>4, <1>5 DEF Surroundings

LEMMA ClientStep == ASSUME TypeOK, ClientInv, [Next]_vars PROVE ClientInv'
<1>1. CASE UNCHANGED vars
  BY <1>1 DEF vars, ClientInv, OnlineRuns, RunsOverClient, ClientPlace,
              CallbackOfClient, NoStaleUp, flags, wifi, client, world
<1> QED
  BY <1>1, NextParts, TypeParts, ClientMachine, ClientSurroundings

LEMMA LifeMachine ==
  ASSUME EventsOK, ClientInv, MachineTask
  PROVE  Life!Next \/ UNCHANGED <<online, conn>>
<1> USE DEF ClientInv, OnlineRuns, RunsOverClient, ClientPlace, NoStaleUp, Go,
            Receive, flags, client, world, Life!Next
<1>1. CASE HandleInit \/ InitFails \/ EspRestart \/ Wake
  BY <1>1 DEF HandleInit, InitFails, EspRestart, Wake
<1>2. CASE WifiStart \/ WifiStartFails \/ WifiRestart \/ WifiRestartFails
  BY <1>2 DEF WifiStart, WifiStartFails, WifiRestart, WifiRestartFails,
              WifiDriverStart, WifiDriverStartFails
<1>3. CASE WifiConnected \/ WifiAttemptOver
  BY <1>3 DEF WifiConnected, WifiAttemptOver
<1>4. CASE WifiDriverStop \/ WifiDriverStopFails \/ WifiDrain
  BY <1>4 DEF WifiDriverStop, WifiDriverStopFails, WifiDrain
<1>5. CASE MqttStart \/ MqttRestart
  BY <1>5 DEF MqttStart, MqttRestart, MqttAppStart, Life!Start
<1>6. CASE MqttStartFails \/ MqttRestartFails
  BY <1>6 DEF MqttStartFails, MqttRestartFails, MqttAppStartFails
<1>7. CASE MqttConnected
  <2>1. Holds(queue, MqttUp)
    BY <1>7, TailFact DEF MqttConnected, EventsOK, Holds
  <2> QED
    BY <1>7, <2>1 DEF MqttConnected, Life!GoOnline
<1>8. CASE EventIgnored \/ MqttAppStop \/ BackToWifi \/ BackToMqtt
  BY <1>8 DEF EventIgnored, MqttAppStop, BackToWifi, BackToMqtt, BackTo
<1>9. CASE WifiLostWhileConnecting \/ MqttAttemptOver
  BY <1>9 DEF WifiLostWhileConnecting, MqttAttemptOver, GiveUpClient
<1>10. CASE ClientDestroyed
  BY <1>10 DEF ClientDestroyed, Life!Destroy
<1>11. CASE WifiLost \/ MqttLost
  BY <1>11 DEF WifiLost, MqttLost, GiveUpClient, Life!GoOffline
<1> QED
  BY <1>1, <1>2, <1>3, <1>4, <1>5, <1>6, <1>7, <1>8, <1>9, <1>10, <1>11
     DEF MachineTask

LEMMA LifeSurroundings ==
  ASSUME Surroundings
  PROVE  Life!Next \/ UNCHANGED <<online, conn>>
<1>1. CASE Client
  BY <1>1 DEF Client, ClientJoins, ClientFails, ClientDrops, ClientTurns,
              Life!Next, Life!Join, Life!Lose, Life!Turn, flags
<1>2. CASE WifiEventHandler \/ ClientTask \/ Radio \/ ApTurns \/ BrokerTurns
  BY <1>2 DEF WifiEventHandler, ClientTask, CallbackTest, CallbackSend, Radio,
              RadioJoins, RadioFails, RadioDrops, RadioTurns, ApTurns,
              BrokerTurns, flags, client
<1> QED
  BY <1>1, <1>2 DEF Surroundings

(* s_online is set only over a client, and reset before that client goes   *)
(* (mqtt_app.c:96-111, state_machine.c:184-246): what Gateway builds on is *)
(* true of the state machine, whatever the size of its queue.              *)
THEOREM MachineImplementsClientLife == Spec => ImplementsClientLife
<1>1. Init => ClientInv
  BY EmptyHolds DEF Init, ClientInv, OnlineRuns, RunsOverClient, ClientPlace,
     CallbackOfClient, NoStaleUp
<1>2. TypeOK /\ ClientInv /\ [Next]_vars => ClientInv'
  BY ClientStep
<1>3. Init => Life!Init
  BY DEF Init, Life!Init
<1>4. TypeOK /\ ClientInv /\ [Next]_vars => [Life!Next]_(Life!vars)
  <2>1. ASSUME UNCHANGED vars
        PROVE  UNCHANGED <<online, conn>>
    BY <2>1 DEF vars, flags, client
  <2> QED
    BY <2>1, NextParts, TypeParts, LifeMachine, LifeSurroundings DEF Life!vars
<1> QED
  BY <1>1, <1>2, <1>3, <1>4, TypeCorrect, PTL
     DEF Spec, ImplementsClientLife, Life!Spec

(***************************************************************************)
(* Calm: while nothing old is in the air, every event that waits is news   *)
(* of the present radio or of the present client, and none waits twice.    *)
(* Between esp_wifi_stop and the drain behind it nothing is asked of the   *)
(* queue; the drain makes it calm, or unclean.                             *)
(***************************************************************************)
Distinct(s) == \A i, j \in 1 .. Len(s) : i < j => s[i] # s[j]

(* News of the client come before all news of the WiFi.                    *)
ClientFirst(s) ==
  \A i, j \in 1 .. Len(s) :
    i < j /\ s[j] \in {MqttUp, MqttDown} => s[i] \in {MqttUp, MqttDown}

Pending(ev) == Holds(queue, ev) \/ Holds(air, ev)
NoWifiNews == ~Pending(WifiUp) /\ ~Pending(WifiDown)
NoClientNews == ~Holds(queue, MqttUp) /\ ~Holds(queue, MqttDown)

WifiStarts == {"init", "reset", "wifi_start", "wifi_start_sleep",
               "wifi_restart", "wifi_stopped_sleep", "wifi_retry_sleep"}
StoppingClient == {"client_deaf", "client_stop", "client_gone"}

QueueCalm ==
  /\ Distinct(queue)
  /\ Len(air) <= 1
  /\ \A ev \in Events : Holds(air, ev) => ~Holds(queue, ev)
RadioCalm ==
  /\ Pending(WifiUp) => radio \in {"up", "idle"}
  /\ Pending(WifiDown) => radio = "idle"
  /\ pc \in WifiStarts => NoWifiNews /\ radio \in {"off", "idle"}
  /\ pc \in WifiStarts \cup {"wifi_wait"} => ClientFirst(queue)
  /\ state \in {"MQTT_CONN", "RUNNING"}
       => ~Pending(WifiUp) /\ radio \in {"up", "idle"}
  /\ pc \in StoppingClient /\ goal \in {"wifi", "wifi_undrained"}
       => NoWifiNews /\ radio = "idle"
NewsOfClient ==
  /\ state = "MQTT_CONN" /\ pc # "client_gone"
       /\ conn \in {"none", "connecting"}
     => NoClientNews /\ callback = Quiet
  /\ conn = "connected" => ~Holds(queue, MqttDown)
  /\ callback[2] = MqttUp => conn = "connected" /\ ~Holds(queue, MqttUp)
  /\ callback[2] = MqttDown => conn = "lost" /\ ~Holds(queue, MqttDown)
ClientHeard ==
  /\ pc \in {"mqtt_wait", "mqtt_retry_sleep", "run_wait"} => listening
  /\ state = "RUNNING" => conn # "connecting"
  /\ pc \in {"mqtt_wait", "run_wait"} /\ conn = "lost"
       => callback[2] = MqttDown \/ Holds(queue, MqttDown)

Calm == QueueCalm /\ RadioCalm /\ NewsOfClient /\ ClientHeard
Unsettled == unclean \/ pc \in {"wifi_stop", "wifi_drain"}
CalmInv == Unsettled \/ Calm

LEMMA EventNames ==
  /\ WifiUp # WifiDown /\ WifiUp # MqttUp /\ WifiUp # MqttDown
  /\ WifiDown # MqttUp /\ WifiDown # MqttDown /\ MqttUp # MqttDown
  /\ Events = {WifiUp, WifiDown, MqttUp, MqttDown}
BY DEF WifiUp, WifiDown, MqttUp, MqttDown, Events

(* What receiving an event, sending a new one and draining do to all this. *)
LEMMA CalmTail ==
  ASSUME NEW s \in Seq(Events), s # <<>>, Distinct(s)
  PROVE  /\ Distinct(Tail(s))
         /\ \A e : Holds(Tail(s), e) <=> Holds(s, e) /\ e # Head(s)
         /\ Holds(s, Head(s))
         /\ ClientFirst(s) => ClientFirst(Tail(s))
<1> DEFINE t == Tail(s)
<1>1. /\ Head(s) = s[1] /\ Len(s) \in Nat /\ Len(s) > 0
      /\ Len(t) = Len(s) - 1
      /\ \A i \in 1 .. Len(s) - 1 : t[i] = s[i + 1]
  BY TailFact
<1> HIDE DEF t
<1>2. \A i \in 1 .. Len(t) : i + 1 \in 1 .. Len(s) /\ t[i] = s[i + 1] /\ i \in Nat
  BY <1>1
<1>3. \A i \in 1 .. Len(s) : i = 1 \/ (i - 1 \in 1 .. Len(t) /\ t[i - 1] = s[i])
  BY <1>1
<1>4. 1 \in 1 .. Len(s)
  BY <1>1
<1>5. Distinct(t)
  BY <1>2 DEF Distinct
<1>6. ASSUME NEW e
      PROVE  Holds(t, e) <=> Holds(s, e) /\ e # Head(s)
  <2>1. ASSUME Holds(t, e) PROVE Holds(s, e) /\ e # Head(s)
    <3>1. PICK i \in 1 .. Len(t) : t[i] = e
      BY <2>1 DEF Holds
    <3>2. i + 1 \in 1 .. Len(s) /\ s[i + 1] = e /\ 1 < i + 1
      BY <1>2, <3>1
    <3> QED
      BY <1>1, <1>4, <3>2 DEF Holds, Distinct
  <2>2. ASSUME Holds(s, e), e # Head(s) PROVE Holds(t, e)
    <3>1. PICK i \in 1 .. Len(s) : s[i] = e
      BY <2>2 DEF Holds
    <3> QED
      BY <1>1, <1>3, <2>2, <3>1 DEF Holds
  <2> QED
    BY <2>1, <2>2
<1>7. ClientFirst(s) => ClientFirst(t)
  BY <1>2 DEF ClientFirst
<1>8. Holds(s, Head(s))
  BY <1>1, <1>4 DEF Holds
<1> QED
  BY <1>5, <1>6, <1>7, <1>8 DEF t

LEMMA CalmAppend ==
  ASSUME NEW s \in Seq(Events), NEW ev \in Events, Distinct(s), ~Holds(s, ev)
  PROVE  /\ Distinct(Append(s, ev))
         /\ \A e : Holds(Append(s, ev), e) <=> Holds(s, e) \/ e = ev
         /\ ClientFirst(s) /\ ev \notin {MqttUp, MqttDown}
              => ClientFirst(Append(s, ev))
         /\ Len(s) <= 3
<1> DEFINE t == Append(s, ev)
<1>1. /\ Len(s) \in Nat /\ Len(t) = Len(s) + 1 /\ t[Len(s) + 1] = ev
      /\ \A i \in 1 .. Len(s) : t[i] = s[i]
  BY AppendFact
<1> HIDE DEF t
<1>2. \A i \in 1 .. Len(t) : i \in 1 .. Len(s) \/ i = Len(s) + 1
  BY <1>1
<1>3. Len(s) + 1 \in 1 .. Len(t) /\ \A i \in 1 .. Len(s) : i \in 1 .. Len(t)
  BY <1>1
<1>4. Distinct(t)
  BY <1>1, <1>2 DEF Distinct, Holds
<1>5. \A e : Holds(t, e) <=> Holds(s, e) \/ e = ev
  BY <1>1, <1>2, <1>3 DEF Holds
<1>6. ClientFirst(s) /\ ev \notin {MqttUp, MqttDown} => ClientFirst(t)
  BY <1>1, <1>2 DEF ClientFirst
<1>7. Len(s) <= 3
  <2>1. SUFFICES ASSUME Len(s) >= 4 PROVE FALSE
    BY <1>1
  <2>2. 1 \in 1 .. Len(s) /\ 2 \in 1 .. Len(s) /\ 3 \in 1 .. Len(s)
        /\ 4 \in 1 .. Len(s)
    BY <1>1, <2>1
  <2>3. s[1] \in Events /\ s[2] \in Events /\ s[3] \in Events /\ s[4] \in Events
    BY <2>2
  <2>4. /\ s[1] # s[2] /\ s[1] # s[3] /\ s[1] # s[4]
        /\ s[2] # s[3] /\ s[2] # s[4] /\ s[3] # s[4]
    BY <2>2 DEF Distinct
  <2>5. ev # s[1] /\ ev # s[2] /\ ev # s[3] /\ ev # s[4]
    BY <2>2 DEF Holds
  <2> QED
    BY <2>3, <2>4, <2>5, EventNames
<1> QED
  BY <1>4, <1>5, <1>6, <1>7 DEF t

LEMMA CalmEmpty == Distinct(<<>>) /\ ClientFirst(<<>>) /\ \A e : ~Holds(<<>>, e)
BY DEF Distinct, ClientFirst, Holds

(* A sequence of WiFi news led by news that is not the client's.           *)
LEMMA FirstNews ==
  ASSUME NEW s \in Seq(Events), s # <<>>, ClientFirst(s),
         Head(s) \notin {MqttUp, MqttDown}
  PROVE  ~Holds(s, MqttUp) /\ ~Holds(s, MqttDown)
<1>1. Head(s) = s[1] /\ Len(s) \in Nat /\ 1 \in 1 .. Len(s)
  BY TailFact
<1>2. ASSUME NEW i \in 1 .. Len(s), s[i] \in {MqttUp, MqttDown} PROVE FALSE
  <2>1. 1 < i \/ i = 1
    BY <1>1
  <2> QED
    BY <1>1, <1>2, <2>1 DEF ClientFirst
<1> QED
  BY <1>2 DEF Holds

(* The other way round: with no news of the WiFi the client's come first.  *)
LEMMA OnlyClientNews ==
  ASSUME NEW s \in Seq(Events), ~Holds(s, WifiUp), ~Holds(s, WifiDown)
  PROVE  ClientFirst(s)
<1>1. \A i \in 1 .. Len(s) : s[i] \in Events
  OBVIOUS
<1> QED
  BY <1>1, EventNames DEF ClientFirst, Holds

LEMMA CalmStart == ASSUME Init PROVE Calm
<1>1. /\ queue = <<>> /\ air = <<>> /\ radio = "off" /\ pc = "init"
      /\ state = "INIT" /\ conn = "none" /\ callback = Quiet
  BY DEF Init
<1>2. QueueCalm
  BY <1>1, CalmEmpty DEF QueueCalm
<1>3. RadioCalm
  BY <1>1, CalmEmpty DEF RadioCalm, WifiStarts, StoppingClient, NoWifiNews,
     Pending
<1>4. NewsOfClient
  BY <1>1, CalmEmpty DEF NewsOfClient, Quiet, MqttUp, MqttDown
<1>5. ClientHeard
  BY <1>1 DEF ClientHeard
<1> QED
  BY <1>2, <1>3, <1>4, <1>5 DEF Calm

(* A step that leaves the news alone.                                      *)
LEMMA SameNews ==
  ASSUME UNCHANGED <<queue, air>>
  PROVE  /\ QueueCalm => QueueCalm'
         /\ NoWifiNews' <=> NoWifiNews
         /\ Pending(WifiUp)' <=> Pending(WifiUp)
         /\ Pending(WifiDown)' <=> Pending(WifiDown)
         /\ NoClientNews' <=> NoClientNews
         /\ Holds(queue, MqttUp)' <=> Holds(queue, MqttUp)
         /\ Holds(queue, MqttDown)' <=> Holds(queue, MqttDown)
         /\ ClientFirst(queue)' <=> ClientFirst(queue)
BY DEF QueueCalm, NoWifiNews, NoClientNews, Pending, Holds, Distinct,
       ClientFirst

(* The queue is drained and nothing is in the air.                         *)
LEMMA DrainedNews ==
  ASSUME queue' = <<>>, air' = air, QueueCalm
  PROVE  /\ QueueCalm'
         /\ Pending(WifiUp)' => Pending(WifiUp)
         /\ Pending(WifiDown)' => Pending(WifiDown)
         /\ NoWifiNews => NoWifiNews'
         /\ NoClientNews'
         /\ ~Holds(queue', MqttUp) /\ ~Holds(queue', MqttDown)
         /\ ClientFirst(queue')
BY CalmEmpty DEF QueueCalm, NoWifiNews, NoClientNews, Pending, Holds, Distinct,
       ClientFirst

(* The head of the queue is received.                                      *)
LEMMA ReceivedNews ==
  ASSUME queue \in Seq(Events), queue # <<>>, queue' = Tail(queue),
         air' = air, QueueCalm
  PROVE  /\ QueueCalm'
         /\ \A e \in {WifiUp, WifiDown} :
              Pending(e)' <=> Pending(e) /\ e # Head(queue)
         /\ \A e : Holds(queue', e) <=> Holds(queue, e) /\ e # Head(queue)
         /\ Holds(queue, Head(queue))
         /\ ClientFirst(queue) => ClientFirst(queue')
<1>1. /\ Distinct(queue')
      /\ \A e : Holds(queue', e) <=> Holds(queue, e) /\ e # Head(queue)
      /\ Holds(queue, Head(queue))
      /\ ClientFirst(queue) => ClientFirst(queue')
  BY CalmTail DEF QueueCalm
<1>2. Head(queue) \in Events /\ ~Holds(air, Head(queue))
  BY <1>1, TailFact DEF QueueCalm
<1>3. \A e : Holds(air', e) <=> Holds(air, e)
  OBVIOUS
<1>4. QueueCalm'
  BY <1>1, <1>3 DEF QueueCalm
<1>5. \A e \in {WifiUp, WifiDown} :
        (Holds(queue', e) \/ Holds(air', e))
          <=> (Holds(queue, e) \/ Holds(air, e)) /\ e # Head(queue)
  BY <1>1, <1>2, <1>3
<1> QED
  BY <1>1, <1>4, <1>5 DEF Pending

(***************************************************************************)
(* Calm is kept: the task of the state machine.                            *)
(***************************************************************************)
(* Steps that only move the task.                                          *)
LEMMA CalmMoves ==
  ASSUME Calm, Located, ClientInv,
         UNCHANGED <<goal, queue, air, listening, online, radio, conn, callback>>,
         \/ pc \in WifiStarts /\ pc' \in WifiStarts
         \/ pc = "wifi_retry_sleep" /\ pc' = "wifi_wait"
         \/ /\ pc \in {"mqtt_start_sleep", "mqtt_stopped_sleep"}
            /\ pc' \in {"mqtt_start", "mqtt_restart"}
         \/ pc = "mqtt_retry_sleep" /\ pc' = "mqtt_wait",
         state' = state \/ (state = "INIT" /\ state' = "WIFI_CONN")
  PROVE  Calm'
<1>3. QueueCalm'
  BY SameNews DEF Calm
<1>4. RadioCalm'
  BY SameNews DEF Calm, RadioCalm, WifiStarts, StoppingClient,
     Located
<1>5. NewsOfClient'
  BY SameNews DEF Calm, NewsOfClient, WifiStarts, Located
<1>6. ClientHeard'
  <2>1. CASE pc = "mqtt_retry_sleep"
    <3>1. state = "MQTT_CONN" /\ listening
      BY <2>1 DEF Located, Calm, ClientHeard
    <3>2. conn' # "lost"
      BY <2>1, <3>1 DEF ClientInv, ClientPlace
    <3> QED
      BY <2>1, <3>1, <3>2 DEF ClientHeard, WifiStarts, Located
  <2>2. CASE pc # "mqtt_retry_sleep"
    <3>1. pc' \notin {"mqtt_retry_sleep", "run_wait", "mqtt_wait"}
      BY <2>2 DEF WifiStarts
    <3> QED
      BY <3>1 DEF Calm, ClientHeard
  <2> QED
    BY <2>1, <2>2
<1> QED
  BY <1>3, <1>4, <1>5, <1>6 DEF Calm

LEMMA CalmInitSteps ==
  ASSUME Calm, HandleInit \/ InitFails \/ EspRestart \/ Wake, Located,
         ClientInv
  PROVE  Calm'
<1>0. CASE Wake
  <2>1. /\ UNCHANGED <<goal, queue, air, listening, online, radio, conn, callback>>
        /\ state' = state
    BY <1>0, WakesFact DEF flags, wifi, client
  <2>2. \/ pc \in WifiStarts /\ pc' \in WifiStarts
        \/ pc = "wifi_retry_sleep" /\ pc' = "wifi_wait"
        \/ /\ pc \in {"mqtt_start_sleep", "mqtt_stopped_sleep"}
           /\ pc' \in {"mqtt_start", "mqtt_restart"}
        \/ pc = "mqtt_retry_sleep" /\ pc' = "mqtt_wait"
    BY <1>0, WakesFact DEF WifiStarts
  <2> QED
    BY <2>1, <2>2, CalmMoves
<1>1. CASE HandleInit \/ InitFails \/ EspRestart
  <2>1. /\ UNCHANGED <<goal, queue, air, listening, online, radio, conn, callback>>
        /\ state' = state \/ (state = "INIT" /\ state' = "WIFI_CONN")
        /\ pc \in WifiStarts /\ pc' \in WifiStarts
    BY <1>1 DEF HandleInit, InitFails, EspRestart, WifiStarts, Go, flags, wifi,
       client, Located
  <2> QED
    BY <2>1, CalmMoves
<1> QED
  BY <1>0, <1>1

LEMMA CalmWifiStarts ==
  ASSUME Calm, WifiStart \/ WifiStartFails \/ WifiRestart \/ WifiRestartFails,
         Located
  PROVE  Calm'
<1>1. /\ UNCHANGED <<goal, state, queue, air, listening, online, conn, callback>>
      /\ pc \in {"wifi_start", "wifi_restart"}
      /\ \/ pc' = "wifi_wait"
         \/ /\ pc' \in {"wifi_start_sleep", "wifi_retry_sleep"}
            /\ radio \in {"off", "idle"} => radio' \in {"off", "idle"}
  BY DEF WifiStart, WifiStartFails, WifiRestart, WifiRestartFails,
     WifiDriverStart, WifiDriverStartFails, Go, flags, client
<1>2. /\ NoWifiNews /\ radio \in {"off", "idle"} /\ ClientFirst(queue)
      /\ state = "WIFI_CONN"
  BY <1>1 DEF Calm, RadioCalm, WifiStarts, Located
<1>3. QueueCalm'
  BY <1>1, SameNews DEF Calm
<1>4. RadioCalm'
  BY <1>1, <1>2, SameNews DEF RadioCalm, NoWifiNews, WifiStarts, StoppingClient
<1>5. NewsOfClient'
  BY <1>1, <1>2, SameNews DEF Calm, NewsOfClient
<1>6. ClientHeard'
  BY <1>1, <1>2 DEF ClientHeard
<1> QED
  BY <1>3, <1>4, <1>5, <1>6 DEF Calm

LEMMA CalmWifiConnected ==
  ASSUME EventsOK, Calm, ClientInv, WifiConnected, Located
  PROVE  Calm'
<1>1. /\ queue # <<>> /\ Head(queue) = WifiUp /\ queue' = Tail(queue)
      /\ pc = "wifi_wait" /\ state' = "MQTT_CONN" /\ pc' = "mqtt_start"
      /\ UNCHANGED <<goal, air, listening, online, radio, conn, callback>>
  BY DEF WifiConnected, Receive, flags, wifi, client
<1>2. conn = "none" /\ callback = Quiet
  BY <1>1 DEF ClientInv, ClientPlace, CallbackOfClient
<1>3. Pending(WifiUp) /\ ClientFirst(queue)
  BY <1>1, ReceivedNews DEF Calm, RadioCalm, Pending, EventsOK
<1>4. ~Holds(queue, MqttUp) /\ ~Holds(queue, MqttDown)
  BY <1>1, <1>3, FirstNews, EventNames DEF EventsOK
<1>5. QueueCalm'
  BY <1>1, ReceivedNews DEF Calm, EventsOK
<1>6. /\ ~Pending(WifiUp)'
      /\ Pending(WifiDown)' => Pending(WifiDown)
      /\ ~Holds(queue', MqttUp) /\ ~Holds(queue', MqttDown)
  BY <1>1, <1>4, ReceivedNews DEF Calm, EventsOK
<1>7. RadioCalm'
  BY <1>1, <1>3, <1>6 DEF Calm, RadioCalm, WifiStarts, StoppingClient
<1>8. NewsOfClient'
  BY <1>1, <1>2, <1>6 DEF NewsOfClient, NoClientNews, Quiet, MqttUp, MqttDown
<1>9. ClientHeard'
  BY <1>1 DEF ClientHeard
<1> QED
  BY <1>5, <1>7, <1>8, <1>9 DEF Calm

LEMMA CalmDrain ==
  ASSUME ClientInv, WifiDrain, Located, ~unclean'
  PROVE  Calm'
<1>1. /\ queue' = <<>> /\ air' = <<>> /\ radio' = "off"
      /\ pc = "wifi_drain" /\ pc' = "wifi_stopped_sleep" /\ state' = state
      /\ conn' = conn /\ callback' = callback
  BY DEF WifiDrain, Drain, Go, wifi, client
<1>2. conn = "none" /\ callback = Quiet
  BY <1>1 DEF ClientInv, ClientPlace, CallbackOfClient
<1>3. QueueCalm'
  BY <1>1, CalmEmpty DEF QueueCalm
<1>4. NoWifiNews' /\ ~Pending(WifiUp)' /\ ~Pending(WifiDown)' /\ NoClientNews'
      /\ ~Holds(queue', MqttUp) /\ ~Holds(queue', MqttDown)
      /\ ClientFirst(queue')
  BY <1>1, CalmEmpty DEF NoWifiNews, Pending, NoClientNews
<1>5. RadioCalm'
  BY <1>1, <1>4 DEF RadioCalm, WifiStarts, StoppingClient, Located
<1>6. NewsOfClient'
  BY <1>1, <1>2, <1>4 DEF NewsOfClient, Quiet, MqttUp, MqttDown
<1>7. ClientHeard'
  BY <1>1 DEF ClientHeard, Located
<1> QED
  BY <1>3, <1>5, <1>6, <1>7 DEF Calm

LEMMA CalmMqttStarts ==
  ASSUME Calm, MqttStart \/ MqttStartFails \/ MqttRestart \/ MqttRestartFails,
         Located, ClientInv
  PROVE  Calm'
<1>1. /\ UNCHANGED <<goal, state, queue, air, radio, callback>>
      /\ pc \in {"mqtt_start", "mqtt_restart"} /\ callback = Quiet /\ listening'
      /\ \/ pc' = "mqtt_wait" /\ conn' = "connecting"
         \/ pc' \in {"mqtt_start_sleep", "mqtt_retry_sleep"} /\ conn' = "none"
  BY DEF MqttStart, MqttStartFails, MqttRestart, MqttRestartFails,
         MqttAppStart, MqttAppStartFails, Go, wifi
<1>2. state = "MQTT_CONN" /\ conn = "none"
  BY <1>1 DEF Located, ClientInv, ClientPlace
<1>3. NoClientNews
  BY <1>1, <1>2 DEF Calm, NewsOfClient
<1>4. QueueCalm'
  BY <1>1, SameNews DEF Calm
<1>5. RadioCalm'
  BY <1>1, <1>2, SameNews DEF Calm, RadioCalm, WifiStarts, StoppingClient
<1>6. NewsOfClient'
  BY <1>1, <1>2, <1>3, SameNews DEF NewsOfClient, Quiet, MqttUp, MqttDown
<1>7. ClientHeard'
  BY <1>1, <1>2 DEF ClientHeard
<1> QED
  BY <1>4, <1>5, <1>6, <1>7 DEF Calm

LEMMA CalmMqttConnected ==
  ASSUME EventsOK, RangesOK, Calm, ClientInv, MqttConnected, Located
  PROVE  Calm'
<1>1. /\ queue # <<>> /\ Head(queue) = MqttUp /\ queue' = Tail(queue)
      /\ pc = "mqtt_wait" /\ pc' = "run_wait" /\ state' = "RUNNING"
      /\ UNCHANGED <<goal, air, listening, radio, conn, callback>>
  BY DEF MqttConnected, Receive, wifi, client
<1>2. QueueCalm'
  BY <1>1, ReceivedNews DEF Calm, EventsOK
<1>3. /\ state = "MQTT_CONN" /\ Holds(queue, MqttUp)
      /\ Pending(WifiUp)' <=> Pending(WifiUp)
      /\ Pending(WifiDown)' <=> Pending(WifiDown)
      /\ ~Holds(queue', MqttUp)
      /\ Holds(queue', MqttDown) <=> Holds(queue, MqttDown)
  BY <1>1, ReceivedNews, EventNames DEF Calm, EventsOK, Located
<1>4. conn \notin {"none", "connecting"}
  BY <1>1, <1>3 DEF Calm, NewsOfClient, NoClientNews
<1>5. RadioCalm'
  BY <1>1, <1>3 DEF Calm, RadioCalm, WifiStarts, StoppingClient
<1>6. NewsOfClient'
  BY <1>1, <1>3, <1>4 DEF Calm, NewsOfClient
<1>7. ClientHeard'
  BY <1>1, <1>3, <1>4 DEF Calm, ClientHeard
<1> QED
  BY <1>2, <1>5, <1>6, <1>7 DEF Calm

LEMMA CalmEventIgnored ==
  ASSUME EventsOK, Calm, ClientInv, EventIgnored, Located
  PROVE  Calm'
<1>1. /\ queue # <<>> /\ Head(queue) \in {WifiUp, MqttUp} /\ queue' = Tail(queue)
      /\ pc = "run_wait"
      /\ UNCHANGED <<pc, state, goal, air, listening, radio, conn, callback>>
  BY DEF EventIgnored, Receive, flags, wifi, client
<1>2. QueueCalm'
  BY <1>1, ReceivedNews DEF Calm, EventsOK
<1>3. /\ state = "RUNNING"
      /\ Pending(WifiUp)' => Pending(WifiUp)
      /\ Pending(WifiDown)' <=> Pending(WifiDown)
      /\ Holds(queue', MqttUp) => Holds(queue, MqttUp)
      /\ Holds(queue', MqttDown) <=> Holds(queue, MqttDown)
  BY <1>1, ReceivedNews, EventNames DEF Calm, EventsOK, Located
<1>4. RadioCalm'
  BY <1>1, <1>3 DEF Calm, RadioCalm, WifiStarts, StoppingClient
<1>5. NewsOfClient'
  BY <1>1, <1>3 DEF Calm, NewsOfClient
<1>6. ClientHeard'
  BY <1>1, <1>3 DEF Calm, ClientHeard
<1> QED
  BY <1>2, <1>4, <1>5, <1>6 DEF Calm

(* The client is given up for the WiFi only when WifiDown was received.    *)
LEMMA CalmGiveUp ==
  ASSUME EventsOK, Calm, Located, NEW p \in {"mqtt_wait", "run_wait"}, NEW evs,
         NEW on, NEW g, GiveUpClient(p, evs, on, g),
         g \in {"wifi", "wifi_undrained"} => evs = {WifiDown}
  PROVE  Calm'
<1>1. /\ queue # <<>> /\ Head(queue) \in evs /\ queue' = Tail(queue)
      /\ pc = p /\ pc' = "client_deaf" /\ goal' = g
      /\ UNCHANGED <<state, air, listening, radio, conn, callback>>
  BY DEF GiveUpClient, Receive, wifi, client
<1>2. QueueCalm'
  BY <1>1, ReceivedNews DEF Calm, EventsOK
<1>3. /\ state \in {"MQTT_CONN", "RUNNING"}
      /\ Pending(WifiUp)' => Pending(WifiUp)
      /\ Pending(WifiDown)' => Pending(WifiDown)
      /\ Holds(queue', MqttUp) => Holds(queue, MqttUp)
      /\ Holds(queue', MqttDown) => Holds(queue, MqttDown)
  BY <1>1, ReceivedNews DEF Calm, EventsOK, Located
<1>4. g \in {"wifi", "wifi_undrained"} => NoWifiNews' /\ radio = "idle"
  <2>1. SUFFICES ASSUME Head(queue) = WifiDown
                 PROVE  NoWifiNews' /\ radio = "idle"
    BY <1>1
  <2>2. Pending(WifiDown) /\ ~Pending(WifiDown)'
    BY <1>1, <2>1, ReceivedNews DEF Calm, EventsOK, Pending
  <2>3. ~Pending(WifiUp)'
    BY <1>3 DEF Calm, RadioCalm
  <2> QED
    BY <2>2, <2>3 DEF Calm, RadioCalm, NoWifiNews
<1>5. RadioCalm'
  BY <1>1, <1>3, <1>4 DEF Calm, RadioCalm, WifiStarts, StoppingClient
<1>6. NewsOfClient'
  BY <1>1, <1>3 DEF Calm, NewsOfClient, NoClientNews
<1>7. ClientHeard'
  BY <1>1 DEF Calm, ClientHeard
<1> QED
  BY <1>2, <1>5, <1>6, <1>7 DEF Calm

LEMMA CalmTimeOut ==
  ASSUME Calm, Located, pc = "mqtt_wait", pc' = "client_deaf", goal' = "retry",
         UNCHANGED <<state, queue, air, listening, radio, conn, callback>>
  PROVE  Calm'
<1>1. QueueCalm'
  BY SameNews DEF Calm
<1>2. state = "MQTT_CONN"
  BY DEF Located
<1>3. RadioCalm'
  BY <1>2, SameNews DEF Calm, RadioCalm, WifiStarts
<1>4. NewsOfClient'
  BY SameNews DEF Calm, NewsOfClient
<1>5. ClientHeard'
  BY DEF Calm, ClientHeard
<1> QED
  BY <1>1, <1>3, <1>4, <1>5 DEF Calm

LEMMA CalmStops ==
  ASSUME Calm, MqttAppStop \/ ClientDestroyed, Located
  PROVE  Calm'
<1>1. /\ UNCHANGED <<state, goal, queue, air, radio, callback>>
      /\ pc \in {"client_deaf", "client_stop"}
      /\ \/ pc' = "client_stop" /\ conn' = conn
         \/ pc' = "client_gone" /\ conn' = "none" /\ callback = Quiet
  BY DEF MqttAppStop, ClientDestroyed, Go, flags, wifi, client
<1>2. QueueCalm'
  BY <1>1, SameNews DEF Calm
<1>3. RadioCalm'
  BY <1>1, SameNews DEF Calm, RadioCalm, WifiStarts, StoppingClient
<1>4. NewsOfClient'
  BY <1>1, SameNews DEF Calm, NewsOfClient, Quiet, MqttUp, MqttDown
<1>5. ClientHeard'
  BY <1>1 DEF Calm, ClientHeard
<1> QED
  BY <1>2, <1>3, <1>4, <1>5 DEF Calm

LEMMA CalmBackToWifi ==
  ASSUME EventsOK, Calm, BackToWifi, ClientInv
  PROVE  Calm' /\ radio = "idle"
<1>1. /\ queue' = queue \/ queue' = <<>>
      /\ pc = "client_gone" /\ pc' = "wifi_start" /\ state' = "WIFI_CONN"
      /\ goal \in {"wifi", "wifi_undrained"}
      /\ UNCHANGED <<goal, air, listening, radio, conn, callback>>
  BY DEF BackToWifi, Go, Drain, flags, wifi, client
<1>2. NoWifiNews /\ radio = "idle" /\ conn = "none" /\ callback = Quiet
  BY <1>1 DEF Calm, RadioCalm, StoppingClient, ClientInv, ClientPlace,
     CallbackOfClient
<1>3. QueueCalm' /\ NoWifiNews'
  BY <1>1, <1>2, SameNews, DrainedNews DEF Calm
<1>4. ClientFirst(queue')
  BY <1>1, <1>2, OnlyClientNews, CalmEmpty DEF EventsOK, NoWifiNews, Pending
<1>5. RadioCalm'
  BY <1>1, <1>2, <1>3, <1>4 DEF RadioCalm, NoWifiNews, WifiStarts,
     StoppingClient
<1>6. NewsOfClient'
  BY <1>1, <1>2 DEF NewsOfClient, Quiet, MqttUp, MqttDown
<1>7. ClientHeard'
  BY <1>1 DEF ClientHeard
<1> QED
  BY <1>2, <1>3, <1>5, <1>6, <1>7 DEF Calm

LEMMA CalmBackToMqtt ==
  ASSUME Calm, BackToMqtt, ClientInv, Located
  PROVE  Calm'
<1>1. /\ queue' = <<>>
      /\ pc = "client_gone" /\ pc' \in {"mqtt_start", "mqtt_stopped_sleep"}
      /\ state' = "MQTT_CONN"
      /\ UNCHANGED <<goal, air, listening, radio, conn, callback>>
  BY DEF BackToMqtt, BackTo, Drain, flags, wifi, client
<1>2. state \in {"MQTT_CONN", "RUNNING"} /\ conn = "none" /\ callback = Quiet
  BY <1>1 DEF Located, ClientInv, ClientPlace, CallbackOfClient
<1>3. QueueCalm'
  BY <1>1, DrainedNews DEF Calm
<1>4. /\ Pending(WifiUp)' => Pending(WifiUp)
      /\ Pending(WifiDown)' => Pending(WifiDown)
      /\ NoClientNews'
      /\ ~Holds(queue', MqttUp) /\ ~Holds(queue', MqttDown)
  BY <1>1, DrainedNews DEF Calm
<1>5. RadioCalm'
  BY <1>1, <1>2, <1>4 DEF Calm, RadioCalm, WifiStarts, StoppingClient
<1>6. NewsOfClient'
  BY <1>1, <1>2, <1>4 DEF NewsOfClient, Quiet, MqttUp, MqttDown
<1>7. ClientHeard'
  BY <1>1 DEF ClientHeard
<1> QED
  BY <1>3, <1>5, <1>6, <1>7 DEF Calm

(* Apart from the stop of the WiFi, the task is never between the stop and *)
(* the drain behind it, and leaves the history alone.                      *)
LEMMA UncleanMachine ==
  ASSUME MachineTask,
         ~(WifiAttemptOver \/ WifiDriverStop \/ WifiDriverStopFails
             \/ WifiDrain)
  PROVE  unclean' = unclean /\ pc \notin {"wifi_stop", "wifi_drain"}
<1> USE DEF Go, Receive, TimeOut, world
<1>1. CASE HandleInit \/ InitFails \/ EspRestart
  BY <1>1 DEF HandleInit, InitFails, EspRestart
<1>2. CASE Wake
  BY <1>2, WakesFact
<1>3. CASE WifiStart \/ WifiStartFails \/ WifiRestart \/ WifiRestartFails
             \/ WifiConnected
  BY <1>3 DEF WifiStart, WifiStartFails, WifiRestart, WifiRestartFails,
              WifiDriverStart, WifiDriverStartFails, WifiConnected
<1>4. CASE MqttStart \/ MqttStartFails \/ MqttRestart \/ MqttRestartFails
  BY <1>4 DEF MqttStart, MqttStartFails, MqttRestart, MqttRestartFails,
              MqttAppStart, MqttAppStartFails
<1>5. CASE MqttConnected \/ EventIgnored \/ MqttAppStop \/ ClientDestroyed
  BY <1>5 DEF MqttConnected, EventIgnored, MqttAppStop, ClientDestroyed
<1>6. CASE WifiLostWhileConnecting \/ MqttAttemptOver \/ WifiLost \/ MqttLost
  BY <1>6 DEF WifiLostWhileConnecting, MqttAttemptOver, WifiLost, MqttLost,
              GiveUpClient
<1>7. CASE BackToWifi \/ BackToMqtt
  BY <1>7 DEF BackToWifi, BackToMqtt, BackTo
<1> QED
  BY <1>1, <1>2, <1>3, <1>4, <1>5, <1>6, <1>7 DEF MachineTask

LEMMA CalmMachine ==
  ASSUME TypeOK, ClientInv, CalmInv, MachineTask
  PROVE  CalmInv'
<1>0. Located /\ EventsOK /\ RangesOK
  BY TypeParts
<1>1. CASE WifiAttemptOver \/ WifiDriverStop \/ WifiDriverStopFails
  BY <1>1 DEF WifiAttemptOver, WifiDriverStop, WifiDriverStopFails, Go, CalmInv,
              Unsettled
<1>2. CASE WifiDrain
  BY <1>0, <1>2, CalmDrain DEF CalmInv, Unsettled
<1>3. SUFFICES ASSUME ~(WifiAttemptOver \/ WifiDriverStop \/ WifiDriverStopFails
                          \/ WifiDrain)
               PROVE  CalmInv'
  BY <1>1, <1>2
<1>4. unclean' = unclean /\ pc \notin {"wifi_stop", "wifi_drain"}
  BY <1>3, UncleanMachine
<1>5. CASE unclean
  BY <1>4, <1>5 DEF CalmInv, Unsettled
<1>6. SUFFICES ASSUME Calm PROVE Calm'
  BY <1>4, <1>5 DEF CalmInv, Unsettled
<1>7. CASE HandleInit \/ InitFails \/ EspRestart \/ Wake
  BY <1>0, <1>6, <1>7, CalmInitSteps
<1>8. CASE WifiStart \/ WifiStartFails \/ WifiRestart \/ WifiRestartFails
  BY <1>0, <1>6, <1>8, CalmWifiStarts
<1>9. CASE WifiConnected
  BY <1>0, <1>6, <1>9, CalmWifiConnected
<1>10. CASE MqttStart \/ MqttStartFails \/ MqttRestart \/ MqttRestartFails
  BY <1>0, <1>6, <1>10, CalmMqttStarts
<1>11. CASE MqttConnected
  BY <1>0, <1>6, <1>11, CalmMqttConnected
<1>12. CASE EventIgnored
  BY <1>0, <1>6, <1>12, CalmEventIgnored
<1>13. CASE WifiLostWhileConnecting
  <2>1. GiveUpClient("mqtt_wait", {WifiDown}, online, "wifi_undrained")
    BY <1>13 DEF WifiLostWhileConnecting
  <2> QED
    BY <1>0, <1>6, <2>1, CalmGiveUp
<1>14. CASE MqttAttemptOver
  <2>1. CASE GiveUpClient("mqtt_wait", Events \ {MqttUp, WifiDown}, online,
                          "retry")
    BY <1>0, <1>6, <2>1, CalmGiveUp
  <2>2. CASE /\ TimeOut("mqtt_wait")
             /\ pc' = "client_deaf"
             /\ goal' = "retry"
             /\ UNCHANGED <<state, queue, flags, wifi, client, world>>
    BY <1>0, <1>6, <2>2, CalmTimeOut DEF TimeOut, flags, wifi, client
  <2> QED
    BY <1>14, <2>1, <2>2 DEF MqttAttemptOver
<1>15. CASE MqttAppStop \/ ClientDestroyed
  BY <1>0, <1>6, <1>15, CalmStops
<1>16. CASE BackToWifi
  BY <1>0, <1>6, <1>16, CalmBackToWifi
<1>17. CASE BackToMqtt
  BY <1>0, <1>6, <1>17, CalmBackToMqtt
<1>18. CASE WifiLost
  <2>1. GiveUpClient("run_wait", {WifiDown}, FALSE, "wifi")
    BY <1>18 DEF WifiLost
  <2> QED
    BY <1>0, <1>6, <2>1, CalmGiveUp
<1>19. CASE MqttLost
  <2>1. GiveUpClient("run_wait", {MqttDown}, FALSE, "mqtt")
    BY <1>19 DEF MqttLost
  <2> QED
    BY <1>0, <1>6, <2>1, CalmGiveUp
<1> QED
  BY <1>3, <1>7, <1>8, <1>9, <1>10, <1>11, <1>12, <1>13, <1>14, <1>15, <1>16,
     <1>17, <1>18, <1>19
     DEF MachineTask
(***************************************************************************)
(* Calm is kept: the event task, the client task and the world.            *)
(***************************************************************************)
(* Sending news that does not wait already.                                *)
LEMMA SentNews ==
  ASSUME queue \in Seq(Events), NEW ev \in Events, Distinct(queue),
         ~Holds(queue, ev), Send(ev)
  PROVE  /\ Distinct(queue')
         /\ \A e : Holds(queue', e) => Holds(queue, e) \/ e = ev
         /\ \A e : Holds(queue, e) => Holds(queue', e)
         /\ QueueDepth >= 4 => Holds(queue', ev)
         /\ ClientFirst(queue) /\ ev \notin {MqttUp, MqttDown}
              => ClientFirst(queue')
<1>1. Len(queue) <= 3 /\ Len(queue) \in Nat
  BY CalmAppend
<1>2. CASE queue' = Append(queue, ev)
  BY <1>2, CalmAppend
<1>3. CASE ~(Len(queue) < QueueDepth)
  BY <1>1, <1>3, QueueAssumption DEF Send
<1> QED
  BY <1>2, <1>3 DEF Send

LEMMA CalmWifiEvent ==
  ASSUME EventsOK, Calm, WifiEventHandler
  PROVE  Calm'
<1>1. /\ air # <<>> /\ air' = Tail(air) /\ Send(Head(air))
      /\ UNCHANGED <<pc, state, goal, listening, radio, conn, callback>>
  BY DEF WifiEventHandler, flags, client
<1>2. /\ Head(air) \in {WifiUp, WifiDown} /\ Head(air) = air[1]
      /\ Len(air) = 1 /\ air' \in Seq({WifiUp, WifiDown}) /\ Len(air') = 0
  <2>1. air \in Seq({WifiUp, WifiDown}) /\ Len(air) <= 1
    BY DEF EventsOK, Calm, QueueCalm
  <2>2. /\ Head(air) \in {WifiUp, WifiDown} /\ Head(air) = air[1]
        /\ Len(air) > 0 /\ Len(Tail(air)) = Len(air) - 1 /\ Len(air) \in Nat
        /\ Tail(air) \in Seq({WifiUp, WifiDown})
    BY <1>1, <2>1, TailFact
  <2> QED
    BY <1>1, <2>1, <2>2
<1>3. Holds(air, Head(air)) /\ \A e : ~Holds(air', e)
  BY <1>2 DEF Holds
<1>4. Head(air) \in Events /\ Head(air) \notin {MqttUp, MqttDown}
  BY <1>2, EventNames
<1>5. Distinct(queue) /\ ~Holds(queue, Head(air)) /\ queue \in Seq(Events)
  BY <1>3, <1>4 DEF Calm, QueueCalm, EventsOK
<1>6. /\ Distinct(queue')
      /\ \A e : Holds(queue', e) => Holds(queue, e) \/ e = Head(air)
      /\ \A e : Holds(queue, e) => Holds(queue', e)
      /\ ClientFirst(queue) => ClientFirst(queue')
  BY <1>1, <1>4, <1>5, SentNews
<1>7. QueueCalm'
  BY <1>2, <1>3, <1>6 DEF QueueCalm
<1>8. /\ Pending(WifiUp)' => Pending(WifiUp)
      /\ Pending(WifiDown)' => Pending(WifiDown)
  BY <1>3, <1>6 DEF Pending
<1>9. /\ Holds(queue', MqttUp) <=> Holds(queue, MqttUp)
      /\ Holds(queue', MqttDown) <=> Holds(queue, MqttDown)
  BY <1>4, <1>6
<1>10. RadioCalm'
  BY <1>1, <1>6, <1>8 DEF Calm, RadioCalm, NoWifiNews
<1>11. NewsOfClient'
  BY <1>1, <1>9 DEF Calm, NewsOfClient, NoClientNews
<1>12. ClientHeard'
  BY <1>1, <1>9 DEF Calm, ClientHeard
<1> QED
  BY <1>7, <1>10, <1>11, <1>12 DEF Calm

LEMMA CalmCallbackTest ==
  ASSUME RangesOK, Calm, CallbackTest
  PROVE  Calm'
<1>1. /\ UNCHANGED <<pc, state, goal, queue, air, listening, radio, conn>>
      /\ callback # Quiet
      /\ IF listening THEN callback'[2] = callback[2] ELSE callback' = Quiet
  BY DEF CallbackTest, flags, wifi, Quiet
<1>2. QueueCalm'
  BY <1>1, SameNews DEF Calm
<1>3. RadioCalm'
  BY <1>1, SameNews DEF Calm, RadioCalm
<1>4. NewsOfClient'
  BY <1>1, SameNews DEF Calm, NewsOfClient, Quiet, MqttUp, MqttDown
<1>5. ClientHeard'
  BY <1>1, SameNews DEF Calm, ClientHeard
<1> QED
  BY <1>2, <1>3, <1>4, <1>5 DEF Calm

LEMMA CalmCallbackSend ==
  ASSUME QueueDepth >= 4, EventsOK, RangesOK, Located, ClientInv, Calm,
         CallbackSend
  PROVE  Calm'
<1> DEFINE ev == callback[2]
<1>1. /\ UNCHANGED <<pc, state, goal, air, listening, radio, conn>>
      /\ callback # Quiet /\ callback' = Quiet /\ Send(ev)
  BY DEF CallbackSend, flags, wifi, Quiet
<1>2. ev \in {MqttUp, MqttDown}
  BY <1>1 DEF RangesOK, Callbacks
<1> HIDE DEF ev
<1>3. /\ ev = MqttUp => conn = "connected" /\ ~Holds(queue, MqttUp)
      /\ ev = MqttDown => conn = "lost" /\ ~Holds(queue, MqttDown)
  BY DEF ev, Calm, NewsOfClient
<1>4. ev \in Events /\ ev \notin {WifiUp, WifiDown} /\ ~Holds(queue, ev)
  BY <1>2, <1>3, EventNames
<1>5. /\ Distinct(queue')
      /\ \A e : Holds(queue', e) <=> Holds(queue, e) \/ e = ev
  BY <1>1, <1>4, SentNews DEF Calm, QueueCalm, EventsOK
<1>6. conn \in {"connected", "lost"} /\ MqttUp # MqttDown
  BY <1>2, <1>3, EventNames
<1>7. QueueCalm'
  <2>1. ~Holds(air, ev)
    BY <1>4 DEF EventsOK, Holds
  <2> QED
    BY <1>1, <1>5, <2>1 DEF Calm, QueueCalm
<1>8. /\ Pending(WifiUp)' <=> Pending(WifiUp)
      /\ Pending(WifiDown)' <=> Pending(WifiDown)
  BY <1>1, <1>4, <1>5 DEF Pending
<1>9. pc \notin WifiStarts \cup {"wifi_wait"}
  BY <1>6 DEF ClientInv, ClientPlace, WifiStarts
<1>10. RadioCalm'
  BY <1>1, <1>8, <1>9 DEF Calm, RadioCalm, NoWifiNews, WifiStarts,
     StoppingClient
<1>11. NewsOfClient'
  BY <1>1, <1>3, <1>5, <1>6 DEF Calm, NewsOfClient, Quiet, MqttUp, MqttDown
<1>12. ClientHeard'
  BY <1>1, <1>2, <1>3, <1>5, <1>6 DEF Calm, ClientHeard, ev
<1> QED
  BY <1>7, <1>10, <1>11, <1>12 DEF Calm

(* The radio turns to r and reports e: nothing of that kind waits, and the *)
(* task is not about to start the radio.                                   *)
LEMMA CalmRadio ==
  ASSUME EventsOK, Calm, Radio
  PROVE  Calm'
<1>1. /\ UNCHANGED <<pc, state, goal, queue, listening, conn, callback>>
      /\ air = <<>>
      /\ \/ radio = "connecting" /\ radio' = "up" /\ air' = Append(air, WifiUp)
         \/ /\ radio \in {"connecting", "up"} /\ radio' = "idle"
            /\ air' = Append(air, WifiDown)
  BY DEF Radio, RadioJoins, RadioFails, RadioDrops, RadioTurns, flags, client
<1>2. /\ \A e : ~Holds(air, e)
      /\ ~Pending(WifiDown)
      /\ radio = "connecting" => ~Pending(WifiUp)
      /\ pc \notin WifiStarts
      /\ ~(pc \in StoppingClient /\ goal \in {"wifi", "wifi_undrained"})
  BY <1>1, CalmEmpty DEF Calm, RadioCalm
<1>3. PICK ev \in {WifiUp, WifiDown} :
        /\ air' = <<ev>>
        /\ ev = WifiUp => radio = "connecting" /\ radio' = "up"
        /\ ev = WifiDown => radio' = "idle"
  <2>1. \A e \in {WifiUp, WifiDown} : air' = Append(air, e) => air' = <<e>>
    BY <1>1
  <2> QED
    BY <1>1, <2>1, EventNames
<1>4. Len(air') = 1 /\ \A e : Holds(air', e) <=> e = ev
  BY <1>3 DEF Holds
<1>5. /\ Holds(queue, WifiUp) => radio = "up"
      /\ ~Holds(queue, WifiDown)
      /\ radio = "connecting" => ~Holds(queue, WifiUp)
  BY <1>1, <1>2 DEF Calm, RadioCalm, Pending
<1>6. QueueCalm'
  BY <1>1, <1>3, <1>4, <1>5 DEF Calm, QueueCalm
<1>7. RadioCalm'
  <2>1. Pending(WifiUp)' => radio' \in {"up", "idle"}
    BY <1>1
  <2>2. Pending(WifiDown)' => radio' = "idle"
    BY <1>1, <1>3, <1>4, <1>5, EventNames DEF Pending
  <2>3. ~Pending(WifiUp) /\ radio # "connecting" => ~Pending(WifiUp)'
    BY <1>1, <1>3, <1>4, EventNames DEF Pending
  <2> QED
    BY <1>1, <1>2, <2>1, <2>2, <2>3 DEF Calm, RadioCalm
<1>8. NewsOfClient'
  BY <1>1 DEF Calm, NewsOfClient, NoClientNews
<1>9. ClientHeard'
  BY <1>1 DEF Calm, ClientHeard
<1> QED
  BY <1>6, <1>7, <1>8, <1>9 DEF Calm

LEMMA CalmClient ==
  ASSUME Located, ClientInv, Calm, Client
  PROVE  Calm'
<1>1. /\ UNCHANGED <<pc, state, goal, queue, air, listening, radio>>
      /\ \/ /\ conn = "connecting" /\ conn' = "connected"
            /\ callback' = <<"test", MqttUp>>
         \/ /\ conn \in {"connecting", "connected"} /\ conn' = "lost"
            /\ callback' = <<"test", MqttDown>>
  BY DEF Client, ClientJoins, ClientFails, ClientDrops, ClientTurns, flags, wifi
<1>2. pc \in {"mqtt_wait", "run_wait", "client_deaf", "client_stop"}
  BY <1>1 DEF ClientInv, ClientPlace
<1>3. conn = "connecting" => state = "MQTT_CONN"
  BY <1>2 DEF Located, Calm, ClientHeard
<1>4. /\ conn = "connecting" => NoClientNews
      /\ conn = "connected" => ~Holds(queue, MqttDown)
  BY <1>2, <1>3 DEF Calm, NewsOfClient
<1>5. QueueCalm'
  BY <1>1, SameNews DEF Calm
<1>6. RadioCalm'
  BY <1>1, SameNews DEF Calm, RadioCalm
<1>7. callback'[2] = MqttUp \/ callback'[2] = MqttDown
  BY <1>1
<1>8. NewsOfClient'
  <2>1. CASE conn' = "connected"
    BY <1>1, <1>4, <2>1, EventNames DEF NewsOfClient, NoClientNews
  <2>2. CASE conn' = "lost"
    BY <1>1, <1>4, <2>2, EventNames DEF NewsOfClient, NoClientNews
  <2> QED
    BY <1>1, <2>1, <2>2
<1>9. ClientHeard'
  BY <1>1 DEF Calm, ClientHeard
<1> QED
  BY <1>5, <1>6, <1>8, <1>9 DEF Calm

LEMMA CalmStep ==
  ASSUME QueueDepth >= 4, TypeOK, ClientInv, CalmInv, [Next]_vars
  PROVE  CalmInv'
<1>0. Located /\ EventsOK /\ RangesOK
  BY TypeParts
<1>1. CASE MachineTask
  BY <1>1, CalmMachine
<1>2. CASE UNCHANGED vars
  <2>1. UNCHANGED <<pc, state, goal, queue, air, listening, radio, conn,
                    callback, unclean>>
    BY <1>2 DEF vars, flags, wifi, client, world
  <2>2. Calm => Calm'
    BY <2>1, SameNews DEF Calm, RadioCalm, NewsOfClient, ClientHeard
  <2> QED
    BY <2>1, <2>2 DEF CalmInv, Unsettled
<1>3. CASE Surroundings
  <2>1. pc' = pc /\ unclean' = unclean
    BY <1>3, LocatedSurroundings
  <2>2. SUFFICES ASSUME Calm PROVE Calm'
    BY <2>1 DEF CalmInv, Unsettled
  <2>3. CASE ApTurns \/ BrokerTurns
    <3>1. UNCHANGED <<pc, state, goal, queue, air, listening, radio, conn,
                      callback>>
      BY <2>3 DEF ApTurns, BrokerTurns, flags, wifi, client
    <3> QED
      BY <2>2, <3>1, SameNews DEF Calm, RadioCalm, NewsOfClient, ClientHeard
  <2>4. CASE WifiEventHandler
    BY <1>0, <2>2, <2>4, CalmWifiEvent
  <2>5. CASE ClientTask
    BY <1>0, <2>2, <2>5, CalmCallbackTest, CalmCallbackSend DEF ClientTask
  <2>6. CASE Radio
    BY <1>0, <2>2, <2>6, CalmRadio
  <2>7. CASE Client
    BY <1>0, <2>2, <2>7, CalmClient
  <2> QED
    BY <1>3, <2>3, <2>4, <2>5, <2>6, <2>7 DEF Surroundings
<1> QED
  BY <1>1, <1>2, <1>3, NextParts

LEMMA CalmAlways ==
  ASSUME QueueDepth >= 4
  PROVE  Spec => [](TypeOK /\ ClientInv /\ CalmInv)
<1>1. Init => ClientInv /\ CalmInv
  BY CalmStart, EmptyHolds
     DEF Init, CalmInv, ClientInv, OnlineRuns, RunsOverClient, ClientPlace,
         CallbackOfClient, NoStaleUp
<1>2. TypeOK /\ ClientInv /\ [Next]_vars => ClientInv'
  BY ClientStep
<1>3. TypeOK /\ ClientInv /\ CalmInv /\ [Next]_vars => CalmInv'
  BY CalmStep
<1> QED
  BY <1>1, <1>2, <1>3, TypeCorrect, PTL DEF Spec

(* cache_task.c:34-39: while the cache publishes directly, its client did  *)
(* connect, and if that connection is lost the news of it are on the way   *)
(* to the state machine, in a queue of four places or more (the code has   *)
(* ten, state_machine.c:27).                                               *)
THEOREM OnlineIsTrue ==
  ASSUME QueueDepth >= 4
  PROVE  Spec => []OnlineTruthful
<1>1. TypeOK /\ ClientInv /\ CalmInv => OnlineTruthful
  <2>1. SUFFICES ASSUME TypeOK, ClientInv, CalmInv, online, ~unclean
                 PROVE  OnlineTruthful
    BY DEF OnlineTruthful
  <2>2. pc = "run_wait" /\ conn # "none"
    BY <2>1 DEF ClientInv, OnlineRuns, RunsOverClient
  <2>3. Located /\ EventsOK /\ RangesOK
    BY <2>1, TypeParts
  <2>4. Calm /\ state = "RUNNING"
    BY <2>1, <2>2, <2>3 DEF CalmInv, Unsettled, Located
  <2>5. listening /\ conn \in {"connected", "lost"}
    BY <2>2, <2>3, <2>4 DEF Calm, ClientHeard, RangesOK
  <2>6. Holds(queue, MqttDown) => Queued(MqttDown)
    BY <2>3 DEF Holds, Queued, EventsOK
  <2> QED
    BY <2>2, <2>4, <2>5, <2>6 DEF OnlineTruthful, Calm, ClientHeard
<1> QED
  BY <1>1, CalmAlways, PTL

(* The one step that goes back to WIFI_CONN.                               *)
LEMMA FallBackStep ==
  ASSUME MachineTask, state \in {"MQTT_CONN", "RUNNING"}, state' = "WIFI_CONN",
         Located
  PROVE  BackToWifi
<1> USE DEF Go, Receive, TimeOut, Located
<1>1. CASE HandleInit
  BY <1>1 DEF HandleInit
<1>2. CASE \/ InitFails \/ EspRestart
           \/ WifiStart \/ WifiStartFails \/ WifiRestart \/ WifiRestartFails
  BY <1>2 DEF InitFails, EspRestart, WifiStart, WifiStartFails,
              WifiRestart, WifiRestartFails, WifiDriverStart,
              WifiDriverStartFails
<1>3. CASE Wake
  BY <1>3, WakesFact
<1>4. CASE \/ WifiConnected \/ WifiAttemptOver \/ WifiDriverStop
           \/ WifiDriverStopFails \/ WifiDrain
  BY <1>4 DEF WifiConnected, WifiAttemptOver, WifiDriverStop,
              WifiDriverStopFails, WifiDrain
<1>5. CASE MqttStart \/ MqttStartFails \/ MqttRestart \/ MqttRestartFails
  BY <1>5 DEF MqttStart, MqttStartFails, MqttRestart, MqttRestartFails,
              MqttAppStart, MqttAppStartFails
<1>6. CASE MqttConnected \/ EventIgnored \/ MqttAppStop \/ ClientDestroyed
  BY <1>6 DEF MqttConnected, EventIgnored, MqttAppStop, ClientDestroyed
<1>7. CASE WifiLostWhileConnecting \/ MqttAttemptOver \/ WifiLost \/ MqttLost
  BY <1>7 DEF WifiLostWhileConnecting, MqttAttemptOver, WifiLost, MqttLost,
              GiveUpClient
<1>8. CASE BackToMqtt
  BY <1>8 DEF BackToMqtt, BackTo
<1> QED
  BY <1>1, <1>2, <1>3, <1>4, <1>5, <1>6, <1>7, <1>8 DEF MachineTask

(* The comment at state_machine.c:52-59: no leftover event is mistaken for *)
(* the loss of the WiFi, so that the machine leaves MQTT_CONN or RUNNING   *)
(* for WIFI_CONN only when the link is down.                               *)
THEOREM FallsBackForAReason ==
  ASSUME QueueDepth >= 4
  PROVE  Spec => FallBackJustified
<1>1. ASSUME TypeOK, ClientInv, CalmInv, [Next]_vars,
             state \in {"MQTT_CONN", "RUNNING"}, state' = "WIFI_CONN"
      PROVE  radio # "up" \/ unclean
  <2>0. Located /\ EventsOK /\ RangesOK
    BY <1>1, TypeParts
  <2>1. state' # state
    BY <1>1
  <2>2. MachineTask
    BY <1>1, <2>1, NextParts, LocatedSurroundings DEF vars
  <2>3. BackToWifi
    BY <1>1, <2>0, <2>2, FallBackStep
  <2>4. pc = "client_gone"
    BY <2>3 DEF BackToWifi, Go
  <2>5. SUFFICES ASSUME ~unclean PROVE radio # "up"
    OBVIOUS
  <2>6. Calm
    BY <1>1, <2>4, <2>5 DEF CalmInv, Unsettled
  <2> QED
    BY <1>1, <2>0, <2>3, <2>6, CalmBackToWifi
<1>2. TypeOK /\ ClientInv /\ CalmInv /\ [Next]_vars
        => [(state \in {"MQTT_CONN", "RUNNING"} /\ state' = "WIFI_CONN")
              => radio # "up" \/ unclean]_vars
  BY <1>1
<1> QED
  BY <1>2, CalmAlways, PTL DEF Spec, FallBackJustified

(***************************************************************************)
(* No event is dropped.  An event is counted before it is raised: one of   *)
(* the radio that is in the air, two that a connecting radio can still     *)
(* report (it joins, then loses the link), one of a radio that is up; and  *)
(* the same of the client.  The task makes this sum grow only where it     *)
(* starts the radio or the client, and the queue is drained on every way   *)
(* back to such a start but one (state_machine.c:197).  That way needs a   *)
(* WifiUp for every start of the client, and it is cut off once an event   *)
(* of the client waits: the wait for the WiFi ends with a drain there.  So *)
(* the quota of each point counts the WifiUps that wait before any event   *)
(* of the client.                                                          *)
(***************************************************************************)
WifiNews == {WifiUp, WifiDown}
HasClient == Holds(queue, MqttUp) \/ Holds(queue, MqttDown)

(* The places of a WifiUp with nothing but WiFi events before it.          *)
Leading(s) ==
  {i \in 1 .. Len(s) : s[i] = WifiUp /\ \A j \in 1 .. i : s[j] \in WifiNews}
Ups(s) == Cardinality(Leading(s))

RadioDue == IF radio = "connecting" THEN 2 ELSE IF radio = "up" THEN 1 ELSE 0
ConnDue ==
  IF conn = "connecting" THEN 2 ELSE IF conn = "connected" THEN 1 ELSE 0
CallDue == IF callback = Quiet THEN 0 ELSE 1

WifiDue == Len(air) + RadioDue
ClientDue == ConnDue + CallDue
Due == Len(queue) + WifiDue + ClientDue
UpsDue ==
  (IF air # <<>> /\ Head(air) = WifiUp THEN 1 ELSE 0)
    + (IF radio = "connecting" THEN 1 ELSE 0)

Stopping == pc \in {"wifi_drain", "wifi_stopped_sleep"}
AirShape ==
  /\ WifiDue <= 3
  /\ UpsDue <= 1
  /\ Len(air) <= 1 \/ (Stopping /\ Len(air) = 2 /\ radio = "off")
  /\ \A i \in 2 .. Len(air) : air[i] = WifiDown
  /\ (air # <<>> /\ Head(air) = WifiUp) =>
       IF Stopping THEN radio # "connecting" ELSE radio = "up"

(* At most w places and u leading WifiUps without news of the client; with *)
(* them at most most places, and at most few if there are leading WifiUps, *)
(* of which there are at most h.                                           *)
Quota(w, u, h, few, most) ==
  \/ ~HasClient /\ Len(queue) + WifiDue <= w /\ Ups(queue) + UpsDue <= u
  \/ HasClient /\ Due <= most /\ Ups(queue) <= h /\ (Ups(queue) > 0 => Due <= few)

Undrained == pc \in StopPoints /\ goal = "wifi_undrained"

Backlog ==
  /\ Due <= 9
  /\ ClientDue <= 2
  /\ pc \in {"init", "reset"} => queue = <<>> /\ air = <<>> /\ radio = "off"
  /\ (pc \in {"wifi_start", "wifi_start_sleep"} \/ Undrained)
       => Quota(3, 1, 1, 5, 7)
  /\ pc \in {"wifi_wait", "wifi_retry_sleep"} => Quota(5, 2, 1, 7, 9)
  /\ pc \in {"wifi_stop", "wifi_drain", "wifi_stopped_sleep", "wifi_restart"}
       => /\ ~HasClient
          /\ Len(queue) + WifiDue <= 3
          /\ Ups(queue) + UpsDue <= 1
  /\ pc \in {"mqtt_start", "mqtt_start_sleep", "mqtt_stopped_sleep",
             "mqtt_restart", "mqtt_retry_sleep"}
       => Quota(4, 1, 0, 6, 6)
  /\ pc = "mqtt_wait" => Quota(4, 1, 1, 6, 8)

(* The leading WifiUps of a queue are finitely many, ...                   *)
LEMMA UpsType ==
  ASSUME NEW s \in Seq(Events)
  PROVE  IsFiniteSet(Leading(s)) /\ Ups(s) \in Nat
<1>1. IsFiniteSet(1 .. Len(s))
  BY FS_Interval
<1>2. Leading(s) \in SUBSET (1 .. Len(s))
  BY DEF Leading
<1> QED
  BY <1>1, <1>2, FS_Subset, FS_CardinalityType DEF Ups

(* ... none is in an empty queue, ...                                      *)
LEMMA UpsEmpty == Leading(<<>>) = {} /\ Ups(<<>>) = 0
<1>1. Leading(<<>>) = {}
  BY DEF Leading
<1> QED
  BY <1>1, FS_EmptySet DEF Ups

(* ... a WifiUp that is sent is one more, unless an event of the client    *)
(* waits before it, ...                                                    *)
LEMMA UpsAppend ==
  ASSUME NEW s \in Seq(Events), NEW e \in Events
  PROVE  /\ Ups(Append(s, e)) <= Ups(s) + (IF e = WifiUp THEN 1 ELSE 0)
         /\ Holds(s, MqttUp) \/ Holds(s, MqttDown) \/ e # WifiUp
              => Ups(Append(s, e)) = Ups(s)
<1> DEFINE t == Append(s, e)
           n == Len(s) + 1
<1>1. /\ t \in Seq(Events) /\ Len(t) = n /\ t[n] = e
      /\ \A i \in 1 .. Len(s) : t[i] = s[i]
      /\ Len(s) \in Nat
  BY AppendFact
<1> HIDE DEF t
<1>2. Leading(t) \in SUBSET (Leading(s) \cup {n})
  BY <1>1 DEF Leading
<1>3. Leading(s) \in SUBSET Leading(t)
  BY <1>1 DEF Leading
<1>4. n \notin Leading(s)
  BY <1>1 DEF Leading
<1>5. n \in Leading(t) => e = WifiUp /\ ~Holds(s, MqttUp) /\ ~Holds(s, MqttDown)
  <2>1. SUFFICES ASSUME n \in Leading(t)
                 PROVE  /\ e = WifiUp
                        /\ \A i \in 1 .. Len(s) : s[i] \in WifiNews
    BY DEF Holds, WifiNews, WifiUp, WifiDown, MqttUp, MqttDown
  <2> QED
    BY <1>1, <2>1 DEF Leading
<1>6. IsFiniteSet(Leading(s)) /\ Ups(s) \in Nat
  BY UpsType
<1>7. Cardinality(Leading(s) \cup {n}) = Ups(s) + 1
  BY <1>4, <1>6, FS_AddElement DEF Ups
<1>8. CASE n \in Leading(t)
  <2>1. Leading(t) = Leading(s) \cup {n}
    BY <1>2, <1>3, <1>8
  <2> QED
    BY <1>5, <1>6, <1>7, <1>8, <2>1 DEF Ups, t
<1>9. CASE n \notin Leading(t)
  <2>1. Leading(t) = Leading(s)
    BY <1>2, <1>3, <1>9
  <2> QED
    BY <1>6, <2>1 DEF Ups, t
<1> QED
  BY <1>8, <1>9

(* ... and one that is taken out is one less.                              *)
LEMMA UpsTail ==
  ASSUME NEW s \in Seq(Events), s # <<>>, Head(s) \in WifiNews
  PROVE  /\ Ups(Tail(s)) <= Ups(s)
         /\ Head(s) = WifiUp => Ups(Tail(s)) < Ups(s)
<1> DEFINE t == Tail(s)
           rest == Leading(s) \ {1}
           shift == [i \in Leading(t) |-> i + 1]
<1>1. /\ Len(s) \in Nat /\ Len(s) > 0 /\ Head(s) = s[1]
      /\ t \in Seq(Events) /\ Len(t) = Len(s) - 1
      /\ \A i \in 1 .. Len(s) - 1 : t[i] = s[i + 1]
  BY TailFact
<1> HIDE DEF t
<1>2. ASSUME NEW i \in Leading(t)
      PROVE  i + 1 \in rest
  <2>1. /\ i \in 1 .. Len(t) /\ t[i] = WifiUp
        /\ \A j \in 1 .. i : t[j] \in WifiNews
    BY DEF Leading
  <2>2. i + 1 \in 1 .. Len(s) /\ s[i + 1] = WifiUp
    BY <1>1, <2>1
  <2>3. \A j \in 1 .. i + 1 : s[j] \in WifiNews
    <3>1. TAKE j \in 1 .. i + 1
    <3>2. CASE j = 1
      BY <1>1, <3>2
    <3>3. CASE j # 1
      <4>1. j - 1 \in 1 .. i /\ j - 1 \in 1 .. Len(s) - 1 /\ (j - 1) + 1 = j
        BY <1>1, <2>1, <3>3
      <4> QED
        BY <1>1, <2>1, <4>1
    <3> QED
      BY <3>2, <3>3
  <2> QED
    BY <2>1, <2>2, <2>3 DEF Leading
<1>3. \A i \in Leading(t) : i \in Nat
  BY <1>1 DEF Leading
<1>4. shift \in Injection(Leading(t), rest)
  <2>1. shift \in [Leading(t) -> rest]
    BY <1>2
  <2>2. \A i, j \in Leading(t) : shift[i] = shift[j] => i = j
    BY <1>3
  <2> QED
    BY <2>1, <2>2 DEF Injection, IsInjective
<1>5. IsFiniteSet(Leading(s)) /\ Ups(s) \in Nat /\ Ups(t) \in Nat
  BY <1>1, UpsType
<1>6. /\ IsFiniteSet(rest)
      /\ Cardinality(rest) = IF 1 \in Leading(s) THEN Ups(s) - 1 ELSE Ups(s)
  BY <1>5, FS_RemoveElement DEF Ups
<1>7. Ups(t) <= Cardinality(rest)
  BY <1>4, <1>6, FS_Injection DEF Ups
<1>8. Head(s) = WifiUp => 1 \in Leading(s)
  BY <1>1 DEF Leading, WifiNews
<1> QED
  BY <1>5, <1>6, <1>7, <1>8 DEF t

(* The sizes that are counted are numbers.                                 *)
LEMMA DueType ==
  ASSUME EventsOK, RangesOK
  PROVE  /\ Len(queue) \in Nat /\ Len(air) \in Nat /\ Ups(queue) \in Nat
         /\ RadioDue \in 0 .. 2 /\ ConnDue \in 0 .. 2 /\ CallDue \in 0 .. 1
         /\ WifiDue \in Nat /\ ClientDue \in Nat /\ UpsDue \in 0 .. 2
         /\ Due \in Nat
<1>1. Len(queue) \in Nat /\ Len(air) \in Nat /\ Ups(queue) \in Nat
  BY UpsType DEF EventsOK
<1>2. RadioDue \in 0 .. 2 /\ ConnDue \in 0 .. 2 /\ CallDue \in 0 .. 1
  BY DEF RadioDue, ConnDue, CallDue
<1> QED
  BY <1>1, <1>2 DEF Due, WifiDue, ClientDue, UpsDue

(* Without a client nothing of a client is due.                            *)
LEMMA NoClientDue ==
  ASSUME ClientInv
  PROVE  pc \notin {"mqtt_wait", "run_wait", "client_deaf", "client_stop"}
           => conn = "none" /\ callback = Quiet /\ ClientDue = 0
BY DEF ClientInv, ClientPlace, CallbackOfClient, ClientDue, ConnDue, CallDue

LEMMA DrainedCount ==
  ASSUME queue' = <<>>
  PROVE  Len(queue') = 0 /\ ~HasClient' /\ Ups(queue') = 0
BY UpsEmpty, EmptyHolds DEF HasClient

LEMMA TakenCount ==
  ASSUME EventsOK, queue # <<>>, queue' = Tail(queue)
  PROVE  /\ Len(queue) > 0 /\ Len(queue') = Len(queue) - 1
         /\ Head(queue) \in WifiNews
              => /\ HasClient' <=> HasClient
                 /\ Ups(queue') \in Nat /\ Ups(queue') <= Ups(queue)
         /\ Head(queue) = WifiUp => Ups(queue') < Ups(queue)
<1>1. /\ queue \in Seq(Events) /\ Len(queue) \in Nat
      /\ Len(queue) > 0 /\ Head(queue) = queue[1]
      /\ Tail(queue) \in Seq(Events) /\ Len(Tail(queue)) = Len(queue) - 1
      /\ \A i \in 1 .. Len(queue) - 1 : Tail(queue)[i] = queue[i + 1]
  BY TailFact DEF EventsOK
<1>2. HasClient' => HasClient
  BY <1>1, TailHolds DEF HasClient
<1>3. ASSUME NEW e \in {MqttUp, MqttDown}, Holds(queue, e),
             Head(queue) \in WifiNews
      PROVE  Holds(queue', e)
  <2>1. PICK i \in 1 .. Len(queue) : queue[i] = e
    BY <1>3 DEF Holds
  <2>2. i # 1
    BY <1>1, <1>3, <2>1 DEF WifiNews, WifiUp, WifiDown, MqttUp, MqttDown
  <2>3. i - 1 \in 1 .. Len(queue) - 1 /\ (i - 1) + 1 = i
    BY <1>1, <2>1, <2>2
  <2> QED
    BY <1>1, <2>1, <2>3 DEF Holds
<1>4. WifiUp \in WifiNews
  BY DEF WifiNews
<1> QED
  BY <1>1, <1>2, <1>3, <1>4, UpsTail, UpsType DEF HasClient

LEMMA SentCount ==
  ASSUME EventsOK, NEW ev \in Events, Send(ev)
  PROVE  /\ Len(queue') \in Nat /\ Len(queue') <= Len(queue) + 1
         /\ Ups(queue') \in Nat
         /\ HasClient => HasClient'
         /\ Ups(queue') <= Ups(queue) + (IF ev = WifiUp THEN 1 ELSE 0)
         /\ HasClient \/ ev # WifiUp => Ups(queue') = Ups(queue)
         /\ ev \in WifiNews => (HasClient' => HasClient)
         /\ HasClient' \/ ev \in WifiNews \/ queue' = queue
<1>1. queue \in Seq(Events) /\ Len(queue) \in Nat /\ Ups(queue) \in Nat
  BY UpsType DEF EventsOK
<1>2. CASE queue' = queue
  BY <1>1, <1>2 DEF HasClient
<1>3. CASE queue' = Append(queue, ev)
  <2>1. /\ queue' \in Seq(Events) /\ Len(queue') = Len(queue) + 1
        /\ \A i \in 1 .. Len(queue) : queue'[i] = queue[i]
        /\ queue'[Len(queue) + 1] = ev
    BY <1>1, <1>3, AppendFact
  <2>2. Ups(queue') \in Nat
    BY <2>1, UpsType
  <2>3. Holds(queue', ev) /\ \A e : Holds(queue, e) => Holds(queue', e)
    BY <1>1, <2>1 DEF Holds
  <2>4. ev \in WifiNews => (HasClient' => HasClient)
    BY <1>1, <1>3, AppendHolds
       DEF HasClient, WifiNews, WifiUp, WifiDown, MqttUp, MqttDown
  <2>5. HasClient' \/ ev \in WifiNews
    BY <2>3 DEF HasClient, Events, WifiNews
  <2> QED
    BY <1>1, <1>3, <2>1, <2>2, <2>3, <2>4, <2>5, UpsAppend DEF HasClient
<1> QED
  BY <1>2, <1>3 DEF Send

(* The counts are read off the variables they are about.                   *)
LEMMA SameCounts ==
  /\ UNCHANGED queue => HasClient' = HasClient /\ Ups(queue') = Ups(queue)
  /\ UNCHANGED wifi => WifiDue' = WifiDue /\ UpsDue' = UpsDue
  /\ UNCHANGED client => ClientDue' = ClientDue
  /\ UNCHANGED wifi /\ (Stopping' = Stopping \/ (Len(air) <= 1 /\ ~Stopping))
       => (AirShape => AirShape')
<1>1. UNCHANGED queue => HasClient' = HasClient /\ Ups(queue') = Ups(queue)
  BY DEF HasClient
<1>2. UNCHANGED wifi => WifiDue' = WifiDue /\ UpsDue' = UpsDue
  BY DEF wifi, WifiDue, RadioDue, UpsDue
<1>3. UNCHANGED client => ClientDue' = ClientDue
  BY DEF client, ClientDue, ConnDue, CallDue
<1>4. UNCHANGED wifi /\ (Stopping' = Stopping \/ (Len(air) <= 1 /\ ~Stopping))
        => (AirShape => AirShape')
  BY <1>2 DEF wifi, AirShape
<1> QED
  BY <1>1, <1>2, <1>3, <1>4

(* A step that makes nothing grow keeps to the quotas.                     *)
LEMMA SumStays ==
  ASSUME NEW a \in Int, NEW b \in Int, NEW c \in Int, NEW d \in Int,
         a <= c, b <= d
  PROVE  a + b <= c + d
OBVIOUS

LEMMA QuotasKept ==
  ASSUME EventsOK, RangesOK, HasClient' = HasClient,
         Len(queue') \in Nat, WifiDue' \in Nat, Ups(queue') \in Nat,
         UpsDue' \in Nat, Due' \in Nat,
         Len(queue') <= Len(queue), WifiDue' <= WifiDue, Due' <= Due,
         Ups(queue') <= Ups(queue), UpsDue' <= UpsDue
  PROVE  /\ Quota(3, 1, 1, 5, 7) => Quota(3, 1, 1, 5, 7)'
         /\ Quota(5, 2, 1, 7, 9) => Quota(5, 2, 1, 7, 9)'
         /\ Quota(4, 1, 0, 6, 6) => Quota(4, 1, 0, 6, 6)'
         /\ Quota(4, 1, 1, 6, 8) => Quota(4, 1, 1, 6, 8)'
<1>1. /\ Len(queue) \in Nat /\ WifiDue \in Nat /\ Ups(queue) \in Nat
      /\ UpsDue \in Nat /\ Due \in Nat
  BY DueType
<1>2. /\ Len(queue') + WifiDue' <= Len(queue) + WifiDue
      /\ Ups(queue') + UpsDue' <= Ups(queue) + UpsDue
  BY <1>1, SumStays
<1>3. /\ Len(queue) + WifiDue \in Nat /\ Len(queue') + WifiDue' \in Nat
      /\ Ups(queue) + UpsDue \in Nat /\ Ups(queue') + UpsDue' \in Nat
  BY <1>1
<1>4. \A w, u \in Nat :
        Len(queue) + WifiDue <= w /\ Ups(queue) + UpsDue <= u
          => Len(queue') + WifiDue' <= w /\ Ups(queue') + UpsDue' <= u
  <2> DEFINE p == Len(queue) + WifiDue
             q == Ups(queue) + UpsDue
  <2>1. /\ p \in Nat /\ q \in Nat /\ p' \in Nat /\ q' \in Nat
        /\ p' <= p /\ q' <= q
    BY <1>2, <1>3
  <2> HIDE DEF p, q
  <2>2. \A w, u \in Nat : p <= w /\ q <= u => p' <= w /\ q' <= u
    BY <2>1
  <2> QED
    BY <2>2 DEF p, q
<1>5. \A h, few, most \in Nat :
        Due <= most /\ Ups(queue) <= h /\ (Ups(queue) > 0 => Due <= few)
          => /\ Due' <= most /\ Ups(queue') <= h
             /\ Ups(queue') > 0 => Due' <= few
  BY <1>1
<1>6. Quota(3, 1, 1, 5, 7) => Quota(3, 1, 1, 5, 7)'
  BY <1>4, <1>5 DEF Quota
<1>7. Quota(5, 2, 1, 7, 9) => Quota(5, 2, 1, 7, 9)'
  BY <1>4, <1>5 DEF Quota
<1>8. Quota(4, 1, 0, 6, 6) => Quota(4, 1, 0, 6, 6)'
  BY <1>4, <1>5 DEF Quota
<1>9. Quota(4, 1, 1, 6, 8) => Quota(4, 1, 1, 6, 8)'
  BY <1>4, <1>5 DEF Quota
<1> QED
  BY <1>6, <1>7, <1>8, <1>9

(* The quota of a wait is no smaller than that of the sleep before it.     *)
LEMMA QuotaGrows ==
  ASSUME EventsOK, RangesOK, Quota(4, 1, 0, 6, 6)
  PROVE  Quota(4, 1, 1, 6, 8)
BY DueType DEF Quota

LEMMA BacklogInit ==
  ASSUME EventsOK, RangesOK, AirShape, Backlog,
         HandleInit \/ InitFails \/ EspRestart
  PROVE  AirShape' /\ Backlog'
<1>1. /\ UNCHANGED <<queue, wifi, client, goal>>
      /\ pc \in {"init", "reset"} /\ pc' \in {"init", "reset", "wifi_start"}
  BY DEF HandleInit, InitFails, EspRestart, Go
<1>2. queue = <<>> /\ air = <<>> /\ radio = "off"
  BY <1>1 DEF Backlog
<1>3. AirShape'
  BY <1>1, SameCounts DEF AirShape, Stopping
<1>4. Len(queue) = 0 /\ ~HasClient /\ Ups(queue) = 0
  BY <1>2, UpsEmpty, EmptyHolds DEF HasClient
<1>5. WifiDue = 0 /\ UpsDue = 0 /\ Due' = Due
  BY <1>1, <1>2, SameCounts DEF WifiDue, RadioDue, UpsDue, Due
<1>6. /\ UNCHANGED <<queue, air, radio>> /\ HasClient' = HasClient
      /\ Ups(queue') = Ups(queue) /\ UpsDue' = UpsDue
      /\ WifiDue' = WifiDue /\ ClientDue' = ClientDue
  BY <1>1, SameCounts DEF wifi
<1> QED
  BY <1>1, <1>2, <1>3, <1>4, <1>5, <1>6
     DEF Backlog, Quota, Undrained, StopPoints

LEMMA BacklogWake ==
  ASSUME EventsOK, RangesOK, AirShape, Backlog, Wake
  PROVE  AirShape' /\ Backlog'
<1>1. UNCHANGED <<queue, wifi, client, goal>> /\ air = <<>>
  BY WakesFact
<1>2. /\ UNCHANGED <<queue, air, radio>> /\ HasClient' = HasClient
      /\ Ups(queue') = Ups(queue) /\ UpsDue' = UpsDue
      /\ WifiDue' = WifiDue /\ ClientDue' = ClientDue /\ Due' = Due
  BY <1>1, SameCounts DEF wifi, Due
<1>3. AirShape'
  BY <1>1, <1>2 DEF AirShape
<1>4. /\ Quota(3, 1, 1, 5, 7) => Quota(3, 1, 1, 5, 7)'
      /\ Quota(5, 2, 1, 7, 9) => Quota(5, 2, 1, 7, 9)'
      /\ Quota(4, 1, 0, 6, 6) => Quota(4, 1, 0, 6, 6)'
      /\ Quota(4, 1, 1, 6, 8) => Quota(4, 1, 1, 6, 8)'
  BY <1>2, DueType, QuotasKept
<1>5. Due' <= 9 /\ ClientDue' <= 2
  BY <1>2 DEF Backlog
<1>6. CASE pc = "wifi_start_sleep" /\ pc' = "wifi_start"
  BY <1>3, <1>4, <1>5, <1>6 DEF Backlog, Undrained, StopPoints
<1>7. CASE pc = "wifi_stopped_sleep" /\ pc' = "wifi_restart"
  BY <1>2, <1>3, <1>5, <1>7 DEF Backlog, Undrained, StopPoints
<1>8. CASE pc = "wifi_retry_sleep" /\ pc' = "wifi_wait"
  BY <1>3, <1>4, <1>5, <1>8 DEF Backlog, Undrained, StopPoints
<1>9. CASE \/ pc = "mqtt_start_sleep" /\ pc' = "mqtt_start"
           \/ pc = "mqtt_stopped_sleep" /\ pc' = "mqtt_restart"
  BY <1>3, <1>4, <1>5, <1>9 DEF Backlog, Undrained, StopPoints
<1>10. CASE pc = "mqtt_retry_sleep" /\ pc' = "mqtt_wait"
  <2>1. Quota(4, 1, 1, 6, 8)
    BY <1>10, QuotaGrows DEF Backlog
  <2> QED
    BY <1>3, <1>4, <1>5, <1>10, <2>1 DEF Backlog, Undrained, StopPoints
<1> QED
  BY <1>6, <1>7, <1>8, <1>9, <1>10, WakesFact

(* wifi_driver_start: a radio that was off can report twice.               *)
LEMMA BacklogWifiStarts ==
  ASSUME EventsOK, RangesOK, ClientInv, AirShape, Backlog,
         WifiStart \/ WifiStartFails \/ WifiRestart \/ WifiRestartFails
  PROVE  AirShape' /\ Backlog'
<1>1. /\ UNCHANGED <<queue, air, client, goal>>
      /\ \/ /\ pc = "wifi_start" /\ pc' \in {"wifi_wait", "wifi_start_sleep"}
         \/ /\ pc = "wifi_restart" /\ pc' \in {"wifi_wait", "wifi_retry_sleep"}
      /\ \/ radio' = radio
         \/ radio = "off" /\ radio' = "idle"
         \/ /\ radio \in {"off", "idle"} /\ radio' = "connecting"
            /\ pc' = "wifi_wait"
  BY DEF WifiStart, WifiStartFails, WifiRestart, WifiRestartFails,
         WifiDriverStart, WifiDriverStartFails, Go
<1>2. /\ HasClient' = HasClient /\ Ups(queue') = Ups(queue)
      /\ ClientDue = 0 /\ ClientDue' = 0
  BY <1>1, SameCounts, NoClientDue
<1>3. CASE UNCHANGED radio \/ (radio = "off" /\ radio' = "idle")
  <2>1. WifiDue' = WifiDue /\ UpsDue' = UpsDue /\ Due' = Due
    BY <1>1, <1>2, <1>3 DEF WifiDue, RadioDue, UpsDue, Due
  <2>2. AirShape'
    BY <1>1, <1>3, <2>1 DEF AirShape, Stopping
  <2>3. Backlog'
    BY <1>1, <1>2, <2>1, DueType DEF Backlog, Quota, Undrained, StopPoints
  <2> QED
    BY <2>2, <2>3
<1>4. CASE radio \in {"off", "idle"} /\ radio' = "connecting"
  <2>1. ~(air # <<>> /\ Head(air) = WifiUp) /\ Len(air) <= 1
    BY <1>1, <1>4 DEF AirShape, Stopping
  <2>2. /\ WifiDue = Len(air) /\ WifiDue' = WifiDue + 2 /\ Due' = Due + 2
        /\ UpsDue = 0 /\ UpsDue' = 1
    BY <1>1, <1>2, <1>4, <2>1, DueType DEF WifiDue, RadioDue, UpsDue, Due
  <2>3. AirShape'
    BY <1>1, <1>4, <2>1, <2>2, DueType DEF AirShape, Stopping
  <2>4. Backlog'
    BY <1>1, <1>2, <1>4, <2>2, DueType
       DEF Backlog, Quota, Undrained, StopPoints, Due
  <2> QED
    BY <2>3, <2>4
<1> QED
  BY <1>1, <1>3, <1>4

(* mqtt_app_start: a new client can report twice.                          *)
LEMMA BacklogMqttStarts ==
  ASSUME EventsOK, RangesOK, ClientInv, AirShape, Backlog,
         MqttStart \/ MqttStartFails \/ MqttRestart \/ MqttRestartFails
  PROVE  AirShape' /\ Backlog'
<1>1. /\ UNCHANGED <<queue, wifi, goal, callback>>
      /\ pc \in {"mqtt_start", "mqtt_restart"}
      /\ \/ pc' = "mqtt_wait" /\ conn' = "connecting"
         \/ pc' \in {"mqtt_start_sleep", "mqtt_retry_sleep"} /\ conn' = "none"
  BY DEF MqttStart, MqttStartFails, MqttRestart, MqttRestartFails,
         MqttAppStart, MqttAppStartFails, Go
<1>2. ClientDue = 0 /\ callback = Quiet
  BY <1>1, NoClientDue
<1>3. /\ HasClient' = HasClient /\ Ups(queue') = Ups(queue)
      /\ WifiDue' = WifiDue /\ UpsDue' = UpsDue
      /\ ClientDue' = IF conn' = "connecting" THEN 2 ELSE 0
  BY <1>1, <1>2, SameCounts DEF ClientDue, ConnDue, CallDue
<1>4. AirShape'
  BY <1>1, SameCounts DEF Stopping
<1>5. Backlog'
  <2>1. Quota(4, 1, 0, 6, 6)
    BY <1>1 DEF Backlog
  <2>2. Due' = Due + ClientDue' /\ Due = Len(queue) + WifiDue
    BY <1>1, <1>2, <1>3, DueType DEF Due
  <2>3. CASE pc' = "mqtt_wait"
    <3>1. ClientDue' = 2 /\ Due' = Due + 2 /\ Due \in Nat
      BY <1>1, <1>3, <2>2, <2>3, DueType
    <3>2. CASE ~HasClient
      <4>1. Len(queue) + WifiDue <= 4 /\ Ups(queue) + UpsDue <= 1
        BY <2>1, <3>2 DEF Quota
      <4>2. Len(queue') + WifiDue' <= 4 /\ Ups(queue') + UpsDue' <= 1
        BY <1>1, <1>3, <4>1
      <4>3. Due' <= 9
        BY <2>2, <3>1, <4>1
      <4> QED
        BY <1>3, <2>3, <3>1, <3>2, <4>2, <4>3
           DEF Backlog, Quota, Undrained, StopPoints
    <3>3. CASE HasClient
      <4>1. Due <= 6 /\ Ups(queue) = 0
        BY <2>1, <3>3, DueType DEF Quota
      <4>2. Due' <= 8 /\ Due' <= 9 /\ Ups(queue') = 0
        BY <1>3, <3>1, <4>1
      <4> QED
        BY <1>3, <2>3, <3>1, <3>3, <4>2
           DEF Backlog, Quota, Undrained, StopPoints
    <3> QED
      BY <3>2, <3>3
  <2>4. CASE pc' # "mqtt_wait"
    <3>1. ClientDue' = 0 /\ Due' = Due /\ Due <= 9
      BY <1>1, <1>3, <2>2, <2>4, DueType DEF Backlog
    <3>2. Quota(4, 1, 0, 6, 6)'
      BY <1>1, <1>3, <2>1, <3>1, DueType, QuotasKept
    <3> QED
      BY <1>1, <2>4, <3>1, <3>2 DEF Backlog, Undrained, StopPoints
  <2> QED
    BY <2>3, <2>4
<1> QED
  BY <1>4, <1>5

(* A WifiUp that is taken leaves one leading WifiUp less.                  *)
LEMMA BacklogWifiConnected ==
  ASSUME EventsOK, RangesOK, ClientInv, AirShape, Backlog, WifiConnected
  PROVE  AirShape' /\ Backlog'
<1>1. /\ UNCHANGED <<wifi, client, goal>>
      /\ pc = "wifi_wait" /\ pc' = "mqtt_start"
      /\ queue # <<>> /\ queue' = Tail(queue) /\ Head(queue) = WifiUp
  BY DEF WifiConnected, Receive
<1>2. /\ Len(queue) > 0 /\ Len(queue') = Len(queue) - 1
      /\ HasClient' <=> HasClient
      /\ Ups(queue') \in Nat /\ Ups(queue') < Ups(queue)
  BY <1>1, TakenCount DEF WifiNews
<1>3. /\ WifiDue' = WifiDue /\ UpsDue' = UpsDue
      /\ ClientDue' = ClientDue /\ ClientDue = 0
  BY <1>1, SameCounts, NoClientDue
<1>4. AirShape'
  BY <1>1, SameCounts DEF Stopping
<1>5. Due' = Due - 1
  BY <1>2, <1>3, DueType DEF Due
<1>6. Due' <= 9 /\ ClientDue' <= 2
  BY <1>3, <1>5, DueType DEF Backlog
<1>7. Quota(4, 1, 0, 6, 6)'
  <2>1. Quota(5, 2, 1, 7, 9)
    BY <1>1 DEF Backlog
  <2>2. CASE HasClient
    <3>1. Ups(queue) <= 1 /\ (Ups(queue) > 0 => Due <= 7)
      BY <2>1, <2>2 DEF Quota
    <3>2. Ups(queue') = 0 /\ Due' <= 6
      BY <1>2, <1>5, <3>1, DueType
    <3> QED
      BY <1>2, <2>2, <3>2 DEF Quota
  <2>3. CASE ~HasClient
    <3>1. Len(queue) + WifiDue <= 5 /\ Ups(queue) + UpsDue <= 2
      BY <2>1, <2>3 DEF Quota
    <3>2. Len(queue') + WifiDue' <= 4
      BY <1>2, <1>3, <3>1, DueType
    <3>3. Ups(queue') + UpsDue' <= 1
      BY <1>2, <1>3, <3>1, DueType
    <3> QED
      BY <1>2, <2>3, <3>2, <3>3 DEF Quota
  <2> QED
    BY <2>2, <2>3
<1> QED
  BY <1>1, <1>4, <1>6, <1>7 DEF Backlog, Undrained, StopPoints

(* An empty queue: what is due is what the radio and the client still      *)
(* report.                                                                 *)
LEMMA BacklogDrained ==
  ASSUME EventsOK, RangesOK, AirShape, UNCHANGED <<wifi, client>>, Backlog,
         queue' = <<>>,
         pc \in {"wifi_wait", "wifi_drain", "client_gone"},
         pc' \in {"wifi_stop", "wifi_stopped_sleep", "wifi_start", "mqtt_start",
                 "mqtt_stopped_sleep"},
         pc' = "wifi_stopped_sleep" <=> pc = "wifi_drain"
  PROVE  AirShape' /\ Backlog'
<1>1. Len(queue') = 0 /\ ~HasClient' /\ Ups(queue') = 0
  BY DrainedCount
<1>2. WifiDue' = WifiDue /\ UpsDue' = UpsDue /\ ClientDue' = ClientDue
  BY SameCounts
<1>3. AirShape'
  BY SameCounts DEF Stopping
<1>4. WifiDue <= 3 /\ UpsDue <= 1 /\ ClientDue <= 2
  BY DEF AirShape, Backlog
<1>5. Due' \in Nat /\ Due' <= 5
  BY <1>1, <1>2, <1>4, DueType DEF Due
<1> QED
  BY <1>1, <1>2, <1>3, <1>4, <1>5, DueType
     DEF Backlog, Quota, Undrained, StopPoints

LEMMA BacklogDrains ==
  ASSUME EventsOK, RangesOK, AirShape, Backlog,
         WifiAttemptOver \/ WifiDrain \/ BackToMqtt
  PROVE  AirShape' /\ Backlog'
<1>1. /\ UNCHANGED <<wifi, client>> /\ queue' = <<>>
      /\ \/ pc = "wifi_wait" /\ pc' = "wifi_stop"
         \/ pc = "wifi_drain" /\ pc' = "wifi_stopped_sleep"
         \/ pc = "client_gone" /\ pc' \in {"mqtt_start", "mqtt_stopped_sleep"}
  BY DEF WifiAttemptOver, WifiDrain, BackToMqtt, BackTo, Drain, Receive,
         TimeOut, Go
<1> QED
  BY <1>1, BacklogDrained

(* Line 197 goes back to the WiFi with the queue it has.                   *)
LEMMA BacklogBackToWifi ==
  ASSUME EventsOK, RangesOK, AirShape, Backlog, BackToWifi
  PROVE  AirShape' /\ Backlog'
<1>1. /\ UNCHANGED <<wifi, client, goal>>
      /\ pc = "client_gone" /\ pc' = "wifi_start"
      /\ queue' = <<>> \/ (goal = "wifi_undrained" /\ queue' = queue)
  BY DEF BackToWifi, Drain, Go
<1>2. CASE queue' = <<>>
  BY <1>1, <1>2, BacklogDrained
<1>3. CASE goal = "wifi_undrained" /\ queue' = queue
  <2>1. /\ HasClient' = HasClient /\ Ups(queue') = Ups(queue)
        /\ WifiDue' = WifiDue /\ UpsDue' = UpsDue
        /\ ClientDue' = ClientDue /\ Due' = Due
    BY <1>1, <1>3, SameCounts DEF Due
  <2>2. Quota(3, 1, 1, 5, 7)
    BY <1>1, <1>3 DEF Backlog, Undrained, StopPoints
  <2>3. AirShape'
    BY <1>1, SameCounts DEF Stopping
  <2> QED
    BY <1>1, <1>3, <2>1, <2>2, <2>3 DEF Backlog, Quota, Undrained, StopPoints
<1> QED
  BY <1>1, <1>2, <1>3

(* wifi_driver_stop: a connection that ends is an event in the air.        *)
LEMMA BacklogWifiStop ==
  ASSUME EventsOK, RangesOK, AirShape, Backlog,
         WifiDriverStop \/ WifiDriverStopFails
  PROVE  AirShape' /\ Backlog'
<1>1. /\ UNCHANGED <<queue, client, goal>>
      /\ pc = "wifi_stop" /\ pc' = "wifi_drain"
      /\ \/ UNCHANGED wifi
         \/ /\ radio' = "off"
            /\ IF radio \in {"connecting", "up"} THEN air' = Append(air, WifiDown)
                                               ELSE air' = air
  BY DEF WifiDriverStop, WifiDriverStopFails, Go
<1>2. HasClient' = HasClient /\ Ups(queue') = Ups(queue) /\ ClientDue' = ClientDue
  BY <1>1, SameCounts
<1>3. AirShape' /\ WifiDue' <= WifiDue /\ UpsDue' <= UpsDue
      /\ WifiDue' \in Nat /\ UpsDue' \in Nat
  <2>1. CASE UNCHANGED wifi
    <3>1. AirShape'
      BY <1>1, <2>1 DEF AirShape, Stopping, wifi, WifiDue, RadioDue, UpsDue
    <3> QED
      BY <2>1, <3>1, SameCounts, DueType
  <2>2. CASE /\ radio' = "off"
             /\ IF radio \in {"connecting", "up"}
                  THEN air' = Append(air, WifiDown)
                  ELSE air' = air
    <3>1. Len(air) <= 1 /\ Len(air) \in Nat /\ air \in Seq(WifiNews)
      BY <1>1, DueType DEF AirShape, Stopping, EventsOK, WifiNews
    <3>2. CASE air' = air
      <4>1. UpsDue' <= UpsDue /\ WifiDue' <= WifiDue /\ UpsDue' \in Nat
            /\ WifiDue' \in Nat
        BY <2>2, <3>1, <3>2 DEF UpsDue, WifiDue, RadioDue
      <4>2. AirShape'
        BY <1>1, <2>2, <3>1, <3>2, <4>1, DueType DEF AirShape, Stopping
      <4> QED
        BY <4>1, <4>2
    <3>3. CASE radio \in {"connecting", "up"} /\ air' = Append(air, WifiDown)
      <4>1. /\ Len(air') = Len(air) + 1 /\ air' # <<>>
            /\ air = <<>> => Head(air') = WifiDown
            /\ air # <<>> => Head(air') = Head(air)
            /\ \A i \in 2 .. Len(air') : air'[i] = WifiDown
        BY <3>1, <3>3 DEF WifiNews
      <4>2. UpsDue' <= UpsDue /\ WifiDue' <= WifiDue /\ UpsDue' \in Nat
            /\ WifiDue' \in Nat
        BY <2>2, <3>1, <3>3, <4>1 DEF UpsDue, WifiDue, RadioDue, WifiUp, WifiDown
      <4>3. WifiDue' <= 3 /\ UpsDue' <= 1
        BY <1>1, <4>2, DueType DEF AirShape
      <4>4. Len(air) <= 1
        BY <1>1 DEF AirShape, Stopping
      <4>5. Stopping' /\ radio' = "off" /\ Len(air') <= 2
        BY <1>1, <2>2, <4>1, <4>4, DueType DEF Stopping
      <4>6. AirShape'
        BY <4>1, <4>2, <4>3, <4>5 DEF AirShape
      <4> QED
        BY <4>2, <4>6
    <3> QED
      BY <2>2, <3>2, <3>3
  <2> QED
    BY <1>1, <2>1, <2>2
<1>4. Due' \in Nat /\ Due' <= Due
  BY <1>1, <1>2, <1>3, DueType DEF Due
<1>5. /\ ~HasClient /\ Len(queue) + WifiDue <= 3 /\ Ups(queue) + UpsDue <= 1
      /\ Due <= 9 /\ ClientDue <= 2
  BY <1>1 DEF Backlog
<1>6. Len(queue') + WifiDue' <= 3 /\ Ups(queue') + UpsDue' <= 1 /\ Due' <= 9
  <2>1. /\ Len(queue') = Len(queue) /\ Len(queue) \in Nat
        /\ Ups(queue) \in Nat /\ WifiDue \in Nat /\ UpsDue \in Nat
        /\ Due \in Nat
    BY <1>1, DueType
  <2>2. Len(queue') + WifiDue' <= Len(queue) + WifiDue
    BY <1>3, <2>1
  <2>3. Ups(queue') + UpsDue' <= Ups(queue) + UpsDue
    BY <1>2, <1>3, <2>1
  <2> QED
    BY <1>2, <1>3, <1>4, <1>5, <2>1, <2>2, <2>3
<1> QED
  BY <1>1, <1>2, <1>3, <1>5, <1>6 DEF Backlog, Undrained, StopPoints

(* Where nothing is asked but nine places, a step that takes an event or   *)
(* leaves the queue alone is safe.                                         *)
LEMMA BacklogTaken ==
  ASSUME EventsOK, RangesOK, AirShape, Backlog,
         \/ MqttConnected \/ MqttAttemptOver \/ WifiLost \/ MqttLost
         \/ EventIgnored
  PROVE  AirShape' /\ Backlog'
<1>1. /\ UNCHANGED <<wifi, client>>
      /\ pc \in {"mqtt_wait", "run_wait"}
      /\ \/ pc' = "run_wait"
         \/ pc' = "client_deaf" /\ goal' \in {"retry", "wifi", "mqtt"}
      /\ queue' = queue \/ (queue # <<>> /\ queue' = Tail(queue))
  BY DEF MqttConnected, MqttAttemptOver, WifiLost, MqttLost, EventIgnored,
         GiveUpClient, Receive, TimeOut
<1>2. Len(queue') \in Nat /\ Len(queue') <= Len(queue)
  BY <1>1, TakenCount, DueType
<1>3. WifiDue' = WifiDue /\ ClientDue' = ClientDue
  BY <1>1, SameCounts
<1>4. AirShape'
  BY <1>1, SameCounts DEF Stopping
<1>5. Due' \in Nat /\ Due' <= Due
  BY <1>2, <1>3, DueType DEF Due
<1>6. Due' <= 9 /\ ClientDue' <= 2
  BY <1>3, <1>5, DueType DEF Backlog
<1>7. ~Undrained'
  BY <1>1 DEF Undrained, StopPoints
<1> QED
  BY <1>1, <1>4, <1>6, <1>7 DEF Backlog

(* The WifiDown that ends a start of the client is one event less.         *)
LEMMA BacklogWifiLostWhileConnecting ==
  ASSUME EventsOK, RangesOK, AirShape, Backlog, WifiLostWhileConnecting
  PROVE  AirShape' /\ Backlog'
<1>1. /\ UNCHANGED <<wifi, client>>
      /\ pc = "mqtt_wait" /\ pc' = "client_deaf"
      /\ queue # <<>> /\ queue' = Tail(queue) /\ Head(queue) = WifiDown
  BY DEF WifiLostWhileConnecting, GiveUpClient, Receive
<1>2. /\ Len(queue) > 0 /\ Len(queue') = Len(queue) - 1
      /\ HasClient' <=> HasClient
      /\ Ups(queue') \in Nat /\ Ups(queue') <= Ups(queue)
  BY <1>1, TakenCount DEF WifiNews
<1>3. /\ WifiDue' = WifiDue /\ UpsDue' = UpsDue /\ ClientDue' = ClientDue
  BY <1>1, SameCounts
<1>4. AirShape'
  BY <1>1, SameCounts DEF Stopping
<1>5. Due' = Due - 1
  BY <1>2, <1>3, DueType DEF Due
<1>6. Due' <= 9 /\ ClientDue' <= 2
  BY <1>3, <1>5, DueType DEF Backlog
<1>7. Quota(3, 1, 1, 5, 7)'
  <2>1. Quota(4, 1, 1, 6, 8)
    BY <1>1 DEF Backlog
  <2>2. CASE HasClient
    <3>1. Due <= 8 /\ Ups(queue) <= 1 /\ (Ups(queue) > 0 => Due <= 6)
      BY <2>1, <2>2 DEF Quota
    <3>2. Due' <= 7 /\ Ups(queue') <= 1 /\ (Ups(queue') > 0 => Due' <= 5)
      BY <1>2, <1>5, <3>1, DueType
    <3> QED
      BY <1>2, <2>2, <3>2 DEF Quota
  <2>3. CASE ~HasClient
    <3>1. Len(queue) + WifiDue <= 4 /\ Ups(queue) + UpsDue <= 1
      BY <2>1, <2>3 DEF Quota
    <3>2. Len(queue') + WifiDue' <= 3
      BY <1>2, <1>3, <3>1, DueType
    <3>3. Ups(queue') + UpsDue' <= 1
      BY <1>2, <1>3, <3>1, DueType
    <3> QED
      BY <1>2, <2>3, <3>2, <3>3 DEF Quota
  <2> QED
    BY <2>2, <2>3
<1> QED
  BY <1>1, <1>4, <1>6, <1>7 DEF Backlog

(* A client that is destroyed reports nothing any more.                    *)
LEMMA BacklogStops ==
  ASSUME EventsOK, RangesOK, ClientInv, AirShape, Backlog,
         MqttAppStop \/ ClientDestroyed
  PROVE  AirShape' /\ Backlog'
<1>1. /\ UNCHANGED <<queue, wifi, goal>>
      /\ pc \in StopPoints /\ pc' \in StopPoints
      /\ UNCHANGED client \/ (conn' = "none" /\ callback' = callback)
  BY DEF MqttAppStop, ClientDestroyed, Go, StopPoints, client
<1>2. /\ HasClient' = HasClient /\ Ups(queue') = Ups(queue)
      /\ WifiDue' = WifiDue /\ UpsDue' = UpsDue
  BY <1>1, SameCounts
<1>3. ClientDue' \in Nat /\ ClientDue' <= ClientDue
  BY <1>1, SameCounts, DueType DEF ClientDue, ConnDue, CallDue
<1>4. AirShape'
  BY <1>1, SameCounts DEF Stopping, StopPoints
<1>5. Due' \in Nat /\ Due' <= Due
  BY <1>1, <1>2, <1>3, DueType DEF Due
<1>6. Undrained' <=> Undrained
  BY <1>1 DEF Undrained
<1> QED
  BY <1>1, <1>2, <1>3, <1>4, <1>5, <1>6, DueType
     DEF Backlog, Quota, StopPoints

LEMMA BacklogMachine ==
  ASSUME EventsOK, RangesOK, ClientInv, AirShape, Backlog, MachineTask
  PROVE  AirShape' /\ Backlog'
BY BacklogInit, BacklogWake, BacklogWifiStarts, BacklogMqttStarts,
   BacklogWifiConnected, BacklogDrains, BacklogBackToWifi, BacklogWifiStop,
   BacklogTaken, BacklogWifiLostWhileConnecting, BacklogStops
   DEF MachineTask

(* The other tasks: what is sent was due, and without news of the client   *)
(* the quota leaves room for them.                                         *)
LEMMA BacklogSpent ==
  ASSUME EventsOK, RangesOK, ClientInv, Backlog, UNCHANGED <<pc, goal>>,
         pc \notin {"init", "reset"},
         Len(queue') \in Nat, WifiDue' \in Nat, UpsDue' \in Nat,
         Ups(queue') \in Nat, ClientDue' \in Nat,
         Due' <= Due, ClientDue' <= ClientDue, HasClient => HasClient',
         HasClient => Ups(queue') <= Ups(queue),
         ~HasClient' =>
           /\ Len(queue') + WifiDue' <= Len(queue) + WifiDue
           /\ Ups(queue') + UpsDue' <= Ups(queue) + UpsDue,
         HasClient' /\ ~HasClient => ClientDue > 0 /\ Ups(queue') <= Ups(queue)
  PROVE  Backlog'
<1>1. Due' \in Nat
  BY DEF Due
<1>2. ClientDue > 0
        => pc \in {"mqtt_wait", "run_wait", "client_deaf", "client_stop"}
  BY NoClientDue
<1>3. ClientDue <= 2 /\ Due <= 9 /\ Due = Len(queue) + WifiDue + ClientDue
  <2>1. ClientDue <= 2 /\ Due <= 9
    BY DEF Backlog
  <2>2. Due = Len(queue) + WifiDue + ClientDue
    BY DEF Due
  <2> QED
    BY <2>1, <2>2
<1>4. Undrained' <=> Undrained
  BY DEF Undrained
<1>5. Due' <= 9 /\ ClientDue' <= 2
  BY <1>1, <1>3, DueType
<1>6. CASE HasClient
  <2>1. /\ HasClient' /\ Due' \in Nat /\ Due \in Nat /\ Due' <= Due
        /\ Ups(queue') \in Nat /\ Ups(queue) \in Nat
        /\ Ups(queue') <= Ups(queue)
    BY <1>1, <1>6, DueType
  <2>2. \A h, few, most \in Nat :
          Due <= most /\ Ups(queue) <= h /\ (Ups(queue) > 0 => Due <= few)
            => /\ Due' <= most /\ Ups(queue') <= h
               /\ Ups(queue') > 0 => Due' <= few
    BY <2>1
  <2>3. pc \in {"wifi_start", "wifi_start_sleep"} \/ Undrained
          => Quota(3, 1, 1, 5, 7)'
    BY <1>6, <2>1, <2>2 DEF Backlog, Quota
  <2>4. pc \in {"wifi_wait", "wifi_retry_sleep"} => Quota(5, 2, 1, 7, 9)'
    BY <1>6, <2>1, <2>2 DEF Backlog, Quota
  <2>5. pc \in {"mqtt_start", "mqtt_start_sleep", "mqtt_stopped_sleep",
                "mqtt_restart", "mqtt_retry_sleep"}
          => Quota(4, 1, 0, 6, 6)'
    BY <1>6, <2>1, <2>2 DEF Backlog, Quota
  <2>6. pc = "mqtt_wait" => Quota(4, 1, 1, 6, 8)'
    BY <1>6, <2>1, <2>2 DEF Backlog, Quota
  <2>7. pc \notin {"wifi_stop", "wifi_drain", "wifi_stopped_sleep",
                   "wifi_restart"}
    BY <1>6 DEF Backlog
  <2> QED
    BY <1>4, <1>5, <2>3, <2>4, <2>5, <2>6, <2>7 DEF Backlog
<1>7. CASE ~HasClient'
  <2>1. ~HasClient
    BY <1>7
  <2>2. \A w, u \in Nat :
          Len(queue) + WifiDue <= w /\ Ups(queue) + UpsDue <= u
            => Len(queue') + WifiDue' <= w /\ Ups(queue') + UpsDue' <= u
    <3>1. /\ Len(queue') + WifiDue' <= Len(queue) + WifiDue
          /\ Ups(queue') + UpsDue' <= Ups(queue) + UpsDue
      BY <1>7
    <3>2. /\ Len(queue) \in Int /\ WifiDue \in Int
          /\ Ups(queue) \in Int /\ UpsDue \in Int
      BY DueType
    <3> QED
      BY <3>1, <3>2
  <2>3. pc \in {"wifi_start", "wifi_start_sleep"} \/ Undrained
          => Quota(3, 1, 1, 5, 7)'
    BY <1>7, <2>1, <2>2 DEF Backlog, Quota
  <2>4. pc \in {"wifi_wait", "wifi_retry_sleep"} => Quota(5, 2, 1, 7, 9)'
    BY <1>7, <2>1, <2>2 DEF Backlog, Quota
  <2>5. pc \in {"wifi_stop", "wifi_drain", "wifi_stopped_sleep",
                "wifi_restart"}
          => Len(queue') + WifiDue' <= 3 /\ Ups(queue') + UpsDue' <= 1
    BY <2>2 DEF Backlog
  <2>6. pc \in {"mqtt_start", "mqtt_start_sleep", "mqtt_stopped_sleep",
                "mqtt_restart", "mqtt_retry_sleep"}
          => Quota(4, 1, 0, 6, 6)'
    BY <1>7, <2>1, <2>2 DEF Backlog, Quota
  <2>7. pc = "mqtt_wait" => Quota(4, 1, 1, 6, 8)'
    BY <1>7, <2>1, <2>2 DEF Backlog, Quota
  <2>8. pc' \in {"wifi_stop", "wifi_drain", "wifi_stopped_sleep",
                 "wifi_restart"}
          => /\ ~HasClient'
             /\ Len(queue') + WifiDue' <= 3
             /\ Ups(queue') + UpsDue' <= 1
    BY <1>7, <2>5
  <2>9. pc' \notin {"init", "reset"}
    OBVIOUS
  <2> QED
    BY <1>4, <1>5, <2>3, <2>4, <2>6, <2>7, <2>8, <2>9 DEF Backlog
<1>8. CASE HasClient' /\ ~HasClient
  <2>1. /\ pc' \in {"mqtt_wait", "run_wait", "client_deaf", "client_stop"}
        /\ Ups(queue') <= Ups(queue) /\ Due' <= Len(queue) + WifiDue + 2
    <3>1. ClientDue > 0 /\ Ups(queue') <= Ups(queue)
      BY <1>8
    <3>2. Due' <= Len(queue) + WifiDue + 2
      <4>1. /\ Len(queue) \in Nat /\ WifiDue \in Nat /\ ClientDue \in Nat
            /\ Due \in Nat
        BY DueType
      <4> QED
        BY <1>1, <1>3, <4>1
    <3> QED
      BY <1>2, <3>1, <3>2
  <2>2. \A w, u \in Nat :
          Len(queue) + WifiDue <= w /\ Ups(queue) + UpsDue <= u
            => Due' <= w + 2 /\ Ups(queue') <= u
    <3>1. /\ Len(queue) \in Nat /\ WifiDue \in Nat /\ Due' \in Nat
          /\ Ups(queue) \in Nat /\ UpsDue \in Nat /\ Ups(queue') \in Nat
      BY <1>1, DueType
    <3> QED
      BY <2>1, <3>1
  <2>3. pc = "mqtt_wait" => Due' <= 6 /\ Ups(queue') <= 1
    <3>1. pc = "mqtt_wait"
            => Len(queue) + WifiDue <= 4 /\ Ups(queue) + UpsDue <= 1
      BY <1>8 DEF Backlog, Quota
    <3> QED
      BY <2>2, <3>1
  <2>4. Undrained => Due' <= 5 /\ Ups(queue') <= 1
    <3>1. Undrained
            => Len(queue) + WifiDue <= 3 /\ Ups(queue) + UpsDue <= 1
      BY <1>8 DEF Backlog, Quota
    <3> QED
      BY <2>2, <3>1
  <2> QED
    BY <1>1, <1>4, <1>5, <1>8, <2>1, <2>3, <2>4 DEF Backlog, Quota
<1> QED
  BY <1>6, <1>7, <1>8

LEMMA BacklogWifiEvent ==
  ASSUME EventsOK, RangesOK, ClientInv, AirShape, Backlog, WifiEventHandler
  PROVE  AirShape' /\ Backlog'
<1>1. /\ UNCHANGED <<pc, goal, radio, client>>
      /\ air # <<>> /\ air' = Tail(air) /\ Send(Head(air))
  BY DEF WifiEventHandler
<1>2. /\ Head(air) \in {WifiUp, WifiDown} /\ Head(air) = air[1]
      /\ Len(air) \in Nat /\ Len(air) > 0 /\ Len(air') = Len(air) - 1
      /\ \A i \in 1 .. Len(air) - 1 : air'[i] = air[i + 1]
      /\ air' # <<>> => Head(air') = air'[1]
  BY <1>1, TailFact DEF EventsOK
<1>3. Head(air) \in Events /\ Head(air) \in WifiNews
  BY <1>2 DEF Events, WifiNews
<1>4. /\ Len(queue') \in Nat /\ Len(queue') <= Len(queue) + 1
      /\ Ups(queue') \in Nat
      /\ Ups(queue') <= Ups(queue) + (IF Head(air) = WifiUp THEN 1 ELSE 0)
      /\ HasClient => Ups(queue') = Ups(queue)
      /\ HasClient' <=> HasClient
  BY <1>1, <1>3, SentCount
<1>5. /\ WifiDue' \in Nat /\ WifiDue' = WifiDue - 1
      /\ ClientDue' = ClientDue
  BY <1>1, <1>2, SameCounts, DueType DEF WifiDue, RadioDue
<1>6. \A i \in 1 .. Len(air') : air'[i] = WifiDown
  <2>1. \A i \in 1 .. Len(air') : i + 1 \in 2 .. Len(air) /\ i \in 1 .. Len(air) - 1
    BY <1>2
  <2> QED
    BY <1>2, <2>1 DEF AirShape
<1>7. ~(air' # <<>> /\ Head(air') = WifiUp)
  <2>1. SUFFICES ASSUME air' # <<>> PROVE Head(air') # WifiUp
    OBVIOUS
  <2>2. air' \in Seq({WifiUp, WifiDown}) /\ Len(air') > 0
    BY <1>1, <2>1, TailFact DEF EventsOK
  <2>3. 1 \in 1 .. Len(air')
    BY <1>2, <2>2
  <2> QED
    BY <1>2, <1>6, <2>1, <2>3 DEF WifiUp, WifiDown
<1>8. /\ UpsDue' \in Nat
      /\ UpsDue' <= UpsDue - (IF Head(air) = WifiUp THEN 1 ELSE 0)
  BY <1>1, <1>7 DEF UpsDue
<1>9. Len(queue') + WifiDue' <= Len(queue) + WifiDue
  <2>1. Len(queue) \in Nat /\ WifiDue \in Nat
    BY DueType
  <2> QED
    BY <1>4, <1>5, <2>1
<1>10. AirShape'
  <2>1. WifiDue' <= 3 /\ UpsDue' <= 1
    BY <1>5, <1>8, DueType DEF AirShape
  <2>2. Len(air') <= 1
    BY <1>2 DEF AirShape
  <2>3. \A i \in 2 .. Len(air') : air'[i] = WifiDown
    BY <1>2, <1>6
  <2> QED
    BY <1>7, <2>1, <2>2, <2>3 DEF AirShape
<1>11. pc \notin {"init", "reset"}
  BY <1>1 DEF Backlog
<1>12. Ups(queue') + UpsDue' <= Ups(queue) + UpsDue
  <2>1. Ups(queue) \in Nat /\ UpsDue \in Nat
    BY DueType
  <2> QED
    BY <1>4, <1>8, <2>1
<1>13. Due' <= Due
  <2>1. Len(queue) \in Nat /\ WifiDue \in Nat /\ ClientDue \in Nat
    BY DueType
  <2> QED
    BY <1>4, <1>5, <1>9, <2>1 DEF Due
<1>14. Backlog'
  <2>1. ClientDue' \in Nat /\ ClientDue' <= ClientDue
    BY <1>5, DueType
  <2>2. HasClient => Ups(queue') <= Ups(queue)
    BY <1>4
  <2>3. /\ UNCHANGED <<pc, goal>>
        /\ HasClient => HasClient'
        /\ ~(HasClient' /\ ~HasClient)
        /\ Len(queue') \in Nat /\ Ups(queue') \in Nat
        /\ WifiDue' \in Nat /\ UpsDue' \in Nat
    BY <1>1, <1>4, <1>5, <1>8
  <2> QED
    BY <1>9, <1>11, <1>12, <1>13, <2>1, <2>2, <2>3, BacklogSpent
<1> QED
  BY <1>10, <1>14

LEMMA BacklogClientTask ==
  ASSUME EventsOK, RangesOK, ClientInv, AirShape, Backlog, ClientTask
  PROVE  AirShape' /\ Backlog'
<1>1. /\ UNCHANGED <<pc, goal, wifi, conn>>
      /\ callback # Quiet
      /\ \/ queue' = queue
         \/ callback' = Quiet /\ Send(callback[2])
  BY DEF ClientTask, CallbackTest, CallbackSend, Quiet
<1>2. callback[2] \in {MqttUp, MqttDown}
  BY <1>1 DEF RangesOK, Callbacks
<1>3. /\ WifiDue' = WifiDue /\ UpsDue' = UpsDue
      /\ ConnDue' = ConnDue /\ CallDue = 1 /\ CallDue' \in 0 .. 1
      /\ callback' = Quiet => CallDue' = 0
  BY <1>1, SameCounts DEF ConnDue, CallDue
<1>4. /\ ClientDue' \in Nat /\ ClientDue' <= ClientDue /\ ClientDue > 0
      /\ callback' = Quiet => ClientDue' = ClientDue - 1
  BY <1>3, DueType DEF ClientDue
<1>5. pc \notin {"init", "reset"}
  BY <1>4, NoClientDue
<1>6. /\ Len(queue') \in Nat /\ Ups(queue') \in Nat
      /\ HasClient => HasClient'
      /\ Ups(queue') = Ups(queue)
      /\ ~HasClient' => Len(queue') = Len(queue)
      /\ queue' = queue \/ (Len(queue') <= Len(queue) + 1 /\ callback' = Quiet)
  <2>1. CASE queue' = queue
    BY <2>1, SameCounts, DueType DEF HasClient
  <2>2. CASE callback' = Quiet /\ Send(callback[2])
    <3>1. callback[2] \in Events /\ callback[2] \notin WifiNews
      BY <1>2 DEF Events, WifiNews, WifiUp, WifiDown, MqttUp, MqttDown
    <3> QED
      BY <2>2, <3>1, SentCount DEF WifiNews
  <2> QED
    BY <1>1, <2>1, <2>2
<1>7. Due' <= Due
  BY <1>3, <1>4, <1>6, DueType DEF Due
<1>8. AirShape'
  BY <1>1, SameCounts DEF Stopping
<1>9. Backlog'
  BY <1>1, <1>3, <1>4, <1>5, <1>6, <1>7, DueType, BacklogSpent
<1> QED
  BY <1>8, <1>9

LEMMA BacklogRadio ==
  ASSUME EventsOK, RangesOK, ClientInv, AirShape, Backlog, Radio
  PROVE  AirShape' /\ Backlog'
<1>1. /\ UNCHANGED <<pc, goal, queue, client>> /\ air = <<>>
      /\ \/ /\ radio = "connecting" /\ radio' = "up"
            /\ air' = Append(air, WifiUp)
         \/ /\ radio \in {"connecting", "up"} /\ radio' = "idle"
            /\ air' = Append(air, WifiDown)
  BY DEF Radio, RadioJoins, RadioFails, RadioDrops, RadioTurns
<1>2. /\ Len(air) = 0 /\ Len(air') = 1 /\ air' # <<>>
      /\ \/ radio' = "up" /\ radio = "connecting" /\ Head(air') = WifiUp
         \/ radio' = "idle" /\ Head(air') = WifiDown
  BY <1>1
<1>3. /\ WifiDue' \in Nat /\ WifiDue' <= WifiDue
      /\ UpsDue' \in Nat /\ UpsDue' <= UpsDue /\ UpsDue' <= 1
      /\ ClientDue' = ClientDue /\ HasClient' = HasClient
      /\ Ups(queue') = Ups(queue)
  BY <1>1, <1>2, SameCounts DEF WifiDue, RadioDue, UpsDue, WifiUp, WifiDown
<1>4. AirShape'
  BY <1>1, <1>2, <1>3, DueType DEF AirShape, Stopping, WifiUp, WifiDown
<1>5. Due' <= Due
  BY <1>1, <1>3, DueType DEF Due
<1>6. pc \notin {"init", "reset"}
  BY <1>1 DEF Backlog
<1>7. /\ Len(queue') + WifiDue' <= Len(queue) + WifiDue
      /\ Ups(queue') + UpsDue' <= Ups(queue) + UpsDue
  BY <1>1, <1>3, DueType
<1>8. Backlog'
  BY <1>1, <1>3, <1>5, <1>6, <1>7, DueType, BacklogSpent
<1> QED
  BY <1>4, <1>8

LEMMA BacklogClient ==
  ASSUME EventsOK, RangesOK, ClientInv, AirShape, Backlog, Client
  PROVE  AirShape' /\ Backlog'
<1>1. /\ UNCHANGED <<pc, goal, queue, wifi>> /\ callback = Quiet
      /\ \/ conn = "connecting" /\ conn' = "connected"
         \/ conn \in {"connecting", "connected"} /\ conn' = "lost"
  BY DEF Client, ClientJoins, ClientFails, ClientDrops, ClientTurns
<1>2. /\ ClientDue' \in Nat /\ ClientDue' <= ClientDue /\ ClientDue > 0
      /\ WifiDue' = WifiDue /\ UpsDue' = UpsDue
      /\ HasClient' = HasClient /\ Ups(queue') = Ups(queue)
  BY <1>1, SameCounts DEF ClientDue, ConnDue, CallDue
<1>3. AirShape'
  BY <1>1, SameCounts DEF Stopping
<1>4. Due' <= Due
  BY <1>1, <1>2, DueType DEF Due
<1>5. pc \notin {"init", "reset"}
  BY <1>2, NoClientDue
<1>6. Backlog'
  BY <1>1, <1>2, <1>4, <1>5, DueType, BacklogSpent
<1> QED
  BY <1>3, <1>6

LEMMA BacklogStep ==
  ASSUME TypeOK, ClientInv, AirShape, Backlog, [Next]_vars
  PROVE  AirShape' /\ Backlog'
<1>0. EventsOK /\ RangesOK
  BY TypeParts
<1>1. CASE MachineTask
  BY <1>0, <1>1, BacklogMachine
<1>2. CASE WifiEventHandler \/ ClientTask \/ Radio \/ Client
  BY <1>0, <1>2, BacklogWifiEvent, BacklogClientTask, BacklogRadio,
     BacklogClient
<1>3. CASE ApTurns \/ BrokerTurns \/ UNCHANGED vars
  <2>1. UNCHANGED <<pc, goal, queue, wifi, client>>
    BY <1>3 DEF ApTurns, BrokerTurns, vars
  <2>2. /\ UNCHANGED <<air, radio>> /\ HasClient' = HasClient
        /\ Ups(queue') = Ups(queue) /\ UpsDue' = UpsDue
        /\ WifiDue' = WifiDue /\ ClientDue' = ClientDue /\ Due' = Due
    BY <2>1, SameCounts DEF wifi, Due
  <2>3. AirShape'
    BY <2>1, SameCounts DEF Stopping
  <2>4. Backlog'
    BY <2>1, <2>2 DEF Backlog, Quota, Undrained
  <2> QED
    BY <2>3, <2>4
<1> QED
  BY <1>1, <1>2, <1>3, NextParts DEF Surroundings

(* wifi.c:34, 55 and mqtt_app.c:47, 84 drop an event that finds the queue  *)
(* full.  With ten places or more (the code has ten, state_machine.c:27)   *)
(* none ever is, whatever the network does and whichever calls fail.       *)
THEOREM NoEventIsDropped ==
  ASSUME QueueDepth >= 10
  PROVE  Spec => []NoEventDropped
<1>1. Init => ClientInv /\ AirShape /\ Backlog
  <2>1. SUFFICES ASSUME Init PROVE ClientInv /\ AirShape /\ Backlog
    OBVIOUS
  <2>2. ClientInv
    BY <2>1, EmptyHolds
       DEF Init, ClientInv, OnlineRuns, RunsOverClient, ClientPlace,
           CallbackOfClient, NoStaleUp
  <2>3. /\ pc = "init" /\ queue = <<>> /\ air = <<>> /\ radio = "off"
        /\ conn = "none" /\ callback = Quiet
    BY <2>1 DEF Init
  <2>4. WifiDue = 0 /\ ClientDue = 0 /\ UpsDue = 0 /\ Due = 0
    BY <2>3 DEF WifiDue, RadioDue, ClientDue, ConnDue, CallDue, UpsDue, Due
  <2>5. AirShape
    BY <2>3, <2>4 DEF AirShape, Stopping
  <2> QED
    BY <2>2, <2>3, <2>4, <2>5 DEF Backlog, Undrained, StopPoints
<1>2. TypeOK /\ ClientInv /\ [Next]_vars => ClientInv'
  BY ClientStep
<1>3. TypeOK /\ ClientInv /\ AirShape /\ Backlog /\ [Next]_vars
        => AirShape' /\ Backlog'
  BY BacklogStep
<1>4. TypeOK /\ Backlog => NoEventDropped
  BY TypeParts, DueType, QueueAssumption DEF Backlog, Due, NoEventDropped
<1> QED
  BY <1>1, <1>2, <1>3, <1>4, TypeCorrect, PTL DEF Spec
=============================================================================
