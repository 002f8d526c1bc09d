------------------------------ MODULE Gateway -------------------------------
(***************************************************************************)
(* cache_task and the MQTT client together: what becomes of a message that *)
(* mqtt_app_publish reports as accepted.  The loop is that of CacheTask;   *)
(* the state machine creates and destroys the client as ClientLife says.   *)
(* mqtt_app_publish tests s_client (line 163) and then calls the client    *)
(* (line 169); mqtt_app_stop destroys the client and then sets s_client to *)
(* NULL (lines 104-105).  s_client is neither locked nor volatile, so the  *)
(* call uses the value that was tested or the present one, whichever the   *)
(* compiler likes.                                                         *)
(*                                                                         *)
(* The client keeps what it accepted in its outbox until the broker        *)
(* acknowledges it, connected or not; the outbox goes with the client.     *)
(***************************************************************************)
EXTENDS CacheTask

(* What a handle can be: none, the client that mqtt_app_start created last *)
(* (destroyed or not), or one before it.                                   *)
NULL == "NULL"
Latest == "latest"
Former == "former"

VARIABLES
  conn,         \* the connection of the client, see ClientLife
  sClient,      \* s_client
  exists,       \* the client s_client points to has not been destroyed
  tested,       \* the s_client that mqtt_app_publish saw at line 163
  outbox,       \* what the client accepted and the broker has not
  delivered,    \* history: the messages the broker acknowledged
  deliveredLosses, \* history: the losses in acknowledged reports
  dropped,      \* history: messages lost with a client
  droppedLosses \* history: losses in reports lost with a client

Life == INSTANCE ClientLife

client == <<conn, sClient, exists>>
cloud == <<delivered, deliveredLosses>>
fate == <<dropped, droppedLosses>>
gatewayVars == <<allVars, client, tested, outbox, cloud, fate>>

GatewayInit ==
  /\ TaskInit
  /\ conn = "none"
  /\ sClient = NULL
  /\ exists = FALSE
  /\ tested = NULL
  /\ outbox = <<>>
  /\ delivered = {}
  /\ deliveredLosses = 0
  /\ dropped = {}
  /\ droppedLosses = 0

(* A message, or a report of losses.                                       *)
Item(m, n) == [message |-> m, losses |-> n]
Messages(box) == {box[i].message : i \in 1 .. Len(box)} \cap Payload

(* The losses that the reports in box count, a pair for each of them.      *)
Counted(box) ==
  {p \in (1 .. Len(box)) \X (1 .. CounterMod) : p[2] <= box[p[1]].losses}
Losses(box) == Cardinality(Counted(box))

(* What goes with a client.                                                *)
Drops(box) ==
  /\ dropped' = dropped \cup Messages(box)
  /\ droppedLosses' = droppedLosses + Losses(box)

(***************************************************************************)
(* mqtt_app_publish, called at three points of the loop.                   *)
(***************************************************************************)
Publishing == at \in {"publish", "reporting", "resend"}

Offered ==
  CASE at = "publish" -> Item(msg, 0)
    [] at = "reporting" -> Item(NoMessage, taken)
    [] at = "resend" -> Item(entry, 0)

Succeeds == Published \/ Reported \/ Resent

Refused == PublishFails \/ ReportFails \/ ResendFails

(* Mutant: ERR_OK is returned for want of a client.                        *)
NotReadySucceeds ==
  /\ tested = NULL
  /\ sClient = NULL
  /\ Succeeds
  /\ UNCHANGED <<client, tested, outbox, cloud, fate>>

(* Line 163: there is no client.                                           *)
NotReady ==
  /\ tested = NULL
  /\ sClient = NULL
  /\ Refused
  /\ UNCHANGED <<client, tested, outbox, cloud, fate>>

TestClient ==
  /\ Publishing
  /\ tested = NULL
  /\ sClient # NULL
  /\ tested' = sClient
  /\ UNCHANGED <<allVars, client, outbox, cloud, fate>>

(* Line 169 with the handle h.                                             *)
Living(h) == h = sClient /\ exists

Accepts(h) ==
  /\ Living(h)
  /\ Succeeds
  /\ outbox' = Append(outbox, Offered)
  /\ UNCHANGED fate

(* No memory, or no client.                                                *)
Refuses(h) ==
  /\ h = NULL \/ Living(h)
  /\ Refused
  /\ UNCHANGED <<outbox, fate>>

(* A client that was destroyed: whatever the memory says.                  *)
CallsDestroyed(h) ==
  /\ h # NULL /\ ~Living(h)
  /\ \/ Succeeds /\ Drops(<<Offered>>)
     \/ Refused /\ Drops(<<>>)
  /\ UNCHANGED outbox

CallClient ==
  /\ tested # NULL
  /\ \E h \in {tested, sClient} : Accepts(h) \/ Refuses(h) \/ CallsDestroyed(h)
  /\ tested' = NULL
  /\ UNCHANGED <<client, cloud>>

(***************************************************************************)
(* The state machine.                                                      *)
(***************************************************************************)
Others == <<vars, app, mqttQueue, at, loop, sent, losses, power>>

AppStart ==
  /\ Life!Start
  /\ sClient = NULL
  /\ sClient' = Latest
  /\ exists' = TRUE
  /\ tested' = IF tested = NULL THEN NULL ELSE Former
  /\ UNCHANGED <<Others, outbox, cloud, fate>>

GoOnline ==
  /\ Life!GoOnline
  /\ UNCHANGED <<Others, sClient, exists, tested, outbox, cloud, fate>>

GoOffline ==
  /\ Life!GoOffline
  /\ UNCHANGED <<Others, sClient, exists, tested, outbox, cloud, fate>>

(* esp_mqtt_client_stop and esp_mqtt_client_destroy...                     *)
ClientDestroyed ==
  /\ exists
  /\ Life!Destroy
  /\ exists' = FALSE
  /\ outbox' = <<>>
  /\ Drops(outbox)
  /\ UNCHANGED <<Others, sClient, tested, cloud>>

(* ...and only then s_client = NULL.                                       *)
HandleCleared ==
  /\ sClient # NULL
  /\ ~exists
  /\ sClient' = NULL
  /\ UNCHANGED <<allVars, conn, exists, tested, outbox, cloud, fate>>

(***************************************************************************)
(* The client and the broker.                                              *)
(***************************************************************************)
ClientTurns ==
  /\ Life!Join \/ Life!Lose
  /\ UNCHANGED <<Others, sClient, exists, tested, outbox, cloud, fate>>

Acknowledged ==
  /\ conn = "connected"
  /\ outbox # <<>>
  /\ outbox' = Tail(outbox)
  /\ delivered' = delivered \cup Messages(<<Head(outbox)>>)
  /\ deliveredLosses' = deliveredLosses + Head(outbox).losses
  /\ UNCHANGED <<allVars, client, tested, fate>>

(* The power: the outbox is in RAM, too.                                   *)
Blackout ==
  /\ PowerCut
  /\ conn' = "none"
  /\ sClient' = NULL
  /\ exists' = FALSE
  /\ tested' = NULL
  /\ outbox' = <<>>
  /\ Drops(outbox)
  /\ UNCHANGED cloud

(***************************************************************************)
(* The specification.                                                      *)
(***************************************************************************)
(* What CacheTask and the clock do outside mqtt_app_publish.               *)
Loop ==
  /\ \/ AppTask \/ Receive \/ ReceiveTimesOut \/ Route
     \/ WriteMessage \/ GiveUpSector \/ SaveCount \/ EnterSector
     \/ StoreMessage \/ Edge \/ TakeCount
     \/ NoBackfill \/ ReadStore \/ Fetch \/ PassOver \/ FindNothing
     \/ MarkEntry \/ MarkSkipped \/ GapPasses
  /\ UNCHANGED <<client, tested, outbox, cloud, fate>>

Publish == NotReady \/ TestClient \/ CallClient
StateMachine ==
  AppStart \/ GoOnline \/ GoOffline \/ ClientDestroyed \/ HandleCleared

GatewayNext ==
  \/ Loop \/ Publish \/ StateMachine \/ ClientTurns \/ Acknowledged
  \/ Blackout

GatewaySpec == GatewayInit /\ [][GatewayNext]_gatewayVars

(* The fairness of CacheTask; mqtt_app_publish returns, a client that is   *)
(* asked again and again accepts in the end, and a connected one hears     *)
(* from the broker.                                                        *)
CacheLoop == (Loop /\ CacheTask) \/ Publish
FairGatewaySpec ==
  /\ GatewaySpec
  /\ WF_gatewayVars(Loop /\ AppTask)
  /\ WF_gatewayVars(CacheLoop)
  /\ WF_gatewayVars(Loop /\ GapPasses)
  /\ WF_gatewayVars(Acknowledged)
  /\ SF_gatewayVars(CallClient /\ Resent)

(***************************************************************************)
(* Properties.                                                             *)
(***************************************************************************)
(* Every variable in its range; a handle is tested only where cache_task   *)
(* publishes, an outbox belongs to a client, and without a client nobody   *)
(* is told that the gateway is online.                                     *)
GatewayTypeOK ==
  /\ conn \in {"none", "connecting", "connected", "lost"}
  /\ sClient \in {NULL, Latest}
  /\ exists \in BOOLEAN
  /\ exists <=> conn # "none"
  /\ exists => sClient # NULL
  /\ tested \in {NULL, Latest, Former}
  /\ tested # NULL => Publishing
  /\ outbox \in Seq([message : 0 .. built \cup {Garbage},
                     losses : 0 .. CounterMod - 1])
  /\ outbox # <<>> => exists
  /\ online => exists
  /\ delivered \subseteq 1 .. built
  /\ dropped \subseteq 1 .. built

InOutbox == Messages(outbox)

MessagesTraced ==
  \A m \in 1 .. built :
    \/ m \in IF orderly THEN Elements(Waiting) ELSE Chip \cup Elements(Fresh)
    \/ m \in InOutbox \cup delivered
    \/ m \in refused \cup givenUp \cup cutShort \cup dropped
    \/ ~orderly /\ m \in overwritten \cup spoilt

LossesTraced ==
  ~nvsFailed =>
    (overflow + taken + Losses(outbox) + deliveredLosses + uncounted
       + droppedLosses) % CounterMod = counted % CounterMod

(* docs/CHANGELOG.md:260 (at least once), seen from the cloud: a message   *)
(* that was built is on its way, in the outbox or with the broker, unless  *)
(* app_task dropped it, the store lost it as NothingForgotten says, or the *)
(* power was cut before it was stored.  And as long as NVS works, every    *)
(* entry that was counted as lost is in its counter, in a report under     *)
(* way, or was in a report that the broker has or a cut met                *)
(* (cache_task.c:115).  A client that is destroyed, or called after that,  *)
(* is the only other way to lose a message or a count.                     *)
OnlyOutboxForgets == MessagesTraced /\ LossesTraced

(* README.md:9: while the gateway stays connected, all that waits gets to  *)
(* the broker, and so does every report that was accepted.                 *)
ReachesCloud ==
  <>[](online /\ conn = "connected")
    => <>[](count = 0 /\ Fresh = <<>> /\ outbox = <<>>)
=============================================================================
