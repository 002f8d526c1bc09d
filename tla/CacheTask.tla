----------------------------- MODULE CacheTask ------------------------------
(***************************************************************************)
(* Store and forward: app/app_task.c puts messages into mqtt_queue, and    *)
(* the loop of app/cache_task.c publishes each one, or stores it in the    *)
(* ring of FlashStorage and publishes it later.  s_online is set by the    *)
(* state machine; whether a publish is accepted is up to the MQTT client.  *)
(*                                                                         *)
(* Messages are numbered in the order app_task builds them; they are the   *)
(* payloads of the store, with all its faults and power cuts.              *)
(***************************************************************************)
EXTENDS FlashStorage

CONSTANTS
  MaxMessages,  \* bound: messages that are built
  MaxCuts,      \* bound: power cuts
  QueueDepth    \* of mqtt_queue, 5 in the code

ASSUME CacheTaskAssumption ==
  /\ MaxMessages \in Nat
  /\ MaxCuts \in Nat
  /\ QueueDepth \in Nat \ {0}
  /\ Payload = 1 .. MaxMessages

(* No message is in a task's hands.                                        *)
NoMessage == 0

VARIABLES
  built,        \* msg_id of app_task: messages built so far
  sending,      \* the message app_task is putting into the queue
  mqttQueue,    \* s_mqtt_queue
  online,       \* s_online
  at,           \* where the cache task is in its loop
  msg,          \* the message it took from the queue
  onlineNow,    \* the online_now of this round
  lastOnline,   \* last_online
  gapOver,      \* PUBLISH_GAP_MS have passed since the last stamp
  accepted,     \* history: what the client accepted, in order
  reported,     \* history: the losses reported to the cloud
  refused,      \* history: messages app_task had no memory or no room for
  givenUp,      \* history: messages the full store gave up...
  counted,      \* history: ...and what it counted for them
  nvsFailed,    \* history: a call of NVS failed
  overwritten,  \* history: messages an erase took from a store not full
  spoilt,       \* history: messages lost to a driver without memory
  cuts,         \* history: number of power cuts
  cutShort,     \* history: messages a power cut took from RAM or the chip
  unmarked,     \* history: messages accepted and left unmarked
  uncounted     \* history: losses a cut found in RAM only

app == <<built, sending, refused>>
loop == <<msg, onlineNow, lastOnline, gapOver>>
sent == <<accepted, reported>>
losses == <<givenUp, counted, nvsFailed, overwritten, spoilt>>
power == <<cuts, cutShort, unmarked, uncounted>>
taskVars == <<app, mqttQueue, online, at, loop, sent, losses, power>>
allVars == <<vars, taskVars>>

TaskInit ==
  /\ Init
  /\ built = 0
  /\ sending = NoMessage
  /\ mqttQueue = <<>>
  /\ online = FALSE
  /\ at = "receive"
  /\ msg = NoMessage
  /\ onlineNow = FALSE
  /\ lastOnline = FALSE
  /\ gapOver = TRUE
  /\ accepted = <<>>
  /\ reported = 0
  /\ refused = {}
  /\ givenUp = {}
  /\ counted = 0
  /\ nvsFailed = FALSE
  /\ overwritten = {}
  /\ spoilt = {}
  /\ cuts = 0
  /\ cutShort = {}
  /\ unmarked = {}
  /\ uncounted = 0

(* The messages on the chip, wherever the pointers are.                    *)
Chip == {flash[a] : a \in Slots} \cap Payload

(***************************************************************************)
(* app_task: one message per round, sent within 100 ms or dropped.         *)
(***************************************************************************)
Build ==
  /\ sending = NoMessage
  /\ built < MaxMessages
  /\ built' = built + 1
  /\ sending' = built'
  /\ UNCHANGED <<vars, refused, mqttQueue, online, at, loop, sent, losses,
                 power>>

(* cJSON finds no memory; msg_id was counted already.                      *)
BuildFails ==
  /\ sending = NoMessage
  /\ built < MaxMessages
  /\ built' = built + 1
  /\ refused' = refused \cup {built'}
  /\ UNCHANGED <<vars, sending, mqttQueue, online, at, loop, sent, losses,
                 power>>

QueueSend ==
  /\ sending # NoMessage
  /\ Len(mqttQueue) < QueueDepth
  /\ mqttQueue' = Append(mqttQueue, sending)
  /\ sending' = NoMessage
  /\ UNCHANGED <<vars, built, refused, online, at, loop, sent, losses, power>>

QueueSendTimesOut ==
  /\ sending # NoMessage
  /\ Len(mqttQueue) = QueueDepth
  /\ refused' = refused \cup {sending}
  /\ sending' = NoMessage
  /\ UNCHANGED <<vars, built, mqttQueue, online, at, loop, sent, losses,
                 power>>

(***************************************************************************)
(* cache_task, part 1: take a message and route it.                        *)
(***************************************************************************)
Go(from, to) == at = from /\ at' = to

Receive ==
  /\ mqttQueue # <<>>
  /\ Go("receive", "route")
  /\ msg' = Head(mqttQueue)
  /\ mqttQueue' = Tail(mqttQueue)
  /\ UNCHANGED <<vars, app, online, onlineNow, lastOnline, gapOver, sent,
                 losses, power>>

ReceiveTimesOut ==
  /\ mqttQueue = <<>>
  /\ Go("receive", "edge")
  /\ UNCHANGED <<vars, app, mqttQueue, online, loop, sent, losses, power>>

Route ==
  /\ Go("route", IF online THEN "publish" ELSE "store")
  /\ UNCHANGED <<vars, app, mqttQueue, online, loop, sent, losses, power>>

Published ==
  /\ Go("publish", "edge")
  /\ accepted' = Append(accepted, msg)
  /\ msg' = NoMessage
  /\ gapOver' = FALSE
  /\ UNCHANGED <<vars, app, mqttQueue, online, onlineNow, lastOnline,
                 reported, losses, power>>

(* Mutant: the message goes back into the queue.                           *)
PublishFailsRequeues ==
  /\ Len(mqttQueue) < QueueDepth
  /\ Go("publish", "edge")
  /\ mqttQueue' = Append(mqttQueue, msg)
  /\ msg' = NoMessage
  /\ UNCHANGED <<vars, app, online, onlineNow, lastOnline, gapOver, sent,
                 losses, power>>

PublishFails ==
  /\ Go("publish", "store")
  /\ UNCHANGED <<vars, app, mqttQueue, online, loop, sent, losses, power>>

(* flash_storage_write, whose answer nobody looks at.                      *)
WriteMessage ==
  /\ Go("store", "storing")
  /\ WriteBegin(msg)
  /\ UNCHANGED <<app, mqttQueue, online, loop, sent, losses, power>>

(* A full store gives up a sector and counts it, in RAM and then in NVS.   *)
GiveUpSector ==
  /\ at = "storing"
  /\ EraseFull
  /\ givenUp' = givenUp \cup (Chip \ Chip')
  /\ counted' = counted + SectorSlots
  /\ UNCHANGED <<app, mqttQueue, online, at, loop, sent, nvsFailed,
                 overwritten, spoilt, power>>

SaveCount ==
  /\ at = "storing"
  /\ \/ PersistOverflow /\ UNCHANGED nvsFailed
     \/ PersistFault /\ nvsFailed' = TRUE
  /\ UNCHANGED <<app, mqttQueue, online, at, loop, sent, givenUp, counted,
                 overwritten, spoilt, power>>

(* A store that is not full erases the sector it enters.                   *)
EnterSector ==
  /\ at = "storing"
  /\ EraseWrap
  /\ overwritten' = overwritten \cup (Chip \ Chip')
  /\ UNCHANGED <<app, mqttQueue, online, at, loop, sent, givenUp, counted,
                 nvsFailed, spoilt, power>>

(* The message lies in its slot now, unless the slot was not blank or the  *)
(* driver had no memory; either way cache_task is rid of it.               *)
StoreMessage ==
  /\ Go("storing", "edge")
  /\ ProgramEntry \/ ProgramFault
  /\ spoilt' = spoilt \cup ((Chip \cup {msg}) \ Chip')
  /\ msg' = NoMessage
  /\ UNCHANGED <<app, mqttQueue, online, onlineNow, lastOnline, gapOver, sent,
                 givenUp, counted, nvsFailed, overwritten, power>>

(***************************************************************************)
(* Part 2: a rising edge of s_online reports the losses.                   *)
(***************************************************************************)
(* Mutant: only the rising edge itself sends from the store.               *)
EdgeOnly ==
  /\ Go("edge", IF online /\ ~lastOnline THEN "report" ELSE "backfill")
  /\ onlineNow' = (online /\ ~lastOnline)
  /\ lastOnline' = online
  /\ UNCHANGED <<vars, app, mqttQueue, online, msg, gapOver, sent, losses,
                 power>>

Edge ==
  /\ Go("edge", IF online /\ ~lastOnline THEN "report" ELSE "backfill")
  /\ onlineNow' = online
  /\ lastOnline' = online
  /\ UNCHANGED <<vars, app, mqttQueue, online, msg, gapOver, sent, losses,
                 power>>

TakeCount ==
  /\ Go("report", IF overflow = 0 THEN "backfill" ELSE "reporting")
  /\ \/ TakeOverflow /\ UNCHANGED nvsFailed
     \/ TakeFault /\ nvsFailed' = TRUE
  /\ UNCHANGED <<app, mqttQueue, online, loop, sent, givenUp, counted,
                 overwritten, spoilt, power>>

Reported ==
  /\ Go("reporting", "backfill")
  /\ OverflowReported
  /\ reported' = reported + taken
  /\ gapOver' = FALSE
  /\ UNCHANGED <<app, mqttQueue, online, msg, onlineNow, lastOnline, accepted,
                 losses, power>>

(* Mutant: the count is not given back.                                    *)
ReportFailsForgets ==
  /\ Go("reporting", "backfill")
  /\ OverflowReported
  /\ UNCHANGED <<app, mqttQueue, online, loop, sent, losses, power>>

ReportFails ==
  /\ Go("reporting", "backfill")
  /\ \/ GiveBackOverflow /\ UNCHANGED nvsFailed
     \/ GiveBackFault /\ nvsFailed' = TRUE
  /\ UNCHANGED <<app, mqttQueue, online, loop, sent, givenUp, counted,
                 overwritten, spoilt, power>>

(***************************************************************************)
(* Part 3: one stored entry per round, when the gap is over.               *)
(***************************************************************************)
BackfillDue == onlineNow /\ count > 0 /\ gapOver

NoBackfill ==
  /\ ~BackfillDue
  /\ Go("backfill", "receive")
  /\ UNCHANGED <<vars, app, mqttQueue, online, loop, sent, losses, power>>

ReadStore ==
  /\ BackfillDue
  /\ Go("backfill", "reading")
  /\ ReadBegin
  /\ UNCHANGED <<app, mqttQueue, online, loop, sent, losses, power>>

Fetch ==
  /\ Go("reading", "resend")
  /\ ReadHit
  /\ UNCHANGED <<app, mqttQueue, online, loop, sent, losses, power>>

(* A slot taken for corrupt, because it is or because it was not read.     *)
PassOver ==
  /\ at = "reading"
  /\ ReadSkip \/ ReadFault \/ SkipFault
  /\ spoilt' = spoilt \cup (Chip \ Chip')
  /\ UNCHANGED <<app, mqttQueue, online, at, loop, sent, givenUp, counted,
                 nvsFailed, overwritten, power>>

FindNothing ==
  /\ Go("reading", "receive")
  /\ ReadEmpty
  /\ UNCHANGED <<app, mqttQueue, online, loop, sent, losses, power>>

Resent ==
  /\ Go("resend", "mark")
  /\ accepted' = Append(accepted, entry)
  /\ gapOver' = FALSE
  /\ UNCHANGED <<vars, app, mqttQueue, online, msg, onlineNow, lastOnline,
                 reported, losses, power>>

(* Mutant: the read pointer moves on although the publish failed.          *)
ResendFailsMarks ==
  /\ Go("resend", "mark")
  /\ UNCHANGED <<vars, app, mqttQueue, online, loop, sent, losses, power>>

ResendFails ==
  /\ Go("resend", "receive")
  /\ PublishFailed
  /\ UNCHANGED <<app, mqttQueue, online, loop, sent, losses, power>>

(* Mutant: the entry is published but never marked.                        *)
MarkForgotten ==
  /\ Go("mark", "receive")
  /\ PublishFailed
  /\ UNCHANGED <<app, mqttQueue, online, loop, sent, losses, power>>

MarkEntry ==
  /\ Go("mark", "receive")
  /\ MarkSent
  /\ UNCHANGED <<app, mqttQueue, online, loop, sent, losses, power>>

(* The driver has no memory for the mark; the pointer moves on.            *)
MarkSkipped ==
  /\ Go("mark", "receive")
  /\ MarkFault
  /\ unmarked' = unmarked \cup {entry}
  /\ UNCHANGED <<app, mqttQueue, online, loop, sent, losses, cuts, cutShort,
                 uncounted>>

(***************************************************************************)
(* The other tasks and the world.                                          *)
(***************************************************************************)
(* cache_task_set_online, called by the state machine whenever it likes.   *)
SetOnline ==
  /\ online' = ~online
  /\ UNCHANGED <<vars, app, mqttQueue, at, loop, sent, losses, power>>

(* publish_gap_ok answers yes once PUBLISH_GAP_MS have passed.             *)
GapPasses ==
  /\ ~gapOver
  /\ gapOver' = TRUE
  /\ UNCHANGED <<vars, app, mqttQueue, online, at, msg, onlineNow, lastOnline,
                 sent, losses, power>>

Elements(s) == {s[i] : i \in 1 .. Len(s)}
InRam == ({sending, msg} \cup Elements(mqttQueue)) \ {NoMessage}

(* The chip is left as it was, or in the middle of what was being done to  *)
(* it - not while a fetched entry is published.                            *)
CutImages == {flash} \cup IF at = "resend" THEN {} ELSE Interrupted

Restart ==
  \/ CleanCut /\ UNCHANGED nvsFailed
  \/ at # "resend" /\ TornCut /\ UNCHANGED nvsFailed
  \/ /\ Disturbed
     /\ \E f \in CutImages :
          \/ BootScanFault(f) /\ UNCHANGED nvsFailed
          \/ BootNvsFault(f) /\ nvsFailed' = TRUE

(* What RAM holds is gone.                                                 *)
PowerCut ==
  /\ cuts < MaxCuts
  /\ Restart
  /\ cuts' = cuts + 1
  /\ cutShort' = cutShort \cup ((InRam \cup Chip) \ Chip')
  /\ unmarked' = IF at = "mark" THEN unmarked \cup {entry} ELSE unmarked
  /\ uncounted' = uncounted + taken + ((overflow - nvsOverflow) % CounterMod)
  /\ sending' = NoMessage
  /\ mqttQueue' = <<>>
  /\ msg' = NoMessage
  /\ at' = "receive"
  /\ online' = FALSE
  /\ onlineNow' = FALSE
  /\ lastOnline' = FALSE
  /\ gapOver' = TRUE
  /\ UNCHANGED <<built, refused, sent, givenUp, counted, overwritten, spoilt>>

AppTask == Build \/ BuildFails \/ QueueSend \/ QueueSendTimesOut

CacheTask ==
  \/ Receive \/ ReceiveTimesOut \/ Route \/ Published \/ PublishFails
  \/ WriteMessage \/ GiveUpSector \/ SaveCount \/ EnterSector \/ StoreMessage
  \/ Edge \/ TakeCount \/ Reported \/ ReportFails
  \/ NoBackfill \/ ReadStore \/ Fetch \/ PassOver \/ FindNothing
  \/ Resent \/ ResendFails \/ MarkEntry \/ MarkSkipped

TaskNext == AppTask \/ CacheTask \/ SetOnline \/ GapPasses \/ PowerCut

TaskSpec == TaskInit /\ [][TaskNext]_allVars

(* The tasks run, time passes, and the client does not refuse for ever     *)
(* what it is offered again and again.                                     *)
FairTaskSpec ==
  /\ TaskSpec
  /\ WF_allVars(AppTask)
  /\ WF_allVars(CacheTask)
  /\ WF_allVars(GapPasses)
  /\ SF_allVars(Resent)

(***************************************************************************)
(* Properties.                                                             *)
(***************************************************************************)
OneOf(m) == IF m = NoMessage THEN <<>> ELSE <<m>>
Ascending(s) == \A i, j \in 1 .. Len(s) : i < j => s[i] < s[j]

(* The messages that have not reached the store, oldest first, and all     *)
(* that waits for the cloud.                                               *)
Fresh == OneOf(msg) \o mqttQueue \o OneOf(sending)
Waiting == Contents \o Fresh

(* Where the cache task is fits where it is in the store.                  *)
InStore ==
  CASE at = "storing"           -> {"erase", "persist", "program"}
    [] at = "reading"           -> {"read"}
    [] at = "reporting"         -> {"report"}
    [] at \in {"resend", "mark"} -> {"sending"}
    [] OTHER                    -> {"idle"}

(* Every message in its range, and in a task's hands exactly where the     *)
(* code holds one; mqtt_queue keeps to its size.                           *)
TaskTypeOK ==
  /\ TypeOK
  /\ built \in 0 .. MaxMessages
  /\ sending \in 0 .. built
  /\ mqttQueue \in Seq(1 .. built) /\ Len(mqttQueue) <= QueueDepth
  /\ online \in BOOLEAN
  /\ at \in {"receive", "route", "publish", "store", "storing", "edge",
             "report", "reporting", "backfill", "reading", "resend", "mark"}
  /\ pc \in InStore
  /\ msg \in 0 .. built
  /\ msg # NoMessage <=> at \in {"route", "publish", "store", "storing"}
  /\ at = "storing" => entry = msg
  /\ onlineNow \in BOOLEAN
  /\ lastOnline \in BOOLEAN
  /\ gapOver \in BOOLEAN
  /\ Chip \subseteq 1 .. built
HistoryTypeOK ==
  /\ accepted \in Seq(1 .. built \cup {Garbage})
  /\ reported \in Nat /\ counted \in Nat /\ uncounted \in Nat
  /\ nvsFailed \in BOOLEAN
  /\ refused \subseteq 1 .. built
  /\ givenUp \subseteq 1 .. built
  /\ overwritten \subseteq 1 .. built
  /\ spoilt \subseteq 1 .. built
  /\ cuts \in 0 .. MaxCuts
  /\ cutShort \subseteq 1 .. built
  /\ unmarked \subseteq 1 .. built \cup {Garbage}

(* Store and forward keeps the order: what waits outside the store waits   *)
(* in the order it was built and is younger than all on the chip, and as   *)
(* long as the store's history is orderly the backfill of                  *)
(* cache_task.c:208-235 sends the past oldest first.                       *)
OrderKept ==
  /\ Ascending(Fresh)
  /\ \A m \in Chip, n \in Elements(Fresh) : m < n
  /\ orderly => Ascending(Waiting)

(* docs/ADR/ADR007:54, CHANGELOG.md:224 (at least once): a message that    *)
(* was built is on its way or was accepted, unless app_task dropped it     *)
(* (app_task.c:45, 81, 100), the full store gave it up, or the power was   *)
(* cut before it was stored - and, in a history that was not orderly, an   *)
(* erase or a driver without memory took it.  In an orderly one, what is   *)
(* on its way in the store is what the reader will visit.                  *)
NothingForgotten ==
  \A m \in 1 .. built :
    \/ m \in IF orderly THEN Elements(Waiting) ELSE Chip \cup Elements(Fresh)
    \/ m \in Elements(accepted)
    \/ m \in refused \cup givenUp \cup cutShort
    \/ ~orderly /\ m \in overwritten \cup spoilt

(* A message is accepted twice only if the power was cut between its       *)
(* publish and its mark (cache_task.c:222-223), or the mark found no       *)
(* memory, whatever the connection and the store do meanwhile.             *)
AcceptedOnce ==
  \A i, j \in 1 .. Len(accepted) :
    i < j /\ accepted[i] = accepted[j] /\ accepted[i] \in Payload
      => accepted[i] \in unmarked

(* The counter is never less than what the full store gave up, and just    *)
(* that in an orderly history.  As long as NVS works, what was counted is  *)
(* in the counter, in the report being sent, or was reported, or a power   *)
(* cut met it in RAM (cache_task.c:119 zeroes the counter in NVS before it *)
(* publishes it).                                                          *)
LossesCounted ==
  /\ Cardinality(givenUp) <= counted
  /\ orderly => Cardinality(givenUp) = counted
  /\ ~nvsFailed =>
       (overflow + taken + reported + uncounted) % CounterMod
         = counted % CounterMod

(* cache_task.c:208: once the gateway stays online, the backlog is drained *)
(* for good, however often single publishes fail.                          *)
Drains == <>[]online => <>[](count = 0 /\ Fresh = <<>>)
=============================================================================
