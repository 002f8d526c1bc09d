# Verification of the ESP32-S3 industrial gateway

TLA+ models, TLC runs and TLAPS proofs for the firmware in `src/main`: a gateway
that polls Modbus sensors, sends their readings to the OneNET cloud over MQTT,
and stores them in an external NOR flash while the connection is down.

## 1. The system

Tasks (FreeRTOS; nothing here relies on there being one core): the state machine
task, `app_task`, `cache_task`, `poll_task`, the default event loop of ESP-IDF
(WiFi events) and the client task of esp-mqtt (MQTT events).

```
 sensors -- rs485 -- modbus_master -- poll_scheduler -> device_manager (mutex)
                                                             |
                                                         app_task
                                                             | mqtt_queue (5)
                                                             v
 w25q64 <- flash_storage (mutex, NVS counter) <- cache_task -> mqtt_app -> broker
                                                  ^ s_online      ^ start/stop
                 wifi -- event queue (10) --> state_machine ------+
                 mqtt_app (callbacks) ---^
```

| component | state it keeps | operations | what makes it hard | what makes it correct | module |
|---|---|---|---|---|---|
| `storage/flash_storage` | read and write address, count, loss counter (RAM and NVS), 256-byte slots on the chip | init (scan), write, read, mark_sent, take / give back the loss counter | power cuts between and inside chip operations, erase by sector against slots, wrap-around, pointers rebuilt from magics alone | first in first out, nothing forgotten or repeated, losses counted, counters bounded | `FlashStorage`, `CacheStore` |
| `drivers/w25q64` | the chip with its busy and write-enable bits | init, write (page split), erase, read | a program wraps inside its page, the chip ignores what comes at the wrong time, malloc fails half-way | exactly the range changes, a page at a time, nothing is ignored | `W25q64`, `NorFlash`; cuts in `FlashStorage` |
| `app/state_machine` | state, event queue | four handlers, drain, time-outs, sleeps | stale events, swallowed events, time-outs that race with answers | online only when it is true, falls back for a reason, comes back | `StateMachine` |
| `drivers/wifi` | event queue handle | init, start, stop, event handler | a stop raises an event of its own | no event is dropped | `StateMachine` |
| `protocol/mqtt_app` | `s_client`, event queue handle | start, stop, publish, event handler | a callback between test and send; publish against destroy; the outbox | no event of an old client is believed, what is lost is lost with a client | `StateMachine`, `ClientLife`, `Gateway` |
| `app/cache_task` | `s_online`, gap stamp, the message in hand, its handle | loop, loss report, set_online, start, stop | a sampled flag, failures in the middle of a round, power cuts, forced deletion | at least once, in order, losses counted, the backlog drains | `CacheTask`, `Gateway`, `TaskLifecycle` |
| `app/app_task` | message id, its flag | sample, build, bounded send, start, stop | the queue is full while a publish blocks; a freed task is asked for its state | a drop is the only loss; a stop ends | `CacheTask`, `Polling`, `TaskLifecycle` |
| `scheduler/poll_scheduler` | failure counts, last valid samples, flag and handle | poll round, start, stop | stale samples count as online for two rounds, a byte counter runs over, start while the task leaves | offline after three failures, back at the first answer | `Polling` |
| `manager/device_manager` | device table | update, get_all, check_offline | the clock is read before the mutex is taken | whole, latest readings | `DeviceManager` |
| `protocol/modbus_master`, `drivers/rs485` | receive buffer, FIFO | request, answer, checks | noise, damage, late answers, resynchronisation | a value belongs to the slave and the field asked for | `Modbus` |
| `protocol/modbus_crc` | - | CRC16 | a slip shows only on some frames | it is the remainder of the division | `ModbusCrc` |
| `common/config_manager` | configuration in RAM and NVS | init, get, set, reset | failure between erase and write | a start finds what was in force | `ConfigManager` |
| `app_main` | - | start-up sequence | ignores the result of flash_storage_init | - | not modelled |

Interactions that cross components: the event queue (wifi, mqtt_app ->
state_machine), `s_online` (state_machine -> cache_task), `mqtt_queue`
(app_task -> cache_task), `s_client` (state_machine and cache_task), the device
table (poll_scheduler -> app_task).

## 2. The modules

```
 ClientLife <-implements- StateMachine     FlashStorage -implements-> CacheStore
     |  instance                                | extended by
     +--------------> Gateway --extends--> CacheTask
 NorFlash <-implements- W25q64             DeviceManager <-extended by- Polling
 Modbus, ModbusCrc, ConfigManager, TaskLifecycle
```

`XProofs` holds the theorems about `X`, `GatewayProofs` those about `CacheTask`
too. `MCX` gives TLC what a `.cfg` cannot write down.

Three abstract specifications tie the parts together. `CacheStore` is what the
flash store promises (a bounded queue with fetch / deliver / retry and a loss
count); `FlashStorage` implements it as long as its history is orderly (below),
and not beyond: findings 1 and 2. `CacheTask` is therefore built on `FlashStorage`
itself, with every fault of it, and not on the promise. `ClientLife` is what the
state machine promises (when a client exists and when `s_online` is set);
`StateMachine` implements it, and `Gateway` is built on it. `NorFlash` is what the
flash driver promises: pages written in order, each at once, sectors erased at
once; `W25q64` implements it over commands, a busy bit and a page program that
wraps, and the steps of `FlashStorage` are of its grain.

### FlashStorage

The chip is a function from slots to cells: `Blank`, `Sent`, a payload under a
VALID magic, or one of the damaged forms (a torn magic, a bad length, a damaged
payload, data bits under a blank magic). `readAddr`, `writeAddr`, `count`,
`overflow` are the statics of `flash_storage.c`; `nvsOverflow` is the counter in
NVS; `pc`, `entry` and `taken` say where its only caller is. An operation is as
many actions as it has durable effects: `WriteBegin`, then `EraseFull` or
`EraseWrap`, `PersistOverflow`, `ProgramEntry`. A power cut may fall between any
two of them (`CleanCut`) or in the middle of one (`TornCut`); the restart is
`flash_storage_init` with its scan, which may itself fail (`FaultyBoot`).

Faults, each the step it replaces with what is left undone: a read, a program, a
mark, or the mark of a slot taken for corrupt finds no memory in the driver
(`ReadFault`, `ProgramFault`, `MarkFault`, `SkipFault`), and each of the three
callers of `overflow_persist` may meet an NVS that does not write (`PersistFault`,
`TakeFault`, `GiveBackFault`): RAM then holds one count and NVS another.

`orderly` is a history bit. It is set at first and cleared by a fault, by a cut
in the middle of a step, by a cut after the first lap or while the count in NVS
is not that of RAM, and by a write that enters a sector while entries wait in it
and the ring is not exactly full (`EntersOrderly`). It guards nothing: all steps
go on as before. It says up to which point of a history the store keeps its
promise. The code does nothing to keep a history orderly; each of the causes but
the faults and the torn cuts is a case of findings 1 and 2.

Specifications: `Spec` (everything), `RunningSpec` (no fault, no cut),
`WrappedSpec` (power cuts while the ring goes round and nothing overflows; a
restriction that only makes its counterexample stronger).

Left out: the time-out of the mutex (one caller, never contended) and the buffer
test of `flash_storage_read` (the buffer of `cache_task` always fits).

### W25q64 and NorFlash

`cells` maps an address to the set of bytes programmed into it since its last
erase (a program only clears bits); `busy` and `wel` are bits of the status
register, and the chip ignores a program or an erase unless it is enabled and
idle. `Write`, `Erase` and `Read` are the calls of the driver, `WriteEnable`,
`PageProgram`, `ProgramSkipped` (no memory: the page is skipped after the enable
was sent), `SectorErase`, `Programming` and `Erasing` its inner steps, `ChipDone`
the chip. A program that runs past its page goes on at the page's start.

`NorFlash` knows only the call under way and the addresses it has left
(`job`). `PageWritten` does the part of them in the lowest page at once,
`PageMissed` leaves it out (no memory), `SectorErased` does them all. It says
which bytes are a piece by their pages, not by the arithmetic of the loop;
`Job` in `W25q64` is the mapping.

Left out: the bits on the bus, null buffers, the second of `wait_busy` running
out (the chip answers within its data sheet), power cuts (`FlashStorage` has them
by its cells).

### StateMachine and ClientLife

`pc` is the point of the state machine task inside its handler; every
`vTaskDelay`, wait and call that can fail is a point. `queue` is the event
queue, `air` holds WiFi events the event task has not handled, `callback` says
where the client task is in `mqtt_event_handler` (its test of
`s_sys_event_queue` and its send are two steps). `radio`, `conn`, `ap` and
`broker` are the world. A sleep of one second or more outlasts the event task
(`Wake` needs an empty `air`), and a turn of the radio takes longer than the
event task needs for the one before.

`unclean` is a history bit: the last restart of the WiFi failed to stop the
radio, or its drain came before an event that had been raised. Then an old
event can be taken for news, and even the online flag can be wrong for a while;
`OnlineTruthful` and `FallBackJustified` exclude exactly that case. DHCP
renewals (a second GOT_IP with no loss) are not modelled. `mqtt_event_handler`
reads `s_sys_event_queue` twice; the model sends to the queue it tested.

### CacheTask and Gateway

Messages are numbers, in the order `app_task` builds them, and the payloads of
`FlashStorage`. `at` walks the loop of `cache_task`: receive, route, publish or
store, edge, report, backfill, read, resend, mark; where it calls the store, the
steps are those of `FlashStorage` with the same name or part (`StoreMessage` is
`ProgramEntry` or `ProgramFault`, `PassOver` a turn of the loop of
`flash_storage_read` over a slot it takes for corrupt, and so on), and
`PowerCut` is any of its cuts and restarts together with the loss of what RAM
holds. `online` is `s_online`, which the state machine may flip between any two
steps; `onlineNow` and `lastOnline` are the sampled copies. In `CacheTask` a
publish is accepted or refused by the client, whatever the flag says. `gapOver`
stands for the comparison of `publish_gap_ok`. A message `app_task` cannot build
for want of memory (`BuildFails`) has used up its number.

`accepted`, `reported`, `refused`, `givenUp`, `counted`, `nvsFailed`,
`overwritten`, `spoilt`, `cutShort`, `unmarked` and `uncounted` are history
variables that the actions only write. They record what left the chip by what
was on it before and after a step (`Chip`), so that a loss the code does not know
of is recorded, too: `givenUp` is what the full store erased, `overwritten` what a
store that is not full erased (`flash_storage.c:196`), `spoilt` what a program
over a slot that was not blank, a read that failed or a program without memory
destroyed, `cutShort` what a cut took.

`Gateway` puts the client under the same loop. `mqtt_app_publish` is two steps,
`TestClient` (line 163) and `CallClient` (line 169), and uses the handle it
tested or the present one, as the compiler likes: `s_client` is neither locked
nor volatile. A handle is the client created last (`Latest`) or one before it
(`Former`); more of them cannot be told apart by anything the code does. A client
that was destroyed meanwhile answers anything (`CallsDestroyed`). What a living
client accepts goes into its `outbox` until the broker acknowledges it; the
outbox goes with the client and with the power.

Left out: what a message contains, and the length test of `flash_storage_write`
(244 bytes): with the two devices `app_task` knows, a message never reaches it.

### Polling and DeviceManager

`poll_task` device by device: `DeviceBegins`, one `FieldRead` per field or
`ReadFails`, then `KeepSample` and `UpdateTable`, or `CountFailure` and, from the
threshold on, `Verdict`. `failCount` is the byte of the code and runs over
modulo `FailMod`. A value is known by the call of `modbus_read_device` that read
it. `Start`, `StartFails` and `Stop` may come at any time - also a start while
the old task is leaving, which the code ignores - and so may a caller of
`device_manager_check_offline`, which reads the clock before it takes the mutex
(`CheckBegins`, `CheckMarks`). Each holder of the mutex is one step. `GetAll` is
what `app_task` is handed.

Left out: the scaling of values; the polling interval (an unbounded pause).

### Modbus and ModbusCrc

`Modbus` is `modbus_read_device` over the UART: `Flush`, `Send`, `Receive` (one
chunk, with the search for the address byte), `TimesOut`, and the four checks in
their order (`Verdict`). The slave answers, refuses or stays silent; its frame
is on its way (`pending`) until it is delivered, whole or damaged, into the FIFO
(`rx`). An address found in the second half of a chunk does not end the loop,
because the code compares the offset with a length it has just reduced
(`InFirstHalf`; `modbus_master.c:72-76`). `late` marks an answer that was still
under way when the master had given up. The CRC is perfect in this module: it
passes for one whole frame.

What it really computes is in `ModbusCrc`: `TakeByte` and `ShiftOnce` are the two
loops of `modbus_crc16`, one turn a step, for a frame that is sealed by its
sender (`Compose`), turned over in places by the line (`Transfer`) and checked
from the byte on where resynchronisation found an address (`Judge`), until the
buffer is used again (`Leave`). A word is the set of the
places of its ones, so that `^` is the symmetric difference, and the places of
the line, read as coefficients, are the polynomial that is divided. `quotient` is
a history variable: it makes "the remainder" a plain equation. The two modules
share no variable; `MCModbus` runs them side by side, the CRCs before the first
request, since nothing is gained by more interleavings.

Lengths and addresses are bytes, so there are at most 255 slaves, and stray bytes
are bytes.

Left out: the contents of the data bytes (a frame is known by its sender and its
request), the direction pin and its timing beyond the byte of noise it leaves,
`rs485_init`.

### ConfigManager

`ram` is `s_config`, `nvs` what the flash holds, `pending` what NVS was last told
to hold; `pc` is the next call into NVS, each of which may fail. What NVS was
told may reach the flash early (`Flush`) and does at `Commit`. `allowed` and
`failed` are history variables. Only init and get have callers today; the
others are called as the header offers them.

### TaskLifecycle

The handles and flags of the two tasks, the tasks themselves (one number per
creation), and the caller in the four functions. The cache task walks the calls
of its rounds: it waits for the lock of a call (`TakesLock`, or `MutexTimesOut`
after a second), is inside it, and leaves it by one of the ways the function
returns, each an action of its own (`Written`, `WriteTooLong`, `CountTaken`,
`CountGivenBack`, `EntryRead`, `NothingRead`, `MarkedSent`, `ClientReturns`),
which gives the lock back because that line of the code does. It sees its flag
only at the head of its loop (`LoopEnds`), whatever it holds there. `CacheForced`
is `vTaskDelete` after three seconds, on the handle as it is read again;
`AppIsGone` and `AppForced` allow any answer about a task that was freed.
`app_task_start` creates a task without a test for an old one, or fails to
(`AppStartFails`). Neither stop function has a caller today.

## 3. The runs

| run | specification | bounds | shows |
|---|---|---|---|
| `flash` | `Spec` | 2 sectors of 2 slots, 2 payloads, counter mod 4 | count bounded, no resend of a marked entry, under all faults and cuts; what waits is what is read and the ring is the queue of `CacheStore`, while the history is orderly |
| `flash_uncounted` | `RunningSpec` | 3 x 2, 1 payload, counter mod 8 | violation: an erase destroys waiting entries and counts none |
| `flash_wrapcut` | `WrappedSpec` | 3 x 2, 1 payload | violation: waiting entries missed by the start-up scan |
| `w25q64` | `Spec` | pages of 2, sectors of 4, 8 bytes, lengths to 5, 2 calls | only the range changes, at any moment; a call that returned has done its work; the driver is the memory of `NorFlash` |
| `sm` | `FairSpec` | queue of 10 | online is truthful, no event dropped, fall-back justified, the client's life kept, a loss noticed, the WiFi found, a broker outage healed |
| `sm_heals` | `SmoothSpec` | queue of 10 | violation: a swallowed WIFI_DISCONNECTED keeps the gateway off for ever |
| `cache` | `FairTaskSpec` | 3 messages, 1 cut, queue 2, a sector of 2 slots, counter mod 4 | order, at least once, no double, losses counted, the backlog drains; over the ring with all its faults |
| `gateway` | `FairGatewaySpec` | 2 messages, 1 cut, queue 1, a sector of 1 slot, counter mod 3 | beyond the loop and its store only a lost outbox forgets, all reaches the cloud |
| `poll` | `LiveSpec` | 2 devices with 2 and 1 fields, threshold 3, counter mod 4, clock mod 2 | verdict in time, whole latest readings, the dead go offline, the living come back |
| `modbus` | `MCSpec` | 2 slaves with 2 and 1 fields, 1 answer under way, 14 + 1 bytes in the FIFO; CRCs of 121 frames (a request, the answers and exceptions of 3 slaves), in the request every single place, two places at every distance and bursts of 3 to 16 turned over, and every place to resynchronise to | answers fit, noise is tolerated, every device is polled; the CRC is the division, what is sealed passes, damage does not, no frame inside another |
| `config` | `Spec` | 3 configurations, 3 sets, 2 cuts | a configuration is kept, RAM and NVS agree, saved before used |
| `life` | `FairSpec` | 3 tasks of each kind | one cache task, nothing left locked but by force, a stop ends |

Why the bounds are enough. Flash: two slots in a sector are the least with a
sector half sent and half waiting; two sectors are enough for the ring to be
full, to overflow, to wrap and to be entered behind the reader, and with two
payloads an entry is told from the one before it; three sectors are the least
where a wrapped ring has waiting entries behind a blank sector. W25q64: a length
of five crosses two page boundaries and a sector boundary from every offset, and
the second call meets what the first left in the status register. StateMachine:
the model is finite without bounds and the queue has the size of the code; the
queue reaches nine events, because the fall-back at `state_machine.c:194-201`
drains nothing, so eight places would not be enough and ten are. CacheTask:
three messages fill the store (2) and overflow it, with one in a task's hands;
on a single sector every write that finds a full or a wrapped store enters the
sector of the reader, which is the case of finding 1, and every loss the
histories tell apart occurs. Gateway: two messages and a report can be in the
outbox of one client while another is created, and a store of one slot overflows
with the second message; the ring is explored in the other two runs. Polling:
two devices tell one's counter and sample from the other's, two fields make half
a reading possible, and a counter of four values runs over just behind the
threshold, which 256 does too, only later; two calls in a row are told apart for
the device of two fields, one for the other. Modbus: two fields and two slaves
are the least for a wrong field and a wrong slave; four request numbers tell an
answer from all that can still be on its way. ModbusCrc: whether damage is found
does not depend on the frame it is in, hence one frame for it, the request;
whether a frame hides in another does, hence answers of every slave. What is
proved holds for every size.

`life` and `w25q64` do not check for deadlock: no more tasks, and no more calls,
is where their bounds end, and `vTaskDelete(NULL)` ends the caller of a stop.

Every property of a passing run has a mutant in `PROJECT.json`: a plausible bug
in one mapped definition that the run then reports.

### Disagreements between the code and its documentation

Paths are relative to `src/` (`README.md` is `src/README.md`) or to `src/main/`.

Shown by a run:

1. `flash_uncounted`, `flash_storage.c:196`: a write that enters a sector erases
   it whenever the ring is not exactly full, and counts nothing. If k entries of
   the reader's sector were sent before a long outage (0 < k < 16; no overflow
   and no fault is needed), the write pointer comes round to that sector with
   count = capacity - k, and the 16 - k entries that wait there are destroyed,
   against README.md:11. What follows was seen in the same model: the count goes
   on as if they were there, so that the test for a full ring comes true in the
   middle of the sector and erases the newest entries instead of the oldest;
   the reader visits new entries before old ones; and where it skips a blank
   slot it marks it SENT, so that what is written there later is lost.
2. `flash_wrapcut`, `flash_storage.c:282`: once wrapped, the scan stops at the
   first blank slot and misses entries behind it, against README.md:10.
3. `sm_heals`, `state_machine.c:240`: a drain swallows the only news of a lost
   link, and only `handle_wifi_conn` ever reconnects, against README.md:12.

Met while modelling, and written into the models as what the code does:

* `flash_storage.c:145`: a half-written slot makes the count run out one entry
  early after a restart, against README.md:10. `flash` has such slots.
* `w25q64.c:82`, `flash_storage.c:209`: a program without memory is skipped while
  `flash_storage_write` returns 0 and moves on; the message is gone (`spoilt`).
  The same shortage makes the reader take a good entry for corrupt
  (`flash_storage.c:116`) and mark it SENT.
* `flash_storage.c:83-91`: when NVS does not write, a later cut brings the old
  count back: losses are forgotten, or reported twice (`nvsFailed`).
* `cache_task.c:119`: the loss counter is zeroed in NVS before it is published;
  a cut in between loses the count (`uncounted` in `CacheTask`), against
  README.md:11 and CHANGELOG.md:259.
* `cache_task.c:195`: losses are reported on a rising edge of `s_online` only.
  What a report gave back, or what was lost while the flag stayed set, waits
  until the next outage is over.
* `cache_task.c:223`: an entry is marked when the client took it, not when the
  broker acknowledged it; the outbox goes with the client (`dropped` in
  `Gateway`), against CHANGELOG.md:260.
* `mqtt_app.c:104`: the client is destroyed before `s_client` is cleared, and
  `cache_task` may call it in between (`CallsDestroyed`).
* `cache_task.c:18`: `PUBLISH_GAP_MS` is called the least interval between any two
  publishes; only the backfill looks at it.
* `modbus_master.c:37`: an answer that comes after its time-out answers the next
  request to the same slave, so that a value lands in the wrong field
  (the `late` exception of `AnswerFits`).
* `modbus_master.c:72-76`: `n` is reduced by `offset` before `offset < n` is
  tested, so a frame found in the second half of the chunk does not end the loop:
  with seven foreign bytes before an answer of seven, the first attempt throws
  the answer away and reads the line again, usually into a time-out.
* `config_manager.c:28-33`: a read that fails for any reason erases the
  configuration (the "read" exception of `ConfigKept`); after a reset that
  failed, RAM holds zeros or old values (`failed` in `RamAgrees`).
* `cache_task.c:105`: a forced deletion leaves the task's locks taken (the
  `forced` exception of `NothingLeftLocked`), and when the task clears its handle
  at that moment, `vTaskDelete(NULL)` deletes the caller.
* `app_task.c:141`: a freed task is asked for its state.
* `device_manager.c:61`: `device_manager_check_offline`, the second line of
  defence of docs/PRD.md:92, has no caller, and reads its clock too early.
* `poll_scheduler.c`: a start while the old task is on its way out is ignored,
  and a failing start goes unnoticed.

## 4. Fairness

* `StateMachine`: weak fairness of each task, of the radio and of the client:
  FreeRTOS runs every ready task, and both drivers end an attempt with an event.
  `FairSpec` adds that misfortunes (a refused platform call, a time-out that
  beats an answer on its way, a drain that beats the event task) do not go on
  for ever; safety needs none of it. `SmoothSpec` has no misfortune at all,
  which makes the counterexample of `sm_heals` stronger.
* `CacheTask`, `Gateway`: weak fairness of the two tasks (store steps included)
  and of the clock, strong fairness of an accepted backfill publish (a client
  that is asked again and again accepts in the end), and weak fairness of the
  broker's acknowledgement while the client is connected. `Drains` and
  `ReachesCloud` are claimed only for a gateway that stays online from some
  moment on. The messages of a run are finite, so neither says anything of a
  source faster than the publish gap; the code samples every 2 s and the gap is
  1 s.
* `Polling`: weak fairness of `poll_task`, and a slave that answers is misread
  only finitely often (`<>[][~Noise]_vars`); nothing is asked of starts, stops,
  the clock or the offline checks.
* `Modbus` (`MCSpec`): fairness of the master, strong only because it waits while
  a CRC is computed, and weak fairness of the computation; the line may do what it
  likes, and may even be noisy for ever: two receives are all the code makes.
* `TaskLifecycle`: weak fairness of the caller's loops; nothing is asked of the
  tasks, which may wait for a lock for ever.

## 5. The proofs

All theorems hold for every value of the constants, from the named assumptions
of the modules only: sizes and moduli are positive (`GeometryAssumption`,
`QueueAssumption`, `CacheTaskAssumption`, `PollingAssumption`, ...), the slot
marks differ from each other and from every payload, the failure counter is wider
than the threshold. A theorem whose result needs a size of the code says so
itself: `OnlineIsTrue` and `FallsBackForAReason` need `QueueDepth >= 4`,
`NoEventIsDropped` needs `QueueDepth >= 10` (the code has ten), and
`TurnNoiseCostsNothing` needs `Attempts >= 2` (the code has two).

* `FlashStorageProofs`, of `Spec` and so under every fault and cut:
  `TypeCorrect`, `CountStaysBounded`, `NeverResent`, from the inductive
  invariant `StoreInv`. The count needs it because the full test is an equality
  and mark_sent decrements blindly: `StoreInv` says that a fetch is only under
  way with a positive count and a write only below capacity. As long as the
  history is orderly: what waits is what is read (`OrderlyReachable`), and the
  ring is the queue of `CacheStore` (`OrderlyImplementsStore`). The invariant is
  `EarlyInv`. Its part `RingShape` says that the waiting slots are exactly those
  from the read to the write pointer, and that the write sector is blank from the
  write pointer on; `NoHole`, that no slot behind the write pointer is blank, so
  that the scan does not stop early. `EarlyCutRebuilds` is the recovery: a cut on
  the first lap and the scan after it leave both pointers, the count and the
  losses what they were. Nothing is assumed of the writes: what a disorderly one
  does is in the steps, and ends the claim.
* `W25q64Proofs`: `TypeCorrect`, `NothingElseTouched`, `CallsAreExact`,
  `DriverImplementsNorFlash`, `EntriesWhole`. The invariant says what the chip
  holds in the middle of a call: what was there before, and of the caller's
  buffer the pages written so far but for those that were skipped (`Contents`);
  that the bounds of the loop fit the page the chip is in, which is why a
  program never wraps (`Loop`); and that the chip is idle and enabled whenever a
  command is sent (`Obedient`). The arithmetic of pages and sectors is in lemmas
  of its own. The refinement needs one fact more: that the chunk cut by the loop
  is the part of the rest that lies in the lowest page (`ChunkIsPiece`), since
  the start of the page grows with the address (`StartGrows`) and a chunk that
  is not the last ends its page (`PageEnds`). A page program is then
  `PageWritten`, a failed malloc `PageMissed`, and the write enable, the chip's
  own step and most waits are stutters. `EntriesWhole`: at every moment of a
  write that stays within a page, as an entry and its magic do, all of it is in
  the chip or nothing. It follows the first turn of the loop: such a write has
  one chunk (`OneChunk`).
* `GatewayProofs`, of `TaskSpec`, that is of the loop over the ring with every
  fault and cut: `TaskTypeCorrect`, and from the inductive invariant `TaskInv` the
  theorems `KeepsOrder`, `ForgetsNothing`, `AcceptsOnce`, `CountsLosses`.
  `TaskInv` holds the invariants of the store, since every step of the loop is a
  step of `FlashStorage` or leaves it alone (`StoreSteps`), the types, and
  `MessageInv`. None of the four is inductive alone. That nothing is forgotten
  (`AllKept`) needs what a step can do to the chip (`FlashMoves`: it adds the
  message being written, or takes away what the history names) and that a marked
  entry was accepted (`MarkEarned`). That a message is not accepted twice needs
  that each lies in one slot or one pair of hands (`EachOnce`) and that what was
  accepted is not on the chip, but for an entry under its mark and those left
  unmarked (`AcceptedGone`). Order needs that all that left the hands of the tasks
  is older than what is in them (`PastIsOlder`). The counter is never behind
  because an erase of a full ring takes at most a sector and counts one
  (`GivenUpCounted`); the rest of `CountsLosses` is arithmetic modulo the width
  of the counter (`CounterSum`). Of the composition: every step of it is a step
  of the loop or none (`GatewayRunsTheLoop`), because `mqtt_app_publish` returns
  one of two answers and the state machine touches only `s_online`; and from the
  client's side `GatewayTypeCorrect`, `EveryMessageTraced` and `OnlyOutboxLoses`,
  the whole of the run's `OnlyOutboxForgets`. Its second half follows the reports
  (`ReportsTraced`): the losses in an outbox are the number of pairs of a place
  and a loss, so that what a send and an acknowledgement do to them is a fact
  about cardinalities and not an induction over the outbox.
* `StateMachineProofs`: `TypeCorrect` and `MachineImplementsClientLife` for every
  queue, from `ClientInv`: the flag is set only in `run_wait`, a client lives
  only between its start and its stop, and no MQTT_CONNECTED waits where a client
  is about to be created again. `OnlineIsTrue` and `FallsBackForAReason` need to
  know what waits in the queue. `CalmInv` says that either the WiFi is just being
  stopped or was stopped uncleanly (`Unsettled`), or the news are calm (`Calm`):
  no kind of event waits twice (so a queue of four drops none), every WiFi event
  agrees with the radio as it is now, news of a client come before news of the
  WiFi while the station starts (so that the first WIFI_CONNECTED is not followed
  by an old client's news), and the loss of a running client is in its callback
  or in the queue. Each action that touches the queue has a lemma; what sending,
  receiving and draining do to these facts is stated once (`SentNews`,
  `ReceivedNews`, `DrainedNews`). `NoEventIsDropped` holds through every history
  of unclean restarts, where one kind of event can wait twice and `CalmInv` says
  nothing: `Backlog` bounds, for each point of the task, what is queued together
  with what the radio, the event task and the client can still send before the
  next drain. A quota is about two numbers, the places and the WIFI_CONNECTEDs
  that come before any news of a client, because each of those lets the task
  take one more turn round its loop without draining. The bound is nine.
* `ModbusProofs`: `TypeCorrect`, `AnswersFit`, `TurnNoiseCostsNothing`. The first
  two come from `ReadingInv`, which follows the frames of the asked slave that
  kept to their time: none is on its way or in the FIFO when a request goes out
  (`NothingOld`), because the devices are asked in turn and the flush empties
  the rest, and afterwards there is at most one, the answer to this request
  (`OwnAnswer`). Request numbers go round, so that a field keeps its number is a
  fact about remainders (`SameRequest`). The third follows a calm line byte by
  byte: the byte of noise comes in the first receive or not at all, and the whole
  answer is still there for the second. Of the CRC, for frames of any length and
  contents: `CrcIsRemainder`, `SealedFramesPass`, `DamageIsFound`, from `CrcInv`,
  the loop invariant of a division with the fact that what was sealed is a
  multiple of the divisor (`SealedMultiple`). A sum of multiples is a multiple
  (`TimesLinear`), so what passes was damaged by a multiple; one that is not
  nothing has its lowest place where its factor has, and its highest sixteen
  above (`TimesLow`, `TimesHigh`), so no burst of sixteen is one, and it has an
  even number of places (`TimesEven`).
* `PollingProofs`: `TypeCorrect`; `VerdictInTime`, from the count and the true
  number of failures agreeing up to the threshold, also when the byte runs over;
  `LastReadingReported`, from what `data`, `lastValid` and the table hold at each
  point of the round.
* `ConfigManagerProofs`: `ConfigIsKept` and `RamIsSaved` from `ConfigInv`, and the
  action property `SavedFirst`.
* `LifecycleProofs`: `TypeCorrect`, `OneAtATime`, `LocksGivenBack`, from
  `LifeInv`: a new task finds the handle cleared, so no other is in its loop, and
  the holder of a lock is inside a call that takes it, or was deleted by force
  (`HoldersInside`); that needs every way out of every call.

Only model-checked: all liveness (`LossNoticed`, `WifiFound`, `BrokerOutageHeals`,
`Drains`, `ReachesCloud`, `DeadGoesOffline`, `AliveComesOnline`,
`EveryDevicePolled`, `StopEnds`: fairness and ENABLED are beyond the prover); and
`OnlyWholePass` of the CRC. That two places anywhere are found rests on the order
of x modulo the polynomial, which is 32767 turns of a computation, and that no
answer hides in another on the bytes of these answers; neither has an argument
shorter than the run. Every other invariant, action property and refinement of a
passing run is a theorem.

## 6. Limits

* What the ring does after a history stopped being orderly is in the models, but
  little is claimed of it: the count stays bounded, nothing marked comes back,
  every lost message has a reason, and the counter holds what was counted.
  Nothing says how much is lost.
* A call of a client that was destroyed (`CallsDestroyed`) is assumed to return;
  in the code it reads freed memory and may as well crash the gateway.
* `StateMachine` and `Gateway` meet in `ClientLife`, not in one model: what the
  event queue does to the timing of a destroyed client is in the first, what the
  client does to the messages in the second.
* The functions without a caller (`config_manager_set` and `_reset_default`,
  `device_manager_check_offline`, `poll_scheduler_stop`, the two task stops) are
  modelled as their headers offer them, at any time.
* A stop of the tasks has no composition with the store: that a forced deletion
  leaves the mutex taken is shown, what `flash_storage` makes of it is not.
* Time is abstract: no run says how long anything takes.

## Not modelled

`app_main`: a fixed sequence of initialisations. It ignores the result of
`flash_storage_init`; without a chip the mutex is never created, and the first
call of the store runs into the assertion of FreeRTOS. As far as NVS is concerned
this is `BootNvsFault` of `FlashStorage`. The JSON of a message, log lines, pin
and bus set-up, and the credentials are left out everywhere: no property depends
on them.

## 7. Plan

1. `FlashStorage` takes an entry for one durable step because the driver does
   (`EntriesWhole`); make the slots of the one the pages of the other, the
   power cut of `FlashStorage` being a torn page.
2. A clock for the publish gap and the sampling period in `Gateway`: a backlog
   shrinks only if the source is slower than the gap.
3. `TaskLifecycle` under `Gateway`: a forced deletion in the middle of a store
   operation, and the start after it.
