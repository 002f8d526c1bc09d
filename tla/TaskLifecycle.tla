---------------------------- MODULE TaskLifecycle ---------------------------
(***************************************************************************)
(* Starting and stopping the two tasks of app/cache_task.c and             *)
(* app/app_task.c.  To stop a task, its flag is cleared and the caller     *)
(* looks every 100 ms whether the task has deleted itself; after 3 s (the  *)
(* cache task) or 2 s (app_task) it is deleted by force.  cache_task says  *)
(* that it is gone by setting s_task_handle to NULL, app_task is asked for *)
(* its state.  A task that deleted itself keeps its control block until    *)
(* the idle task frees it.                                                 *)
(*                                                                         *)
(* A handle is 0 (NULL) or the number of a task.  In its rounds the cache  *)
(* task calls flash_storage, whose functions take a mutex for at most one  *)
(* second and give it back on every way out, and mqtt_app_publish, whose   *)
(* client waits for its lock without a limit.  One task calls the four     *)
(* functions; the firmware itself starts each task once and stops none.    *)
(***************************************************************************)
EXTENDS Naturals

CONSTANT MaxStarts    \* bound: tasks created, of each kind

ASSUME StartsAssumption == MaxStarts \in Nat

NULL == 0
Task == 1 .. MaxStarts
Lock == {"store", "client"}

(* Where a cache task can be: between two calls, waiting for the lock of   *)
(* one, or inside it.                                                      *)
InCall(l) ==
  IF l = "store"
    THEN {"writing", "taking", "giving back", "reading", "marking"}
    ELSE {"publishing", "reporting", "resending"}
Waiting ==
  {"write", "take", "give back", "read", "mark", "publish", "report", "resend"}
InLoop ==
  {"top", "edge", "backfill"} \cup Waiting
    \cup InCall("store") \cup InCall("client")

VARIABLES
  caller,       \* where the caller is in the four functions
  cacheHandle,  \* s_task_handle of cache_task.c
  cacheRunning, \* s_running
  cacheTask,    \* each cache task: unborn, a place of InLoop, leaving,
                \* deleting, or deleted
  holder,       \* the cache task that holds a lock, or NULL
  forced,       \* history: the cache tasks that were deleted by force
  appHandle,    \* the handle the caller keeps for app_task
  appRunning,   \* s_app_task_running
  appTask       \* each app_task: unborn, loop, deleted, or freed

cache == <<cacheHandle, cacheRunning, cacheTask, holder, forced>>
app == <<appHandle, appRunning, appTask>>
vars == <<caller, cache, app>>

Init ==
  /\ caller = "idle"
  /\ cacheHandle = NULL
  /\ cacheRunning = FALSE
  /\ cacheTask = [t \in Task |-> "unborn"]
  /\ holder = [l \in Lock |-> NULL]
  /\ forced = {}
  /\ appHandle = NULL
  /\ appRunning = FALSE
  /\ appTask = [t \in Task |-> "unborn"]

Unborn(tasks) == {t \in Task : tasks[t] = "unborn"}
Fresh(tasks) == CHOOSE t \in Unborn(tasks) : TRUE

Goes(from, to) == caller = from /\ caller' = to

(***************************************************************************)
(* cache_task_start and the task it creates.                               *)
(***************************************************************************)
CacheCreated ==
  /\ caller = "idle"
  /\ Unborn(cacheTask) # {}
  /\ cacheRunning' = TRUE
  /\ cacheHandle' = Fresh(cacheTask)
  /\ cacheTask' = [cacheTask EXCEPT ![Fresh(cacheTask)] = "top"]
  /\ UNCHANGED <<caller, holder, forced, app>>

(* Mutant: no protection against a second start.                           *)
CacheStartAgain == CacheCreated

(* With a task already there nothing happens, and ERR_OK is returned; if   *)
(* xTaskCreate fails, flag and handle are put back to what they were.      *)
CacheStart ==
  /\ cacheHandle = NULL
  /\ CacheCreated

CacheMoves(t, from, to) ==
  /\ cacheTask[t] = from
  /\ cacheTask' = [cacheTask EXCEPT ![t] = to]
  /\ UNCHANGED <<caller, cacheRunning, forced, app>>

(* One round: publish or store a message if there is one; report the       *)
(* losses if the gateway came online; send a stored entry if it is time.   *)
Moves(t, from, to) ==
  CacheMoves(t, from, to) /\ UNCHANGED <<cacheHandle, holder>>

Rounds(t) ==
  \/ /\ cacheRunning
     /\ \E to \in {"publish", "write", "edge"} : Moves(t, "top", to)
  \/ \E to \in {"take", "backfill"} : Moves(t, "edge", to)
  \/ \E to \in {"read", "top"} : Moves(t, "backfill", to)

(* The lock of a call is taken...                                          *)
Takes(t, l, from, to) ==
  /\ holder[l] = NULL
  /\ CacheMoves(t, from, to)
  /\ holder' = [holder EXCEPT ![l] = t]
  /\ UNCHANGED cacheHandle

TakesLock(t) ==
  \/ Takes(t, "store", "write", "writing")
  \/ Takes(t, "store", "take", "taking")
  \/ Takes(t, "store", "give back", "giving back")
  \/ Takes(t, "store", "read", "reading")
  \/ Takes(t, "store", "mark", "marking")
  \/ Takes(t, "client", "publish", "publishing")
  \/ Takes(t, "client", "report", "reporting")
  \/ Takes(t, "client", "resend", "resending")

(* ...or after a second the call returns without it: nothing was written,  *)
(* taken, given back, read or marked.                                      *)
MutexTimesOut(t) ==
  \/ Moves(t, "write", "edge")
  \/ Moves(t, "take", "backfill")
  \/ Moves(t, "give back", "backfill")
  \/ Moves(t, "read", "top")
  \/ Moves(t, "mark", "top")

(* There is no client, so no lock is taken.                                *)
NoClient(t) ==
  \/ Moves(t, "publish", "write")
  \/ Moves(t, "report", "give back")
  \/ Moves(t, "resend", "top")

(* A call gives its lock back where it returns.                            *)
GivesBack(t, l, from, to) ==
  /\ CacheMoves(t, from, to)
  /\ holder' = [holder EXCEPT ![l] = NULL]
  /\ UNCHANGED cacheHandle

Written(t) == GivesBack(t, "store", "writing", "edge")

(* Mutant: the early return keeps the mutex.                               *)
WriteTooLongKeeps(t) == Moves(t, "writing", "edge")

(* Line 171: the data are longer than an entry takes.                      *)
WriteTooLong(t) == GivesBack(t, "store", "writing", "edge")

(* The count is zero, or it is not.                                        *)
CountTaken(t) ==
  \E to \in {"backfill", "report"} : GivesBack(t, "store", "taking", to)
CountGivenBack(t) == GivesBack(t, "store", "giving back", "backfill")

(* Line 127: an entry was found.  Line 146: none is left.                  *)
EntryRead(t) == GivesBack(t, "store", "reading", "resend")
NothingRead(t) == GivesBack(t, "store", "reading", "top")
MarkedSent(t) == GivesBack(t, "store", "marking", "top")

(* The client accepts, or it refuses.                                      *)
ClientReturns(t) ==
  \/ \E to \in {"edge", "write"} : GivesBack(t, "client", "publishing", to)
  \/ \E to \in {"backfill", "give back"} :
       GivesBack(t, "client", "reporting", to)
  \/ \E to \in {"mark", "top"} : GivesBack(t, "client", "resending", to)

(* The loop tests s_running between two rounds only.                       *)
LoopEnds(t) == ~cacheRunning /\ Moves(t, "top", "leaving")

(* s_task_handle = NULL and then vTaskDelete(NULL).                        *)
ClearsHandle(t) ==
  /\ CacheMoves(t, "leaving", "deleting")
  /\ cacheHandle' = NULL
  /\ UNCHANGED holder

DeletesItself(t) == Moves(t, "deleting", "deleted")

(***************************************************************************)
(* cache_task_stop                                                         *)
(***************************************************************************)
CacheStop ==
  /\ cacheHandle # NULL
  /\ Goes("idle", "waiting")
  /\ cacheRunning' = FALSE
  /\ UNCHANGED <<cacheHandle, cacheTask, holder, forced, app>>

CacheIsGone ==
  /\ cacheHandle = NULL
  /\ Goes("waiting", "idle")
  /\ UNCHANGED <<cache, app>>

(* Mutant: the stop waits for the task to give its lock back.              *)
CacheTimeoutPolite ==
  /\ cacheHandle # NULL
  /\ \A l \in Lock : holder[l] # cacheHandle
  /\ Goes("waiting", "forcing")
  /\ UNCHANGED <<cache, app>>

(* Line 102, after 3 s.                                                    *)
CacheTimeout ==
  /\ cacheHandle # NULL
  /\ Goes("waiting", "forcing")
  /\ UNCHANGED <<cache, app>>

(* Line 105 reads the handle again: vTaskDelete(NULL) deletes the caller.  *)
CacheForced ==
  /\ caller = "forcing"
  /\ IF cacheHandle = NULL
     THEN /\ caller' = "deleted"
          /\ UNCHANGED <<cacheHandle, cacheTask, forced>>
     ELSE /\ caller' = "idle"
          /\ cacheHandle' = NULL
          /\ cacheTask' = [cacheTask EXCEPT ![cacheHandle] = "deleted"]
          /\ forced' = forced \cup {cacheHandle}
  /\ UNCHANGED <<cacheRunning, holder, app>>

(***************************************************************************)
(* app_task_start, the task, and app_task_stop.                            *)
(***************************************************************************)
(* Nothing is tested: a second call creates a second task, and the handle  *)
(* of the first is lost unless the caller kept it.                         *)
AppStart ==
  /\ caller = "idle"
  /\ Unborn(appTask) # {}
  /\ appRunning' = TRUE
  /\ appHandle' = Fresh(appTask)
  /\ appTask' = [appTask EXCEPT ![Fresh(appTask)] = "loop"]
  /\ UNCHANGED <<caller, cache>>

(* The result of xTaskCreate is not looked at: the flag stays.             *)
AppStartFails ==
  /\ caller = "idle"
  /\ appRunning' = TRUE
  /\ appHandle' = NULL
  /\ UNCHANGED <<caller, appTask, cache>>

AppMoves(t, from, to) ==
  /\ appTask[t] = from
  /\ appTask' = [appTask EXCEPT ![t] = to]
  /\ UNCHANGED <<caller, cache, appHandle, appRunning>>

AppEnds(t) == ~appRunning /\ AppMoves(t, "loop", "deleted")

(* The idle task.                                                          *)
Freed(t) == AppMoves(t, "deleted", "freed")

AppStop ==
  /\ appHandle # NULL
  /\ Goes("idle", "asking")
  /\ appRunning' = FALSE
  /\ UNCHANGED <<appHandle, appTask, cache>>

(* Lines 141 and 146: a control block that was freed gives any answer, the *)
(* one that ends the wait included.                                        *)
AppIsGone ==
  /\ Goes("asking", "idle")
  /\ appTask[appHandle] \in {"deleted", "freed"}
  /\ appHandle' = NULL
  /\ UNCHANGED <<appRunning, appTask, cache>>

(* Two seconds are over and the answer was never eDeleted.                 *)
AppForced ==
  /\ Goes("asking", "idle")
  /\ appTask[appHandle] \in {"loop", "freed"}
  /\ appHandle' = NULL
  /\ appTask' = [appTask EXCEPT ![appHandle] =
                   IF @ = "loop" THEN "deleted" ELSE @]
  /\ UNCHANGED <<appRunning, cache>>

(***************************************************************************)
(* The specification.                                                      *)
(***************************************************************************)
CacheSteps(t) ==
  \/ Rounds(t) \/ TakesLock(t) \/ MutexTimesOut(t) \/ NoClient(t)
  \/ Written(t) \/ WriteTooLong(t)
  \/ CountTaken(t) \/ CountGivenBack(t)
  \/ EntryRead(t) \/ NothingRead(t) \/ MarkedSent(t)
  \/ ClientReturns(t)
  \/ LoopEnds(t) \/ ClearsHandle(t) \/ DeletesItself(t)

AppSteps(t) == AppEnds(t) \/ Freed(t)

Tasks == \E t \in Task : CacheSteps(t) \/ AppSteps(t)

Caller ==
  \/ CacheStart \/ CacheStop \/ CacheIsGone \/ CacheTimeout \/ CacheForced
  \/ AppStart \/ AppStartFails \/ AppStop \/ AppIsGone \/ AppForced

Next == Tasks \/ Caller

Spec == Init /\ [][Next]_vars

(* The caller looks again and again, but not for ever; nothing is asked of *)
(* the tasks, which may wait for a lock as long as they like.              *)
FairSpec ==
  /\ Spec
  /\ WF_vars(CacheIsGone \/ CacheTimeout)
  /\ WF_vars(CacheForced)
  /\ WF_vars(AppIsGone \/ AppForced)

(***************************************************************************)
(* Properties.                                                             *)
(***************************************************************************)
(* Every variable in its range; app_task_stop has a handle to ask about.   *)
TypeOK ==
  /\ caller \in {"idle", "waiting", "forcing", "asking", "deleted"}
  /\ cacheHandle \in 0 .. MaxStarts
  /\ cacheRunning \in BOOLEAN
  /\ cacheTask \in
       [Task -> {"unborn", "leaving", "deleting", "deleted"} \cup InLoop]
  /\ holder \in [Lock -> 0 .. MaxStarts]
  /\ forced \subseteq Task
  /\ appHandle \in 0 .. MaxStarts
  /\ appRunning \in BOOLEAN
  /\ appTask \in [Task -> {"unborn", "loop", "deleted", "freed"}]
  /\ caller = "asking" => appHandle # NULL

(* cache_task.c:62-66 (protection against a second start): however starts, *)
(* stops and time-outs follow each other, one cache task at most is in its *)
(* loop, and it is the one s_task_handle names.                            *)
OneCacheTask ==
  \A t \in Task : cacheTask[t] \in InLoop \cup {"leaving"} => cacheHandle = t

(* cache_task.c:82-86 (no half-finished state is left): whichever way each *)
(* call of its rounds returned, a task that leaves its loop by itself has  *)
(* left the mutex of flash_storage and the lock of the client free; only   *)
(* one that was deleted by force can take them along.                      *)
NothingLeftLocked ==
  \A l \in Lock :
    holder[l] # NULL /\ cacheTask[holder[l]] \notin InLoop
      => holder[l] \in forced

(* cache_task.c:95-99, app_task.c:141-144 (wait, with a limit): a stop     *)
(* comes to its end, and then no task is left in the loop, though one may   *)
(* have been waiting for a lock that nobody will ever give back.           *)
StopEnds ==
  /\ [](caller \in {"waiting", "asking"} => <>(caller \in {"idle", "deleted"}))
  /\ [](~cacheRunning =>
          <>(cacheRunning \/ \A t \in Task : cacheTask[t] \notin InLoop))
=============================================================================
