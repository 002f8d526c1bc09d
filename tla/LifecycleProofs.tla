-------------------------- MODULE LifecycleProofs ---------------------------
(***************************************************************************)
(* Starting and stopping the two tasks, for any number of starts.          *)
(***************************************************************************)
EXTENDS TaskLifecycle, TLAPS

LEMMA FreshFact ==
  ASSUME NEW tasks, Unborn(tasks) # {}
  PROVE  Fresh(tasks) \in Task /\ tasks[Fresh(tasks)] = "unborn"
BY DEF Fresh, Unborn

LEMMA NullIsNoTask == NULL \notin Task
BY StartsAssumption DEF NULL, Task

(***************************************************************************)
(* Types, one action at a time.                                            *)
(***************************************************************************)
LEMMA TaskRange == 0 .. MaxStarts = {NULL} \cup Task
BY StartsAssumption DEF NULL, Task

LEMMA TypeInit == ASSUME Init PROVE TypeOK
<1>1. 0 \in 0 .. MaxStarts
  BY TaskRange DEF NULL
<1> QED
  BY <1>1 DEF Init, TypeOK, NULL

LEMMA Places ==
  /\ {"top", "edge", "backfill"} \cup Waiting \subseteq InLoop
  /\ \A l \in Lock : InCall(l) \subseteq InLoop
  /\ {"unborn", "leaving", "deleting", "deleted"} \cap InLoop = {}
  /\ \A l \in Lock : InCall(l) \cap (Waiting \cup {"top", "edge", "backfill"}) = {}
  /\ InCall("store") \cap InCall("client") = {}
BY DEF InLoop, Waiting, InCall, Lock

LEMMA TypeTasks ==
  ASSUME TypeOK, Tasks
  PROVE  TypeOK'
<1> USE TaskRange DEF TypeOK, cache, app
<1>1. PICK t \in Task : CacheSteps(t) \/ AppSteps(t)
  BY DEF Tasks
<1>2. CASE Rounds(t) \/ MutexTimesOut(t) \/ NoClient(t) \/ LoopEnds(t)
             \/ DeletesItself(t)
  <2>1. \E from, to \in InLoop \cup {"leaving", "deleting", "deleted"} :
          Moves(t, from, to)
    BY <1>2
       DEF Rounds, MutexTimesOut, NoClient, LoopEnds, DeletesItself, InLoop,
           Waiting
  <2> QED
    BY <2>1 DEF Moves, CacheMoves
<1>3. CASE TakesLock(t)
  <2>1. \E l \in Lock : \E from, to \in InLoop : Takes(t, l, from, to)
    BY <1>3 DEF TakesLock, InLoop, InCall, Waiting, Lock
  <2> QED
    BY <2>1 DEF Takes, CacheMoves
<1>4. CASE \/ Written(t) \/ WriteTooLong(t) \/ CountTaken(t)
           \/ CountGivenBack(t) \/ EntryRead(t) \/ NothingRead(t)
           \/ MarkedSent(t) \/ ClientReturns(t)
  <2>1. \E l \in Lock : \E from, to \in InLoop : GivesBack(t, l, from, to)
    BY <1>4
       DEF Written, WriteTooLong, CountTaken, CountGivenBack, EntryRead,
           NothingRead, MarkedSent, ClientReturns, InLoop, InCall, Waiting, Lock
  <2> QED
    BY <2>1 DEF GivesBack, CacheMoves
<1>5. CASE ClearsHandle(t)
  BY <1>5 DEF ClearsHandle, CacheMoves
<1>6. CASE AppSteps(t)
  BY <1>6 DEF AppSteps, AppEnds, Freed, AppMoves
<1> QED
  BY <1>1, <1>2, <1>3, <1>4, <1>5, <1>6 DEF CacheSteps

LEMMA TypeCaller ==
  ASSUME TypeOK, Caller
  PROVE  TypeOK'
<1> USE TaskRange DEF TypeOK, cache, app, Goes
<1>1. CASE CacheStart
  <2>1. Fresh(cacheTask) \in Task
    BY <1>1, FreshFact DEF CacheStart, CacheCreated
  <2> QED
    BY <1>1, <2>1, Places DEF CacheStart, CacheCreated
<1>2. CASE CacheStop \/ CacheIsGone \/ CacheTimeout
  BY <1>2 DEF CacheStop, CacheIsGone, CacheTimeout
<1>3. CASE CacheForced
  BY <1>3 DEF CacheForced
<1>4. CASE AppStart
  <2>1. Fresh(appTask) \in Task
    BY <1>4, FreshFact DEF AppStart
  <2> QED
    BY <1>4, <2>1 DEF AppStart
<1>5. CASE AppStartFails \/ AppStop \/ AppIsGone
  BY <1>5 DEF AppStartFails, AppStop, AppIsGone
<1>6. CASE AppForced
  BY <1>6 DEF AppForced
<1> QED
  BY <1>1, <1>2, <1>3, <1>4, <1>5, <1>6 DEF Caller

LEMMA TypeStep == TypeOK /\ [Next]_vars => TypeOK'
<1>1. CASE UNCHANGED vars
  BY <1>1 DEF vars, cache, app, TypeOK
<1> QED
  BY <1>1, TypeTasks, TypeCaller DEF Next

(* Every variable in its range, and app_task_stop asks only about a task   *)
(* it has a handle of (app_task.c:126-146), however often either is        *)
(* started.                                                                *)
THEOREM TypeCorrect == Spec => []TypeOK
<1> QED
  BY TypeInit, TypeStep, PTL DEF Spec

(***************************************************************************)
(* One cache task at most, and what it holds.  A new task finds the handle *)
(* cleared, so no other task is in its loop.  And whoever holds a lock is  *)
(* inside a call that took it, or was deleted by force: all ways out of    *)
(* all calls give it back.                                                 *)
(***************************************************************************)
HoldersInside ==
  \A l \in Lock :
    holder[l] # NULL => \/ cacheTask[holder[l]] \in InCall(l)
                       \/ holder[l] \in forced

LifeInv == OneCacheTask /\ HoldersInside

LEMMA HoldersInLoop == HoldersInside => NothingLeftLocked
<1>1. \A l \in Lock : InCall(l) \subseteq InLoop
  BY DEF Lock, InLoop
<1> QED
  BY <1>1 DEF HoldersInside, NothingLeftLocked

(* A step between two calls: no lock is held there.                        *)
LEMMA MovesLife ==
  ASSUME TypeOK, LifeInv, NEW t \in Task, NEW from, NEW to,
         from \notin InCall("store") \cup InCall("client"),
         to \in InLoop \cup {"leaving"} =>
           from \in InLoop \cup {"leaving"},
         CacheMoves(t, from, to), UNCHANGED <<cacheHandle, holder>>
  PROVE  LifeInv'
<1>1. OneCacheTask'
  BY DEF TypeOK, LifeInv, OneCacheTask, CacheMoves
<1>2. HoldersInside'
  <2> SUFFICES ASSUME NEW l \in Lock, holder[l] # NULL
               PROVE  \/ cacheTask'[holder[l]] \in InCall(l)
                      \/ holder[l] \in forced
    BY DEF HoldersInside, CacheMoves
  <2>1. CASE holder[l] \in forced
    BY <2>1
  <2>2. CASE holder[l] \notin forced
    <3>1. cacheTask[holder[l]] \in InCall(l)
      BY <2>2 DEF LifeInv, HoldersInside
    <3>2. holder[l] # t
      BY <3>1 DEF Lock, CacheMoves
    <3> QED
      BY <3>1, <3>2 DEF CacheMoves, TypeOK
  <2> QED
    BY <2>1, <2>2
<1> QED
  BY <1>1, <1>2 DEF LifeInv

(* A call that returns: its lock is free.                                  *)
LEMMA GivesBackLife ==
  ASSUME TypeOK, LifeInv, NEW t \in Task, NEW l \in Lock,
         NEW from \in InCall(l), NEW to \in InLoop, GivesBack(t, l, from, to)
  PROVE  LifeInv'
<1>1. OneCacheTask'
  <2>1. from \in InLoop
    BY DEF InLoop, Lock
  <2> QED
    BY <2>1 DEF TypeOK, LifeInv, OneCacheTask, GivesBack, CacheMoves
<1>2. HoldersInside'
  <2> SUFFICES ASSUME NEW k \in Lock, holder'[k] # NULL
               PROVE  \/ cacheTask'[holder'[k]] \in InCall(k)
                      \/ holder'[k] \in forced
    BY DEF HoldersInside, GivesBack, CacheMoves
  <2>1. k # l /\ holder'[k] = holder[k]
    BY DEF GivesBack, TypeOK
  <2>2. CASE holder[k] \in forced
    BY <2>1, <2>2
  <2>3. CASE holder[k] \notin forced
    <3>1. cacheTask[holder[k]] \in InCall(k)
      BY <2>1, <2>3 DEF LifeInv, HoldersInside
    <3>2. from \notin InCall(k)
      BY <2>1, Places DEF Lock
    <3>3. holder[k] # t
      BY <3>1, <3>2 DEF GivesBack, CacheMoves
    <3> QED
      BY <2>1, <3>1, <3>3 DEF GivesBack, CacheMoves, TypeOK
  <2> QED
    BY <2>2, <2>3
<1> QED
  BY <1>1, <1>2 DEF LifeInv

(* A call that takes its lock.                                             *)
LEMMA TakesLife ==
  ASSUME TypeOK, LifeInv, NEW t \in Task, NEW l \in Lock, NEW from \in Waiting,
         NEW to \in InCall(l), Takes(t, l, from, to)
  PROVE  LifeInv'
<1>1. OneCacheTask'
  BY Places DEF TypeOK, LifeInv, OneCacheTask, Takes, CacheMoves
<1>2. HoldersInside'
  <2> SUFFICES ASSUME NEW k \in Lock, holder'[k] # NULL
               PROVE  \/ cacheTask'[holder'[k]] \in InCall(k)
                      \/ holder'[k] \in forced
    BY DEF HoldersInside, Takes, CacheMoves
  <2>1. CASE k = l
    BY <2>1 DEF Takes, CacheMoves, TypeOK
  <2>2. CASE k # l
    <3>1. holder'[k] = holder[k]
      BY <2>2 DEF Takes, TypeOK
    <3>2. from \notin InCall(k)
      BY Places
    <3>3. holder[k] \notin forced =>
            cacheTask[holder[k]] \in InCall(k) /\ holder[k] # t
      BY <3>1, <3>2 DEF LifeInv, HoldersInside, Takes, CacheMoves
    <3> QED
      BY <3>1, <3>3 DEF Takes, CacheMoves, TypeOK
  <2> QED
    BY <2>1, <2>2
<1> QED
  BY <1>1, <1>2 DEF LifeInv

LEMMA LifeTasks ==
  ASSUME TypeOK, LifeInv, Tasks
  PROVE  LifeInv'
<1>1. PICK t \in Task : CacheSteps(t) \/ AppSteps(t)
  BY DEF Tasks
<1>2. CASE Rounds(t) \/ MutexTimesOut(t) \/ NoClient(t)
  <2>1. PICK from \in {"top", "edge", "backfill"} \cup Waiting,
             to \in InLoop : Moves(t, from, to)
    BY <1>2, Places DEF Rounds, MutexTimesOut, NoClient, Waiting
  <2>2. from \notin InCall("store") \cup InCall("client") /\ from \in InLoop
    BY Places DEF Lock
  <2> QED
    BY <2>1, <2>2, MovesLife DEF Moves
<1>3. CASE TakesLock(t)
  <2>1. \E l \in Lock : \E from \in Waiting, to \in InCall(l) :
          Takes(t, l, from, to)
    BY <1>3 DEF TakesLock, InCall, Waiting, Lock
  <2> QED
    BY <2>1, TakesLife
<1>4. CASE \/ Written(t) \/ WriteTooLong(t) \/ CountTaken(t)
           \/ CountGivenBack(t) \/ EntryRead(t) \/ NothingRead(t)
           \/ MarkedSent(t) \/ ClientReturns(t)
  <2>1. \E l \in Lock : \E from \in InCall(l), to \in InLoop :
          GivesBack(t, l, from, to)
    <3>1. CASE \/ Written(t) \/ WriteTooLong(t) \/ CountTaken(t)
               \/ CountGivenBack(t) \/ EntryRead(t) \/ NothingRead(t)
               \/ MarkedSent(t)
      BY <3>1
         DEF InLoop, InCall, Waiting, Written, WriteTooLong, CountTaken,
             CountGivenBack, EntryRead, NothingRead, MarkedSent, Lock
    <3>2. CASE ClientReturns(t)
      BY <3>2 DEF ClientReturns, Lock, InLoop, InCall, Waiting
    <3> QED
      BY <1>4, <3>1, <3>2
  <2> QED
    BY <2>1, GivesBackLife
<1>5. CASE LoopEnds(t)
  <2>1. "top" \notin InCall("store") \cup InCall("client") /\ "top" \in InLoop
    BY Places DEF Lock
  <2> QED
    BY <1>5, <2>1, MovesLife DEF LoopEnds, Moves
<1>6. CASE ClearsHandle(t)
  <2>1. OneCacheTask'
    <3>1. \A u \in Task \ {t} : cacheTask[u] \notin InLoop \cup {"leaving"}
      BY <1>6 DEF ClearsHandle, CacheMoves, LifeInv, OneCacheTask
    <3>2. cacheTask'[t] = "deleting"
      BY <1>6 DEF ClearsHandle, CacheMoves, TypeOK
    <3> QED
      BY <1>6, <3>1, <3>2, Places
         DEF ClearsHandle, CacheMoves, OneCacheTask, TypeOK
  <2>2. HoldersInside'
    <3>1. "leaving" \notin InCall("store") \cup InCall("client")
      BY DEF InCall
    <3> QED
      BY <1>6, <3>1
         DEF ClearsHandle, CacheMoves, LifeInv, HoldersInside, TypeOK, Lock
  <2> QED
    BY <2>1, <2>2 DEF LifeInv
<1>7. CASE DeletesItself(t)
  <2>1. /\ "deleting" \notin InCall("store") \cup InCall("client")
        /\ "deleted" \notin InLoop \cup {"leaving"}
    BY Places DEF Lock
  <2> QED
    BY <1>7, <2>1, MovesLife DEF DeletesItself, Moves
<1>8. CASE AppSteps(t)
  BY <1>8 DEF AppSteps, AppEnds, Freed, AppMoves, LifeInv, OneCacheTask,
              HoldersInside, cache
<1> QED
  BY <1>1, <1>2, <1>3, <1>4, <1>5, <1>6, <1>7, <1>8 DEF CacheSteps

LEMMA LifeCaller ==
  ASSUME TypeOK, LifeInv, Caller
  PROVE  LifeInv'
<1> USE NullIsNoTask, TaskRange, Places
    DEF TypeOK, LifeInv, OneCacheTask, HoldersInside, cache, app, Goes
<1>1. CASE CacheStart
  <2>1. Fresh(cacheTask) \in Task /\ cacheTask[Fresh(cacheTask)] = "unborn"
    BY <1>1, FreshFact DEF CacheStart, CacheCreated
  <2>2. "unborn" \notin InCall("store") \cup InCall("client")
    BY DEF InCall
  <2>3. OneCacheTask'
    BY <1>1, <2>1 DEF CacheStart, CacheCreated
  <2>4. HoldersInside'
    BY <1>1, <2>1, <2>2 DEF CacheStart, CacheCreated, Lock
  <2> QED
    BY <2>3, <2>4
<1>2. CASE CacheStop \/ CacheIsGone \/ CacheTimeout
  BY <1>2 DEF CacheStop, CacheIsGone, CacheTimeout
<1>3. CASE CacheForced
  <2>1. OneCacheTask'
    BY <1>3 DEF CacheForced
  <2>2. HoldersInside'
    BY <1>3 DEF CacheForced
  <2> QED
    BY <2>1, <2>2
<1>4. CASE AppStart \/ AppStartFails \/ AppStop \/ AppIsGone \/ AppForced
  BY <1>4 DEF AppStart, AppStartFails, AppStop, AppIsGone, AppForced
<1> QED
  BY <1>1, <1>2, <1>3, <1>4 DEF Caller

LEMMA LifeStep == TypeOK /\ LifeInv /\ [Next]_vars => LifeInv'
<1>1. CASE UNCHANGED vars
  BY <1>1 DEF vars, cache, app, LifeInv, OneCacheTask, HoldersInside
<1> QED
  BY <1>1, LifeTasks, LifeCaller DEF Next

(* What both properties rest on: no second loop is started while one runs, *)
(* none is in it that the handle does not name (cache_task.c:62-133), and  *)
(* a lock is held inside a call only (flash_storage.c:36-348).             *)
THEOREM LifeInvariant == Spec => []LifeInv
<1>1. Init => LifeInv
  BY Places DEF Init, LifeInv, OneCacheTask, HoldersInside
<1> QED
  BY <1>1, LifeStep, TypeCorrect, PTL DEF Spec

(* cache_task.c:62-66: one cache task at most is in its loop, and          *)
(* s_task_handle names it, through any number of starts, stops, time-outs  *)
(* and deletions.                                                          *)
THEOREM OneAtATime == Spec => []OneCacheTask
<1>1. LifeInv => OneCacheTask
  BY DEF LifeInv
<1> QED
  BY <1>1, LifeInvariant, PTL

(* cache_task.c:82-86: whichever way the calls of its rounds returned, a   *)
(* task that leaves its loop by itself leaves no lock behind; only one     *)
(* that was deleted by force does.                                         *)
THEOREM LocksGivenBack == Spec => []NothingLeftLocked
<1>1. LifeInv => NothingLeftLocked
  BY HoldersInLoop DEF LifeInv
<1> QED
  BY <1>1, LifeInvariant, PTL
=============================================================================
