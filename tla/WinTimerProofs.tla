--------------------------- MODULE WinTimerProofs ----------------------------
(***************************************************************************)
(* WinTimerManager for any number of timers, callers and instants.         *)
(***************************************************************************)
EXTENDS WinTimerManager, TLAPS

\* A timer that was removed and is still alive has its id in mCancelTimers.
RemovedIsMarked ==
    /\ \A t \in removed : t \in mTimerQueue \/ t = cur => t \in mCancelTimers
    /\ \A t \in removed : t <= mLastTimerId

\* Only removed timers are marked.
MarkedIsRemoved == mCancelTimers \subseteq removed

\* NoDrift, and its counterpart for the timer whose callback runs.
OnSchedule ==
    /\ NoDrift
    /\ cur # 0 => deadline[cur] + interval[cur] = first[cur] + fires[cur] * interval[cur]
    /\ \A t \in Ids : t > mLastTimerId => fires[t] = 0

\* Before the destructor clears it, the thread has seen mQuit.
QuitInv ==
    /\ loop = "exit" => mQuit
    /\ dtor = "none" <=> ~mQuit
    /\ dtor = "done" => loop = "exit" /\ mTimerQueue = {}

IInv ==
    /\ TypeOK
    /\ TimerOwnership
    /\ RemovedIsMarked
    /\ MarkedIsRemoved
    /\ OnSchedule
    /\ QuitInv
    /\ NoOversleep
------------------------------------------------------------------------------
LEMMA TypeStep == TypeOK /\ TimerOwnership /\ [Next]_vars => TypeOK'
<1> SUFFICES ASSUME TypeOK, TimerOwnership, [Next]_vars
             PROVE  TypeOK'
    OBVIOUS
<1> USE TimerAssumption DEF TypeOK, Ids, timerVars, threadVars, histVars
<1>1. CASE Tick
    <2>1. now' \in 0..Horizon
        BY <1>1 DEF Tick
    <2>2. UNCHANGED <<timerVars, mCancelTimers, mQuit, mLastTimerId, threadVars, caller,
                      dtor, histVars>>
        BY <1>1 DEF Tick
    <2> QED BY <2>1, <2>2
<1>2. ASSUME NEW c \in Callers, NEW delay \in 0..MaxDelay, NEW ival \in Intervals,
             AddTimer(c, delay, ival)
      PROVE  TypeOK'
    <2>1. NewId \in Ids /\ now + delay \in Nat /\ ival \in Nat
        BY <1>2 DEF AddTimer, NewId
    <2>2. /\ mTimerQueue' \in SUBSET Ids
          /\ mLastTimerId' \in 0..MaxTimers
        BY <1>2, <2>1 DEF AddTimer, NewId
    <2>3. deadline' \in [Ids -> Nat] /\ interval' \in [Ids -> Nat] /\ first' \in [Ids -> Nat]
        BY <1>2, <2>1 DEF AddTimer
    <2>4. caller' \in [Callers -> {"idle", "notify"}]
        BY <1>2 DEF AddTimer
    <2>5. UNCHANGED <<now, mCancelTimers, mQuit, deleted, loop, cur, wakeAt, dtor, fires,
                      removed>>
        BY <1>2 DEF AddTimer
    <2> QED BY <2>2, <2>3, <2>4, <2>5
<1>3. ASSUME NEW c \in Callers, NEW t \in Ids, RemoveTimer(c, t)
      PROVE  TypeOK'
    BY <1>3 DEF RemoveTimer
<1>4. ASSUME NEW c \in Callers, CallerNotify(c)
      PROVE  TypeOK'
    BY <1>4 DEF CallerNotify, Notified
<1>5. CASE LoopLock \/ LoopExit \/ LoopWait \/ LoopRecheck \/ LoopTimeout \/ SpuriousWakeup
    <2>1. loop' \in {"lock", "pass", "wait", "recheck", "waitFor", "fire", "exit"}
        BY <1>5 DEF LoopLock, LoopExit, LoopWait, LoopRecheck, LoopTimeout, SpuriousWakeup
    <2>2. UNCHANGED <<now, timerVars, mCancelTimers, mQuit, mLastTimerId, cur, wakeAt, caller,
                      dtor, histVars>>
        BY <1>5 DEF LoopLock, LoopExit, LoopWait, LoopRecheck, LoopTimeout, SpuriousWakeup
    <2> QED BY <2>1, <2>2
<1>6. ASSUME NEW t \in Ids, LoopPurge(t)
      PROVE  TypeOK'
    <2>1. mTimerQueue' \in SUBSET Ids /\ mCancelTimers' \in SUBSET Ids /\ deleted' \in SUBSET Ids
        BY <1>6 DEF LoopPurge, Free
    <2>2. UNCHANGED <<now, deadline, interval, mQuit, mLastTimerId, threadVars, caller, dtor,
                      histVars>>
        BY <1>6 DEF LoopPurge
    <2> QED BY <2>1, <2>2
<1>13. ASSUME NEW t \in Ids, LoopWaitFor(t)
      PROVE  TypeOK'
    <2>1. loop' = "waitFor" /\ wakeAt' \in Nat
        BY <1>13 DEF LoopWaitFor
    <2>2. UNCHANGED <<now, timerVars, mCancelTimers, mQuit, mLastTimerId, cur, caller, dtor,
                      histVars>>
        BY <1>13 DEF LoopWaitFor
    <2> QED BY <2>1, <2>2
<1>7. ASSUME NEW t \in Ids, LoopFire(t)
      PROVE  TypeOK'
    <2>1. mTimerQueue' \in SUBSET Ids /\ cur' \in 0..MaxTimers /\ loop' = "fire"
        BY <1>7 DEF LoopFire
    <2>2. fires' \in [Ids -> Nat]
        BY <1>7 DEF LoopFire
    <2>3. UNCHANGED <<now, deadline, interval, deleted, mCancelTimers, mQuit, mLastTimerId,
                      wakeAt, caller, dtor, first, removed>>
        BY <1>7 DEF LoopFire
    <2> QED BY <2>1, <2>2, <2>3
<1>8. CASE LoopRequeue
    <2>1. cur \in Ids
        BY <1>8 DEF LoopRequeue, TimerOwnership
    <2>2. mTimerQueue' \in SUBSET Ids /\ cur' \in 0..MaxTimers /\ loop' = "pass"
        BY <1>8, <2>1 DEF LoopRequeue
    <2>3. NextDeadline(cur) \in Nat
        BY <2>1 DEF NextDeadline
    <2>4. deadline' \in [Ids -> Nat]
        BY <1>8, <2>3 DEF LoopRequeue
    <2>5. UNCHANGED <<now, interval, deleted, mCancelTimers, mQuit, mLastTimerId, wakeAt,
                      caller, dtor, histVars>>
        BY <1>8 DEF LoopRequeue
    <2> QED BY <2>2, <2>4, <2>5
<1>14. CASE LoopDrop
    <2>1. cur \in Ids
        BY <1>14 DEF LoopDrop, TimerOwnership
    <2>2. mCancelTimers' \in SUBSET Ids /\ deleted' \in SUBSET Ids
        BY <1>14, <2>1 DEF LoopDrop, Free
    <2>3. cur' \in 0..MaxTimers /\ loop' = "pass"
        BY <1>14 DEF LoopDrop
    <2>4. UNCHANGED <<now, mTimerQueue, deadline, interval, mQuit, mLastTimerId, wakeAt,
                      caller, dtor, histVars>>
        BY <1>14 DEF LoopDrop
    <2> QED BY <2>2, <2>3, <2>4
<1>9. CASE DtorQuit
    <2>1. mQuit' = TRUE /\ dtor' = "notify"
        BY <1>9 DEF DtorQuit
    <2>2. UNCHANGED <<now, timerVars, mCancelTimers, mLastTimerId, threadVars, caller,
                      histVars>>
        BY <1>9 DEF DtorQuit
    <2> QED BY <2>1, <2>2
<1>10. CASE DtorNotify
    <2>1. /\ loop' \in {"lock", "pass", "wait", "recheck", "waitFor", "fire", "exit"}
          /\ dtor' = "join"
        BY <1>10 DEF DtorNotify, NotifiedByDtor, Notified
    <2>2. UNCHANGED <<now, timerVars, mCancelTimers, mQuit, mLastTimerId, cur, wakeAt, caller,
                      histVars>>
        BY <1>10 DEF DtorNotify
    <2> QED BY <2>1, <2>2
<1>11. CASE DtorClear
    <2>1. mTimerQueue' = {} /\ mCancelTimers' = {} /\ deleted' \in SUBSET Ids /\ dtor' = "done"
        BY <1>11 DEF DtorClear
    <2>2. UNCHANGED <<now, deadline, interval, mQuit, mLastTimerId, threadVars, caller, histVars>>
        BY <1>11 DEF DtorClear
    <2> QED BY <2>1, <2>2
<1>12. CASE UNCHANGED vars
    BY <1>12 DEF vars
<1> QED BY <1>1, <1>2, <1>3, <1>4, <1>5, <1>6, <1>7, <1>8, <1>9, <1>10, <1>11, <1>12, <1>13, <1>14
        DEF Next, Loop, Call
------------------------------------------------------------------------------
\* Ownership, the marks of cancelled timers and the state of the destructor.
\* These depend on the variables of the next definition; a step that changes
\* none of them, except loop outside a callback, preserves the three.
ownVars == <<mTimerQueue, deleted, cur, mLastTimerId, dtor, mQuit, mCancelTimers, removed>>

OwnInv == TimerOwnership /\ RemovedIsMarked /\ QuitInv

LEMMA OwnFrame ==
    ASSUME TypeOK, OwnInv, UNCHANGED ownVars,
           loop' = "fire" <=> loop = "fire",
           loop = "exit" <=> loop' = "exit"
    PROVE  OwnInv'
    BY DEF OwnInv, TimerOwnership, RemovedIsMarked, QuitInv, ownVars

LEMMA OwnStep == TypeOK /\ OwnInv /\ [Next]_vars => OwnInv'
<1> SUFFICES ASSUME TypeOK, OwnInv, [Next]_vars
             PROVE  OwnInv'
    OBVIOUS
<1> USE TimerAssumption
<1>a. mLastTimerId \in Nat /\ cur \in Nat
    BY DEF TypeOK
<1>1. CASE Tick
    BY <1>1, OwnFrame DEF Tick, ownVars, timerVars, threadVars, histVars
<1>2. ASSUME NEW c \in Callers, NEW delay \in 0..MaxDelay, NEW ival \in Intervals,
             AddTimer(c, delay, ival)
      PROVE  OwnInv'
    <2>1. /\ mLastTimerId' = mLastTimerId + 1
          /\ mTimerQueue' = mTimerQueue \cup {mLastTimerId + 1}
          /\ UNCHANGED <<deleted, loop, cur, dtor, mQuit, mCancelTimers, removed>>
          /\ dtor = "none"
        BY <1>2 DEF AddTimer, NewId, threadVars
    <2>2. mLastTimerId + 1 \notin 1..mLastTimerId /\ mLastTimerId + 1 # 0
        BY <1>a
    <2>3. 1..mLastTimerId' = 1..mLastTimerId \cup {mLastTimerId + 1}
        BY <1>a, <2>1
    <2>4. TimerOwnership'
        BY <2>1, <2>2, <2>3 DEF OwnInv, TimerOwnership
    <2>5. mLastTimerId + 1 \notin removed
        BY <1>2, <1>a DEF OwnInv, RemovedIsMarked, AddTimer
    <2>6. \A t \in removed : t \in Nat
        BY DEF TypeOK, Ids
    <2>7. RemovedIsMarked'
        BY <1>a, <2>1, <2>5, <2>6 DEF OwnInv, RemovedIsMarked
    <2>8. QuitInv'
        BY <2>1 DEF OwnInv, QuitInv
    <2> QED BY <2>4, <2>7, <2>8 DEF OwnInv
<1>3. ASSUME NEW c \in Callers, NEW t \in Ids, RemoveTimer(c, t)
      PROVE  OwnInv'
    <2>1. /\ mCancelTimers' = mCancelTimers \cup {t}
          /\ removed' = removed \cup {t}
          /\ t <= mLastTimerId
          /\ UNCHANGED <<mTimerQueue, deleted, cur, loop, mLastTimerId, dtor, mQuit>>
        BY <1>3 DEF RemoveTimer, timerVars, threadVars
    <2> QED BY <2>1 DEF OwnInv, TimerOwnership, RemovedIsMarked, QuitInv
<1>4. ASSUME NEW c \in Callers, CallerNotify(c)
      PROVE  OwnInv'
    <2>1. (loop' = "fire" <=> loop = "fire") /\ (loop = "exit" <=> loop' = "exit")
        BY <1>4 DEF CallerNotify, Notified
    <2> QED BY <1>4, <2>1, OwnFrame DEF CallerNotify, ownVars, timerVars, histVars
<1>5. CASE LoopLock \/ LoopWait \/ LoopRecheck \/ LoopTimeout \/ SpuriousWakeup
    <2>1. (loop' = "fire" <=> loop = "fire") /\ (loop = "exit" <=> loop' = "exit")
        BY <1>5 DEF LoopLock, LoopWait, LoopRecheck, LoopTimeout, SpuriousWakeup
    <2>2. UNCHANGED ownVars
        BY <1>5 DEF LoopLock, LoopWait, LoopRecheck, LoopTimeout, SpuriousWakeup,
                    ownVars, timerVars, histVars
    <2> QED BY <2>1, <2>2, OwnFrame
<1>6. CASE LoopExit
    <2>1. loop = "pass" /\ loop' = "exit" /\ mQuit
        BY <1>6 DEF LoopExit
    <2>2. UNCHANGED ownVars
        BY <1>6 DEF LoopExit, ownVars, timerVars, histVars
    <2> QED BY <2>1, <2>2 DEF OwnInv, TimerOwnership, RemovedIsMarked, QuitInv, ownVars
<1>7. ASSUME NEW t \in Ids, LoopPurge(t)
      PROVE  OwnInv'
    <2>1. /\ t \in mTimerQueue
          /\ mTimerQueue' = mTimerQueue \ {t}
          /\ mCancelTimers' = mCancelTimers \ {t}
          /\ deleted' = deleted \cup {t}
          /\ loop = "pass"
          /\ UNCHANGED <<cur, loop, mLastTimerId, dtor, mQuit, removed>>
        BY <1>7 DEF LoopPurge, Free, Tops, threadVars, histVars
    <2>2. TimerOwnership'
        BY <2>1 DEF OwnInv, TimerOwnership, QuitInv
    <2>3. RemovedIsMarked'
        BY <2>1 DEF OwnInv, TimerOwnership, RemovedIsMarked
    <2>4. QuitInv'
        BY <2>1 DEF OwnInv, QuitInv
    <2> QED BY <2>2, <2>3, <2>4 DEF OwnInv
<1>8. ASSUME NEW t \in Ids, LoopWaitFor(t)
      PROVE  OwnInv'
    BY <1>8, OwnFrame DEF LoopWaitFor, ownVars, timerVars, histVars
<1>9. ASSUME NEW t \in Ids, LoopFire(t)
      PROVE  OwnInv'
    <2>1. /\ t \in mTimerQueue /\ t # 0
          /\ loop = "pass" /\ loop' = "fire"
          /\ mTimerQueue' = mTimerQueue \ {t}
          /\ cur' = t
          /\ UNCHANGED <<deleted, mLastTimerId, dtor, mQuit, mCancelTimers, removed>>
        BY <1>9 DEF LoopFire, Tops, Ids
    <2>2. TimerOwnership'
        BY <2>1 DEF OwnInv, TimerOwnership, QuitInv
    <2>3. RemovedIsMarked' /\ QuitInv'
        BY <2>1 DEF OwnInv, RemovedIsMarked, QuitInv
    <2> QED BY <2>2, <2>3 DEF OwnInv
<1>10. CASE LoopRequeue
    <2>1. /\ cur # 0
          /\ mTimerQueue' = mTimerQueue \cup {cur}
          /\ cur' = 0 /\ loop = "fire" /\ loop' = "pass"
          /\ UNCHANGED <<deleted, mLastTimerId, dtor, mQuit, mCancelTimers, removed>>
        BY <1>10 DEF LoopRequeue, OwnInv, TimerOwnership, histVars
    <2>2. 0 \notin mTimerQueue \cup deleted
        BY <1>a DEF OwnInv, TimerOwnership
    <2>3. TimerOwnership'
        BY <2>1, <2>2 DEF OwnInv, TimerOwnership, QuitInv
    <2>4. 0 \notin removed
        BY DEF TypeOK, Ids
    <2>5. RemovedIsMarked' /\ QuitInv'
        BY <2>1, <2>4 DEF OwnInv, RemovedIsMarked, QuitInv
    <2> QED BY <2>3, <2>5 DEF OwnInv
<1>11. CASE LoopDrop
    <2>1. /\ cur # 0
          /\ deleted' = deleted \cup {cur}
          /\ mCancelTimers' = mCancelTimers \ {cur}
          /\ cur' = 0 /\ loop = "fire" /\ loop' = "pass"
          /\ UNCHANGED <<mTimerQueue, mLastTimerId, dtor, mQuit, removed>>
        BY <1>11 DEF LoopDrop, Free, OwnInv, TimerOwnership, histVars
    <2>2. 0 \notin mTimerQueue \cup deleted /\ 0 \notin removed
        BY <1>a DEF OwnInv, TimerOwnership, TypeOK, Ids
    <2>3. TimerOwnership'
        BY <2>1, <2>2 DEF OwnInv, TimerOwnership, QuitInv
    <2>4. RemovedIsMarked'
        BY <2>1, <2>2 DEF OwnInv, TimerOwnership, RemovedIsMarked
    <2>5. QuitInv'
        BY <2>1 DEF OwnInv, QuitInv
    <2> QED BY <2>3, <2>4, <2>5 DEF OwnInv
<1>12. CASE DtorQuit
    <2>1. mQuit' /\ dtor = "none" /\ dtor' = "notify"
        BY <1>12 DEF DtorQuit
    <2>2. UNCHANGED <<mTimerQueue, deleted, cur, loop, mLastTimerId, mCancelTimers, removed>>
        BY <1>12 DEF DtorQuit, timerVars, threadVars, histVars
    <2> QED BY <2>1, <2>2 DEF OwnInv, TimerOwnership, RemovedIsMarked, QuitInv
<1>13. CASE DtorNotify
    <2>1. (loop' = "fire" <=> loop = "fire") /\ (loop = "exit" <=> loop' = "exit")
        BY <1>13 DEF DtorNotify, NotifiedByDtor, Notified
    <2>2. dtor = "notify" /\ dtor' = "join"
        BY <1>13 DEF DtorNotify
    <2>3. UNCHANGED <<mTimerQueue, deleted, cur, mLastTimerId, mQuit, mCancelTimers, removed>>
        BY <1>13 DEF DtorNotify, timerVars, histVars
    <2> QED BY <2>1, <2>2, <2>3 DEF OwnInv, TimerOwnership, RemovedIsMarked, QuitInv
<1>14. CASE DtorClear
    <2>1. dtor = "join" /\ dtor' = "done" /\ loop = "exit"
        BY <1>14 DEF DtorClear
    <2>2. /\ deleted' = deleted \cup mTimerQueue
          /\ mTimerQueue' = {}
          /\ mCancelTimers' = {}
          /\ UNCHANGED <<cur, loop, mLastTimerId, mQuit, removed>>
        BY <1>14 DEF DtorClear, threadVars, histVars
    <2>3. cur = 0
        BY <2>1 DEF OwnInv, TimerOwnership
    <2>4. 0 \notin removed
        BY DEF TypeOK, Ids
    <2> QED BY <2>1, <2>2, <2>3, <2>4 DEF OwnInv, TimerOwnership, RemovedIsMarked, QuitInv
<1>15. CASE UNCHANGED vars
    BY <1>15, OwnFrame DEF vars, ownVars, timerVars, threadVars, histVars
<1> QED BY <1>1, <1>2, <1>3, <1>4, <1>5, <1>6, <1>7, <1>8, <1>9, <1>10, <1>11, <1>12,
           <1>13, <1>14, <1>15
        DEF Next, Loop, Call
------------------------------------------------------------------------------
\* The schedule of the callbacks.

LEMMA NextMultiple == ASSUME NEW a \in Nat, NEW b \in Nat PROVE (a + 1) * b = a * b + b
    OBVIOUS

\* What a step may not touch without moving a timer on its schedule.
scheduleVars == <<mTimerQueue, deadline, interval, cur, mLastTimerId, first, fires>>

LEMMA ScheduleFrame ==
    ASSUME OnSchedule, UNCHANGED scheduleVars
    PROVE  OnSchedule'
    BY DEF OnSchedule, NoDrift, scheduleVars

LEMMA ScheduleStep == TypeOK /\ OwnInv /\ OnSchedule /\ [Next]_vars => OnSchedule'
<1> SUFFICES ASSUME TypeOK, OwnInv, OnSchedule, [Next]_vars
             PROVE  OnSchedule'
    OBVIOUS
<1>a. /\ mLastTimerId \in 0..MaxTimers /\ MaxTimers \in Nat
      /\ mTimerQueue \subseteq 1..mLastTimerId
      /\ cur \in 0..mLastTimerId
    <2>1. mLastTimerId \in 0..MaxTimers /\ cur \in Nat
        BY DEF TypeOK
    <2>2. mTimerQueue \subseteq 1..mLastTimerId
        BY DEF OwnInv, TimerOwnership
    <2>3. cur # 0 => cur \in 1..mLastTimerId
        BY DEF OwnInv, TimerOwnership
    <2> QED BY <2>1, <2>2, <2>3, TimerAssumption
<1>b. /\ deadline \in [Ids -> Nat] /\ interval \in [Ids -> Nat]
      /\ first \in [Ids -> Nat] /\ fires \in [Ids -> Nat]
    BY DEF TypeOK
<1>1. CASE Tick
    BY <1>1, ScheduleFrame DEF Tick, scheduleVars, timerVars, threadVars, histVars
<1>2. ASSUME NEW c \in Callers, NEW delay \in 0..MaxDelay, NEW ival \in Intervals,
             AddTimer(c, delay, ival)
      PROVE  OnSchedule'
    <2> DEFINE id == mLastTimerId + 1
    <2>1. id \in Ids /\ id \notin mTimerQueue /\ id # cur /\ id > mLastTimerId
        BY <1>2, <1>a DEF AddTimer, Ids
    <2>2. now + delay \in Nat /\ ival \in Nat
        BY TimerAssumption DEF TypeOK
    <2>3. /\ mLastTimerId' = id
          /\ mTimerQueue' = mTimerQueue \cup {id}
          /\ deadline' = [deadline EXCEPT ![id] = now + delay]
          /\ interval' = [interval EXCEPT ![id] = ival]
          /\ first' = [first EXCEPT ![id] = now + delay]
          /\ UNCHANGED <<cur, fires>>
        BY <1>2 DEF AddTimer, NewId, threadVars
    <2>4. \A t \in Ids : t # id => /\ deadline'[t] = deadline[t]
                                  /\ interval'[t] = interval[t]
                                  /\ first'[t] = first[t]
        BY <1>b, <2>3
    <2>5. /\ deadline'[id] = now + delay /\ first'[id] = now + delay /\ interval'[id] = ival
          /\ fires'[id] = 0
        BY <1>b, <2>1, <2>3 DEF OnSchedule
    <2>6. deadline'[id] = first'[id] + fires'[id] * interval'[id]
        BY <2>2, <2>5
    <2>7. NoDrift'
        BY <1>a, <2>1, <2>3, <2>4, <2>6 DEF OnSchedule, NoDrift, Ids
    <2>8. cur' # 0 => deadline'[cur'] + interval'[cur'] = first'[cur'] + fires'[cur'] * interval'[cur']
        BY <1>a, <2>1, <2>3, <2>4 DEF OnSchedule, Ids
    <2>9. \A t \in Ids : t > mLastTimerId' => fires'[t] = 0
        BY <1>a, <2>3 DEF OnSchedule, Ids
    <2> QED BY <2>7, <2>8, <2>9 DEF OnSchedule
<1>3. ASSUME NEW c \in Callers, NEW t \in Ids, RemoveTimer(c, t)
      PROVE  OnSchedule'
    BY <1>3, ScheduleFrame DEF RemoveTimer, scheduleVars, timerVars, threadVars
<1>4. ASSUME NEW c \in Callers, CallerNotify(c)
      PROVE  OnSchedule'
    BY <1>4, ScheduleFrame DEF CallerNotify, scheduleVars, timerVars, histVars
<1>5. CASE LoopLock \/ LoopExit \/ LoopWait \/ LoopRecheck \/ LoopTimeout \/ SpuriousWakeup
    <2>1. UNCHANGED scheduleVars
        BY <1>5 DEF LoopLock, LoopExit, LoopWait, LoopRecheck, LoopTimeout, SpuriousWakeup,
                    scheduleVars, timerVars, histVars
    <2> QED BY <2>1, ScheduleFrame
<1>6. ASSUME NEW t \in Ids, LoopPurge(t)
      PROVE  OnSchedule'
    <2>1. /\ mTimerQueue' \subseteq mTimerQueue
          /\ UNCHANGED <<deadline, interval, cur, mLastTimerId, first, fires>>
        BY <1>6 DEF LoopPurge, threadVars, histVars
    <2> QED BY <2>1 DEF OnSchedule, NoDrift
<1>7. ASSUME NEW t \in Ids, LoopWaitFor(t)
      PROVE  OnSchedule'
    BY <1>7, ScheduleFrame DEF LoopWaitFor, scheduleVars, timerVars, histVars
<1>8. ASSUME NEW t \in Ids, LoopFire(t)
      PROVE  OnSchedule'
    <2>1. /\ t \in mTimerQueue
          /\ mTimerQueue' = mTimerQueue \ {t}
          /\ cur' = t
          /\ fires' = [fires EXCEPT ![t] = @ + 1]
          /\ UNCHANGED <<deadline, interval, mLastTimerId, first>>
        BY <1>8 DEF LoopFire, Tops
    <2>2. fires'[t] = fires[t] + 1 /\ \A u \in Ids : u # t => fires'[u] = fires[u]
        BY <1>b, <2>1
    <2>3. (fires[t] + 1) * interval[t] = fires[t] * interval[t] + interval[t]
        BY <1>b, NextMultiple
    <2>4. deadline[t] = first[t] + fires[t] * interval[t]
        BY <2>1 DEF OnSchedule, NoDrift
    <2>5. fires[t] * interval[t] \in Nat
        BY <1>b
    <2>6. deadline'[cur'] + interval'[cur'] = first'[cur'] + fires'[cur'] * interval'[cur']
        BY <1>b, <2>1, <2>2, <2>3, <2>4, <2>5
    <2>7. NoDrift'
        BY <1>a, <2>1, <2>2 DEF OnSchedule, NoDrift, Ids
    <2>8. \A u \in Ids : u > mLastTimerId' => fires'[u] = 0
        BY <1>a, <2>1, <2>2 DEF OnSchedule, Ids
    <2> QED BY <2>6, <2>7, <2>8 DEF OnSchedule
<1>9. CASE LoopRequeue
    <2>1. /\ cur # 0 /\ cur' = 0
          /\ mTimerQueue' = mTimerQueue \cup {cur}
          /\ deadline' = [deadline EXCEPT ![cur] = deadline[cur] + interval[cur]]
          /\ UNCHANGED <<interval, mLastTimerId, first, fires>>
        BY <1>9 DEF LoopRequeue, NextDeadline, histVars, OwnInv, TimerOwnership
    <2>2. cur \in Ids /\ cur \notin mTimerQueue
        BY <1>a, <2>1 DEF Ids, OwnInv, TimerOwnership
    <2>3. /\ deadline'[cur] = deadline[cur] + interval[cur]
          /\ \A t \in Ids : t # cur => deadline'[t] = deadline[t]
        BY <1>b, <2>1, <2>2
    <2>4. deadline'[cur] = first[cur] + fires[cur] * interval[cur]
        BY <2>1, <2>3 DEF OnSchedule
    <2>5. NoDrift'
        BY <1>a, <2>1, <2>2, <2>3, <2>4 DEF OnSchedule, NoDrift, Ids
    <2> QED BY <2>1, <2>5 DEF OnSchedule
<1>10. CASE LoopDrop
    <2>1. cur' = 0 /\ UNCHANGED <<mTimerQueue, deadline, interval, mLastTimerId, first, fires>>
        BY <1>10 DEF LoopDrop, histVars
    <2> QED BY <2>1 DEF OnSchedule, NoDrift
<1>11. CASE DtorQuit \/ DtorNotify
    <2>1. UNCHANGED scheduleVars
        BY <1>11 DEF DtorQuit, DtorNotify, scheduleVars, timerVars, threadVars, histVars
    <2> QED BY <2>1, ScheduleFrame
<1>12. CASE DtorClear
    <2>1. mTimerQueue' = {} /\ UNCHANGED <<deadline, interval, cur, mLastTimerId, first, fires>>
        BY <1>12 DEF DtorClear, threadVars, histVars
    <2> QED BY <2>1 DEF OnSchedule, NoDrift
<1>13. CASE UNCHANGED vars
    BY <1>13, ScheduleFrame DEF vars, scheduleVars, timerVars, threadVars, histVars
<1> QED BY <1>1, <1>2, <1>3, <1>4, <1>5, <1>6, <1>7, <1>8, <1>9, <1>10, <1>11, <1>12, <1>13
        DEF Next, Loop, Call
------------------------------------------------------------------------------
\* Sleeping.

LEMMA SleepStep == TypeOK /\ OwnInv /\ NoOversleep /\ [Next]_vars => NoOversleep'
<1> SUFFICES ASSUME TypeOK, OwnInv, NoOversleep, [Next]_vars
             PROVE  NoOversleep'
    OBVIOUS
\* Either the thread is not in a wait after the step, or a notify is on its way,
\* or the thread was in the same wait before and no timer came to the queue.
<1>a. ASSUME loop' \notin {"wait", "waitFor"}
      PROVE  NoOversleep'
    BY <1>a DEF NoOversleep
<1>b. ASSUME UNCHANGED <<loop, wakeAt, caller, deadline>>, mTimerQueue' \subseteq mTimerQueue
      PROVE  NoOversleep'
    BY <1>b DEF NoOversleep, AboutToNotify
<1>c. ASSUME NEW c \in Callers, caller' = [caller EXCEPT ![c] = "notify"]
      PROVE  NoOversleep'
    <2>1. AboutToNotify'
        BY <1>c DEF AboutToNotify, TypeOK
    <2> QED BY <2>1 DEF NoOversleep
<1>1. CASE Tick
    BY <1>1, <1>b DEF Tick, timerVars, threadVars
<1>2. ASSUME NEW c \in Callers, NEW delay \in 0..MaxDelay, NEW ival \in Intervals,
             AddTimer(c, delay, ival)
      PROVE  NoOversleep'
    BY <1>2, <1>c DEF AddTimer
<1>3. ASSUME NEW c \in Callers, NEW t \in Ids, RemoveTimer(c, t)
      PROVE  NoOversleep'
    BY <1>3, <1>c DEF RemoveTimer
<1>4. ASSUME NEW c \in Callers, CallerNotify(c)
      PROVE  NoOversleep'
    BY <1>4, <1>a DEF CallerNotify, Notified
<1>5. CASE LoopLock \/ LoopExit \/ LoopTimeout \/ SpuriousWakeup \/ LoopRequeue \/ LoopDrop
    BY <1>5, <1>a DEF LoopLock, LoopExit, LoopTimeout, SpuriousWakeup, LoopRequeue, LoopDrop
<1>6. CASE LoopWait
    <2>1. mTimerQueue' = {} /\ loop' = "wait"
        BY <1>6 DEF LoopWait, timerVars
    <2> QED BY <2>1 DEF NoOversleep
<1>7. CASE LoopRecheck
    <2>1. loop' \in {"wait", "pass"} /\ (loop' = "wait" => mTimerQueue' = {})
        BY <1>7 DEF LoopRecheck, timerVars
    <2> QED BY <2>1 DEF NoOversleep
<1>8. ASSUME NEW t \in Ids, LoopPurge(t)
      PROVE  NoOversleep'
    BY <1>8, <1>b DEF LoopPurge, threadVars
<1>9. ASSUME NEW t \in Ids, LoopWaitFor(t)
      PROVE  NoOversleep'
    <2>1. /\ loop' = "waitFor" /\ wakeAt' = deadline[t]
          /\ \A u \in mTimerQueue : deadline[t] <= deadline[u]
          /\ UNCHANGED <<mTimerQueue, deadline>>
        BY <1>9 DEF LoopWaitFor, Tops, timerVars
    <2> QED BY <2>1 DEF NoOversleep
<1>10. ASSUME NEW t \in Ids, LoopFire(t)
      PROVE  NoOversleep'
    BY <1>10, <1>a DEF LoopFire
<1>11. CASE DtorQuit
    BY <1>11, <1>b DEF DtorQuit, timerVars, threadVars
<1>12. CASE DtorNotify
    BY <1>12, <1>a DEF DtorNotify, NotifiedByDtor, Notified
<1>13. CASE DtorClear
    BY <1>13, <1>b DEF DtorClear, threadVars
<1>14. CASE UNCHANGED vars
    BY <1>14, <1>b DEF vars, timerVars, threadVars
<1> QED BY <1>1, <1>2, <1>3, <1>4, <1>5, <1>6, <1>7, <1>8, <1>9, <1>10, <1>11, <1>12,
           <1>13, <1>14
        DEF Next, Loop, Call
------------------------------------------------------------------------------
\* Marks.

LEMMA MarkStep == MarkedIsRemoved /\ [Next]_vars => MarkedIsRemoved'
<1> SUFFICES ASSUME MarkedIsRemoved, [Next]_vars
             PROVE  MarkedIsRemoved'
    OBVIOUS
<1>a. ASSUME mCancelTimers' \subseteq mCancelTimers, removed' = removed
      PROVE  MarkedIsRemoved'
    BY <1>a DEF MarkedIsRemoved
<1>1. ASSUME NEW c \in Callers, Call(c)
      PROVE  MarkedIsRemoved'
    <2>1. ASSUME NEW t \in Ids, RemoveTimer(c, t)
          PROVE  MarkedIsRemoved'
        BY <2>1 DEF RemoveTimer, MarkedIsRemoved
    <2>2. ASSUME NEW delay \in 0..MaxDelay, NEW ival \in Intervals, AddTimer(c, delay, ival)
          PROVE  MarkedIsRemoved'
        BY <2>2, <1>a DEF AddTimer
    <2>3. CASE CallerNotify(c)
        BY <2>3, <1>a DEF CallerNotify, histVars
    <2> QED BY <1>1, <2>1, <2>2, <2>3 DEF Call
<1>2. ASSUME NEW t \in Ids, LoopPurge(t) \/ LoopWaitFor(t) \/ LoopFire(t)
      PROVE  MarkedIsRemoved'
    BY <1>2, <1>a DEF LoopPurge, LoopWaitFor, LoopFire, histVars
<1>3. CASE LoopRequeue \/ LoopDrop
    BY <1>3, <1>a DEF LoopRequeue, LoopDrop, histVars
<1>4. CASE LoopLock \/ LoopExit \/ LoopWait \/ LoopRecheck \/ LoopTimeout \/ SpuriousWakeup
    BY <1>4, <1>a DEF LoopLock, LoopExit, LoopWait, LoopRecheck, LoopTimeout, SpuriousWakeup,
                      histVars
<1>5. CASE Tick \/ DtorQuit \/ DtorNotify \/ DtorClear \/ UNCHANGED vars
    BY <1>5, <1>a DEF Tick, DtorQuit, DtorNotify, DtorClear, vars, histVars
<1> QED BY <1>1, <1>2, <1>3, <1>4, <1>5 DEF Next, Loop
------------------------------------------------------------------------------
\* The theorems.

LEMMA IInvInit == Init => IInv
<1> SUFFICES ASSUME Init PROVE IInv
    OBVIOUS
<1>1. TypeOK
    <2>1. /\ deadline \in [Ids -> Nat] /\ interval \in [Ids -> Nat]
          /\ first \in [Ids -> Nat] /\ fires \in [Ids -> Nat]
          /\ caller \in [Callers -> {"idle", "notify"}]
        BY DEF Init
    <2>2. now \in 0..Horizon /\ mLastTimerId \in 0..MaxTimers /\ cur \in 0..MaxTimers
        BY TimerAssumption DEF Init
    <2>3. /\ mTimerQueue \in SUBSET Ids /\ mCancelTimers \in SUBSET Ids
          /\ deleted \in SUBSET Ids /\ removed \in SUBSET Ids
          /\ mQuit \in BOOLEAN /\ wakeAt \in Nat
          /\ loop = "lock" /\ dtor = "none"
        BY DEF Init
    <2> QED BY <2>1, <2>2, <2>3 DEF TypeOK
<1>2. OwnInv
    BY DEF Init, OwnInv, TimerOwnership, RemovedIsMarked, QuitInv
<1>3. OnSchedule
    BY DEF Init, OnSchedule, NoDrift
<1>4. NoOversleep
    BY DEF Init, NoOversleep
<1>5. MarkedIsRemoved
    BY DEF Init, MarkedIsRemoved
<1> QED BY <1>1, <1>2, <1>3, <1>4, <1>5 DEF IInv, OwnInv

LEMMA IInvStep == IInv /\ [Next]_vars => IInv'
    BY TypeStep, OwnStep, MarkStep, ScheduleStep, SleepStep DEF IInv, OwnInv

LEMMA Inductive == Spec => []IInv
    BY IInvInit, IInvStep, PTL DEF Spec

\* The state keeps its types: ids, deadlines, and where the threads are.
THEOREM TimerTypes == Spec => []TypeOK
    BY Inductive, PTL DEF IInv

\* Each timer addTimer allocated is queued, in a callback or deleted, and deleted
\* once; the destructor leaves none behind.
THEOREM TimersOwned == Spec => []TimerOwnership
    BY Inductive, PTL DEF IInv

\* A periodic timer keeps to its periods, however late its callbacks run.
THEOREM TimersDoNotDrift == Spec => []NoDrift
    BY Inductive, PTL DEF IInv, OnSchedule

\* The thread never sleeps past a deadline unless a notify is on its way.
THEOREM ThreadNeverOversleeps == Spec => []NoOversleep
    BY Inductive, PTL DEF IInv

\* Only LoopFire begins a callback.
LEMMA OnlyFireFires ==
    ASSUME TypeOK, [Next]_vars, NEW u \in Ids, fires'[u] # fires[u]
    PROVE  LoopFire(u)
<1>1. ASSUME NEW t \in Ids, LoopFire(t)
      PROVE  LoopFire(u)
    BY <1>1 DEF LoopFire, TypeOK
<1>2. CASE fires' = fires
    BY <1>2
<1>3. ASSUME NEW c \in Callers, Call(c)
      PROVE  fires' = fires
    BY <1>3 DEF Call, AddTimer, RemoveTimer, CallerNotify, histVars
<1>4. ASSUME LoopLock \/ LoopExit \/ LoopWait \/ LoopRecheck \/ LoopTimeout \/ SpuriousWakeup
      PROVE  fires' = fires
    BY <1>4 DEF LoopLock, LoopExit, LoopWait, LoopRecheck, LoopTimeout, SpuriousWakeup, histVars
<1>5. ASSUME LoopRequeue \/ LoopDrop
      PROVE  fires' = fires
    BY <1>5 DEF LoopRequeue, LoopDrop, histVars
<1>6. ASSUME NEW t \in Ids, LoopPurge(t) \/ LoopWaitFor(t)
      PROVE  fires' = fires
    BY <1>6 DEF LoopPurge, LoopWaitFor, histVars
<1>7. ASSUME Tick \/ DtorQuit \/ DtorNotify \/ DtorClear \/ UNCHANGED vars
      PROVE  fires' = fires
    BY <1>7 DEF Tick, DtorQuit, DtorNotify, DtorClear, vars, histVars
<1> QED BY <1>1, <1>2, <1>3, <1>4, <1>5, <1>6, <1>7 DEF Next, Loop

\* After removeTimer returned, and after mQuit, no callback of the timer begins.
THEOREM RemovedTimersNeverFire == Spec => NeverFiresAgain
<1>1. ASSUME IInv, [Next]_vars
      PROVE  \A t \in Ids : t \in removed \/ mQuit => fires'[t] = fires[t]
    <2> SUFFICES ASSUME NEW t \in Ids, fires'[t] # fires[t]
                 PROVE  t \notin removed /\ ~mQuit
        OBVIOUS
    <2>1. LoopFire(t)
        BY <1>1, OnlyFireFires DEF IInv
    <2>2. ~mQuit /\ t \in mTimerQueue /\ t \notin mCancelTimers
        BY <2>1 DEF LoopFire, Tops, Cancelled
    <2> QED BY <1>1, <2>2 DEF IInv, RemovedIsMarked
<1> QED BY <1>1, Inductive, PTL DEF Spec, NeverFiresAgain

\* No callback begins before its time: the k-th not before first + (k-1) * interval.
THEOREM CallbacksAreNeverEarly == Spec => FiresOnSchedule
<1>1. ASSUME IInv, [Next]_vars
      PROVE  \A t \in Ids : fires'[t] # fires[t] => now >= first[t] + fires[t] * interval[t]
    <2> SUFFICES ASSUME NEW t \in Ids, fires'[t] # fires[t]
                 PROVE  now >= first[t] + fires[t] * interval[t]
        OBVIOUS
    <2>1. LoopFire(t)
        BY <1>1, OnlyFireFires DEF IInv
    <2>2. t \in mTimerQueue /\ deadline[t] <= now
        BY <2>1 DEF LoopFire, Tops, Due
    <2>3. deadline[t] = first[t] + fires[t] * interval[t]
        BY <1>1, <2>2 DEF IInv, OnSchedule, NoDrift
    <2>4. now \in Nat /\ deadline[t] \in Nat
        BY <1>1 DEF IInv, TypeOK
    <2> QED BY <2>2, <2>3, <2>4
<1> QED BY <1>1, Inductive, PTL DEF Spec, FiresOnSchedule
------------------------------------------------------------------------------
\* The manager implements the timer service.

LEMMA ServiceInit == Init => Service!TInit
    BY DEF Init, Service!TInit

\* The timers whose callback may still begin, or is running.
live == mTimerQueue \cup ({cur} \ {0})

LEMMA ServiceFrame ==
    ASSUME UNCHANGED <<mTimerQueue, cur, mLastTimerId, mQuit, removed>>
    PROVE  UNCHANGED Service!tvars
    BY DEF Service!tvars

LEMMA ServiceStep == IInv /\ [Next]_vars => [Service!TNext(Ids)]_(Service!tvars)
<1> SUFFICES ASSUME IInv, [Next]_vars
             PROVE  Service!TNext(Ids) \/ UNCHANGED Service!tvars
    OBVIOUS
<1> USE DEF live
<1>a. /\ mLastTimerId \in 0..MaxTimers /\ MaxTimers \in Nat
      /\ removed \subseteq 1..mLastTimerId
      /\ live \subseteq 1..mLastTimerId
    <2>1. mLastTimerId \in 0..MaxTimers /\ removed \subseteq Ids
        BY DEF IInv, TypeOK
    <2>2. \A t \in removed : t <= mLastTimerId
        BY DEF IInv, RemovedIsMarked
    <2>3. live \subseteq 1..mLastTimerId
        BY DEF IInv, TimerOwnership
    <2> QED BY <2>1, <2>2, <2>3, TimerAssumption DEF Ids
<1>1. ASSUME NEW c \in Callers, NEW delay \in 0..MaxDelay, NEW ival \in Intervals,
             AddTimer(c, delay, ival)
      PROVE  Service!TNext(Ids)
    <2> DEFINE id == mLastTimerId + 1
    <2>1. /\ mLastTimerId' = id /\ mLastTimerId < MaxTimers
          /\ mTimerQueue' = mTimerQueue \cup {id}
          /\ UNCHANGED <<cur, mQuit, removed>>
        BY <1>1 DEF AddTimer, NewId, threadVars
    <2>2. id \in Ids /\ id \notin 1..mLastTimerId /\ 1..id = 1..mLastTimerId \cup {id}
        BY <1>a, <2>1 DEF Ids
    <2>3. id \notin removed
        BY <1>a, <2>2
    <2>4. live' \ removed' = (live \ removed) \cup {id}
        BY <2>1, <2>3
    <2>5. Service!Add(id)
        BY <2>1, <2>2, <2>4 DEF Service!Add
    <2> QED BY <2>2, <2>5 DEF Service!TNext
<1>2. ASSUME NEW c \in Callers, NEW t \in Ids, RemoveTimer(c, t)
      PROVE  Service!TNext(Ids)
    <2>1. /\ removed' = removed \cup {t} /\ t <= mLastTimerId
          /\ UNCHANGED <<mTimerQueue, cur, mLastTimerId, mQuit>>
        BY <1>2 DEF RemoveTimer, timerVars, threadVars
    <2>2. t \in 1..mLastTimerId
        BY <1>a, <2>1 DEF Ids
    <2>3. Service!Remove(t)
        BY <2>1, <2>2 DEF Service!Remove
    <2> QED BY <2>3 DEF Service!TNext
<1>3. ASSUME NEW t \in Ids, LoopFire(t)
      PROVE  Service!TNext(Ids)
    <2>1. /\ loop = "pass" /\ ~mQuit
          /\ t \in mTimerQueue /\ t \notin mCancelTimers
          /\ mTimerQueue' = mTimerQueue \ {t}
          /\ cur' = t
          /\ UNCHANGED <<mLastTimerId, mQuit, removed>>
        BY <1>3 DEF LoopFire, Tops, Cancelled
    <2>2. cur = 0
        BY <2>1 DEF IInv, TimerOwnership
    <2>3. t \notin removed
        BY <2>1 DEF IInv, RemovedIsMarked
    <2>4. t # 0
        BY DEF Ids
    <2>5. Service!Begin(t)
        BY <2>1, <2>2, <2>3, <2>4 DEF Service!Begin
    <2> QED BY <2>5 DEF Service!TNext
<1>4. CASE LoopRequeue \/ LoopDrop
    <2>1. /\ loop = "fire" /\ cur' = 0
          /\ mTimerQueue' \in {mTimerQueue, mTimerQueue \cup {cur}}
          /\ UNCHANGED <<mLastTimerId, mQuit, removed>>
        BY <1>4 DEF LoopRequeue, LoopDrop, histVars
    <2>2. cur # 0 /\ cur \notin mTimerQueue
        BY <2>1 DEF IInv, TimerOwnership
    <2>3. live' \in {live, live \ {cur}}
        BY <2>1, <2>2
    <2>4. live' \ removed' \in {live \ removed, (live \ removed) \ {cur}}
        BY <2>1, <2>3
    <2>5. Service!End
        BY <2>1, <2>2, <2>4 DEF Service!End
    <2> QED BY <2>5 DEF Service!TNext
<1>5. CASE DtorQuit
    <2>1. mQuit' /\ dtor = "none" /\ UNCHANGED <<mTimerQueue, cur, mLastTimerId, removed>>
        BY <1>5 DEF DtorQuit, timerVars, threadVars, histVars
    <2>2. ~mQuit
        BY <2>1 DEF IInv, QuitInv
    <2>3. Service!Close
        BY <2>1, <2>2 DEF Service!Close
    <2> QED BY <2>3 DEF Service!TNext
<1>6. CASE DtorClear
    <2>1. /\ loop = "exit" /\ mTimerQueue' = {}
          /\ UNCHANGED <<cur, mLastTimerId, mQuit, removed>>
        BY <1>6 DEF DtorClear, threadVars, histVars
    <2>2. cur = 0 /\ mQuit
        BY <2>1 DEF IInv, TimerOwnership, QuitInv
    <2>3. Service!Discard
        BY <2>1, <2>2 DEF Service!Discard
    <2> QED BY <2>3 DEF Service!TNext
\* A timer purged from the queue was removed, and so no longer armed.
<1>7. ASSUME NEW t \in Ids, LoopPurge(t)
      PROVE  UNCHANGED Service!tvars
    <2>1. /\ t \in mTimerQueue /\ t \in mCancelTimers
          /\ mTimerQueue' = mTimerQueue \ {t}
          /\ UNCHANGED <<cur, mLastTimerId, mQuit, removed>>
        BY <1>7 DEF LoopPurge, Tops, Cancelled, threadVars, histVars
    <2>2. t \in removed
        BY <2>1 DEF IInv, MarkedIsRemoved
    <2>3. live' \ removed' = live \ removed
        BY <2>1, <2>2
    <2> QED BY <2>1, <2>3 DEF Service!tvars
<1>8. ASSUME NEW c \in Callers, CallerNotify(c)
      PROVE  UNCHANGED Service!tvars
    BY <1>8, ServiceFrame DEF CallerNotify, timerVars, histVars
<1>9. ASSUME NEW t \in Ids, LoopWaitFor(t)
      PROVE  UNCHANGED Service!tvars
    BY <1>9, ServiceFrame DEF LoopWaitFor, timerVars, histVars
<1>10. CASE LoopLock \/ LoopExit \/ LoopWait \/ LoopRecheck \/ LoopTimeout \/ SpuriousWakeup
    BY <1>10, ServiceFrame DEF LoopLock, LoopExit, LoopWait, LoopRecheck, LoopTimeout,
                               SpuriousWakeup, timerVars, histVars
<1>11. CASE Tick \/ DtorNotify \/ UNCHANGED vars
    BY <1>11, ServiceFrame DEF Tick, DtorNotify, vars, timerVars, threadVars, histVars
<1> QED BY <1>1, <1>2, <1>3, <1>4, <1>5, <1>6, <1>7, <1>8, <1>9, <1>10, <1>11
        DEF Next, Loop, Call

\* addTimer, removeTimer, timerLoop and the destructor together behave like the
\* timer service: each step of theirs is a step of it or leaves it unchanged.
THEOREM ManagerImplementsTimerService == Spec => ImplementsTimerService
    BY Inductive, ServiceInit, ServiceStep, PTL DEF Spec, ImplementsTimerService
=============================================================================
