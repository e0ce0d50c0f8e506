--------------------------- MODULE WinTimerManager ---------------------------
(***************************************************************************)
(* src/timer/win/TimerManager.cpp: timers in a priority queue, one thread  *)
(* that sleeps until the earliest deadline and runs the callbacks, and     *)
(* callers that add and cancel timers.  A cancel only records the id; the  *)
(* thread drops the timer when it meets it.  The lock is released during a *)
(* callback and during the waits, and the callers notify after they have   *)
(* released it, so both are steps of their own.  A timer is its id; a      *)
(* caller that acts while a callback runs may be that callback.            *)
(***************************************************************************)
EXTENDS Naturals

CONSTANTS Callers,    \* threads that call addTimer and removeTimer
          MaxTimers,  \* bound: calls of addTimer
          Intervals,  \* intervals in use; 0 is a timer that fires once
          MaxDelay,   \* the first deadline is at most so far ahead
          Horizon     \* bound: the last instant of the clock

ASSUME TimerAssumption ==
    /\ MaxTimers \in Nat
    /\ Intervals \subseteq Nat
    /\ MaxDelay \in Nat
    /\ Horizon \in Nat

Ids == 1..MaxTimers

VARIABLES now,
          mTimerQueue, mCancelTimers, mQuit, mLastTimerId,
          deadline, interval,  \* mTimestamp and mTimeInterval of each timer
          deleted,             \* timers that were deleted
          loop,                \* where timerLoop is; it holds mMutex in "pass"
          cur,                 \* the local variable timer while a callback runs
          wakeAt,              \* the end of the wait_for it is in
          caller,              \* each caller: "idle", or about to notify
          dtor,                \* where the destructor is
          first, fires,        \* history: first deadline, number of callbacks begun
          removed              \* history: ids given to removeTimer

timerVars  == <<mTimerQueue, deadline, interval, deleted>>
threadVars == <<loop, cur, wakeAt>>
histVars   == <<first, fires, removed>>
vars == <<now, timerVars, mCancelTimers, mQuit, mLastTimerId, threadVars, caller, dtor,
          histVars>>

Init ==
    /\ now = 0
    /\ mTimerQueue = {}
    /\ mCancelTimers = {}
    /\ mQuit = FALSE
    /\ mLastTimerId = 0
    /\ deadline = [t \in Ids |-> 0]
    /\ interval = [t \in Ids |-> 0]
    /\ deleted = {}
    /\ loop = "lock"
    /\ cur = 0
    /\ wakeAt = 0
    /\ caller = [c \in Callers |-> "idle"]
    /\ dtor = "none"
    /\ first = [t \in Ids |-> 0]
    /\ fires = [t \in Ids |-> 0]
    /\ removed = {}

Tick ==
    /\ now < Horizon
    /\ now' = now + 1
    /\ UNCHANGED <<timerVars, mCancelTimers, mQuit, mLastTimerId, threadVars, caller, dtor,
                   histVars>>

MutexFree == loop # "pass"

\* A notify moves the thread out of its wait; "recheck" is the predicate of the
\* wait on an empty queue.
NotNotified == loop
Notified == CASE loop = "wait"    -> "recheck"
              [] loop = "waitFor" -> "lock"
              [] OTHER            -> loop
------------------------------------------------------------------------------
\* Callers.

PostIncrement == mLastTimerId
NewId == mLastTimerId + 1

AddTimer(c, delay, ival) ==
    /\ caller[c] = "idle"
    /\ dtor = "none"
    /\ MutexFree
    /\ mLastTimerId < MaxTimers
    /\ mLastTimerId' = mLastTimerId + 1
    /\ mTimerQueue' = mTimerQueue \cup {NewId}
    /\ deadline' = [deadline EXCEPT ![NewId] = now + delay]
    /\ interval' = [interval EXCEPT ![NewId] = ival]
    /\ first' = [first EXCEPT ![NewId] = now + delay]
    /\ caller' = [caller EXCEPT ![c] = "notify"]
    /\ UNCHANGED <<now, mCancelTimers, mQuit, deleted, threadVars, dtor, fires, removed>>

\* Callers only know ids that addTimer returned; the timer may be gone by now.
RemoveTimer(c, t) ==
    /\ caller[c] = "idle"
    /\ dtor = "none"
    /\ MutexFree
    /\ t <= mLastTimerId
    /\ mCancelTimers' = mCancelTimers \cup {t}
    /\ removed' = removed \cup {t}
    /\ caller' = [caller EXCEPT ![c] = "notify"]
    /\ UNCHANGED <<now, timerVars, mQuit, mLastTimerId, threadVars, dtor, first, fires>>

CallerNotify(c) ==
    /\ caller[c] = "notify"
    /\ caller' = [caller EXCEPT ![c] = "idle"]
    /\ loop' = Notified
    /\ UNCHANGED <<now, timerVars, mCancelTimers, mQuit, mLastTimerId, cur, wakeAt, dtor,
                   histVars>>
------------------------------------------------------------------------------
\* timerLoop.

AnyTimer == mTimerQueue
Tops == {t \in mTimerQueue : \A u \in mTimerQueue : deadline[t] <= deadline[u]}

AlmostDue(t) == deadline[t] <= now + 1
Due(t) == deadline[t] <= now

NeverCancelled(t) == FALSE
Cancelled(t) == t \in mCancelTimers

FreeNothing(t) == deleted
Free(t) == deleted \cup {t}

LoopLock ==
    /\ loop = "lock"
    /\ loop' = "pass"
    /\ UNCHANGED <<now, timerVars, mCancelTimers, mQuit, mLastTimerId, cur, wakeAt, caller,
                   dtor, histVars>>

LoopExit ==
    /\ loop = "pass"
    /\ mQuit
    /\ loop' = "exit"
    /\ UNCHANGED <<now, timerVars, mCancelTimers, mQuit, mLastTimerId, cur, wakeAt, caller,
                   dtor, histVars>>

\* One round of removeCanceledTimers; it leaves no cancelled timer on top, so
\* the test at line 79 never succeeds and is not modelled.
LoopPurge(t) ==
    /\ loop = "pass"
    /\ ~mQuit
    /\ t \in Tops
    /\ Cancelled(t)
    /\ mTimerQueue' = mTimerQueue \ {t}
    /\ mCancelTimers' = mCancelTimers \ {t}
    /\ deleted' = Free(t)
    /\ UNCHANGED <<now, deadline, interval, mQuit, mLastTimerId, threadVars, caller, dtor,
                   histVars>>

LoopWait ==
    /\ loop = "pass"
    /\ ~mQuit
    /\ mTimerQueue = {}
    /\ loop' = "wait"
    /\ UNCHANGED <<now, timerVars, mCancelTimers, mQuit, mLastTimerId, cur, wakeAt, caller,
                   dtor, histVars>>

LoopWaitFor(t) ==
    /\ loop = "pass"
    /\ ~mQuit
    /\ t \in Tops
    /\ ~Cancelled(t)
    /\ ~Due(t)
    /\ loop' = "waitFor"
    /\ wakeAt' = deadline[t]
    /\ UNCHANGED <<now, timerVars, mCancelTimers, mQuit, mLastTimerId, cur, caller, dtor,
                   histVars>>

\* Pop, unlock, and the callback begins.
LoopFire(t) ==
    /\ loop = "pass"
    /\ ~mQuit
    /\ t \in Tops
    /\ ~Cancelled(t)
    /\ Due(t)
    /\ mTimerQueue' = mTimerQueue \ {t}
    /\ cur' = t
    /\ fires' = [fires EXCEPT ![t] = @ + 1]
    /\ loop' = "fire"
    /\ UNCHANGED <<now, deadline, interval, deleted, mCancelTimers, mQuit, mLastTimerId,
                   wakeAt, caller, dtor, first, removed>>

FromNow(t) == now + interval[t]
NextDeadline(t) == deadline[t] + interval[t]

\* The callback returns, the lock is taken again and the timer is queued for its
\* next period, unless it was cancelled meanwhile, fires once, or mQuit is set.
LoopRequeue ==
    /\ loop = "fire"
    /\ ~mQuit
    /\ ~Cancelled(cur)
    /\ interval[cur] > 0
    /\ deadline' = [deadline EXCEPT ![cur] = NextDeadline(cur)]
    /\ mTimerQueue' = mTimerQueue \cup {cur}
    /\ cur' = 0
    /\ loop' = "pass"
    /\ UNCHANGED <<now, interval, deleted, mCancelTimers, mQuit, mLastTimerId, wakeAt, caller,
                   dtor, histVars>>

LoopDrop ==
    /\ loop = "fire"
    /\ mQuit \/ Cancelled(cur) \/ interval[cur] = 0
    /\ mCancelTimers' = mCancelTimers \ {cur}
    /\ deleted' = Free(cur)
    /\ cur' = 0
    /\ loop' = "pass"
    /\ UNCHANGED <<now, mTimerQueue, deadline, interval, mQuit, mLastTimerId, wakeAt, caller,
                   dtor, histVars>>

LoopRecheck ==
    /\ loop = "recheck"
    /\ loop' = IF mQuit \/ mTimerQueue # {} THEN "pass" ELSE "wait"
    /\ UNCHANGED <<now, timerVars, mCancelTimers, mQuit, mLastTimerId, cur, wakeAt, caller,
                   dtor, histVars>>

LoopTimeout ==
    /\ loop = "waitFor"
    /\ now >= wakeAt
    /\ loop' = "lock"
    /\ UNCHANGED <<now, timerVars, mCancelTimers, mQuit, mLastTimerId, cur, wakeAt, caller,
                   dtor, histVars>>

SpuriousWakeup ==
    /\ loop \in {"wait", "waitFor"}
    /\ loop' = IF loop = "wait" THEN "recheck" ELSE "lock"
    /\ UNCHANGED <<now, timerVars, mCancelTimers, mQuit, mLastTimerId, cur, wakeAt, caller,
                   dtor, histVars>>
------------------------------------------------------------------------------
\* The destructor, called when nobody else uses the object.

DtorQuit ==
    /\ dtor = "none"
    /\ \A c \in Callers : caller[c] = "idle"
    /\ MutexFree
    /\ mQuit' = TRUE
    /\ dtor' = "notify"
    /\ UNCHANGED <<now, timerVars, mCancelTimers, mLastTimerId, threadVars, caller, histVars>>

NotifiedByDtor == Notified

DtorNotify ==
    /\ dtor = "notify"
    /\ loop' = NotifiedByDtor
    /\ dtor' = "join"
    /\ UNCHANGED <<now, timerVars, mCancelTimers, mQuit, mLastTimerId, cur, wakeAt, caller,
                   histVars>>

\* join, then clearTimers.
DtorClear ==
    /\ dtor = "join"
    /\ loop = "exit"
    /\ deleted' = deleted \cup mTimerQueue
    /\ mTimerQueue' = {}
    /\ mCancelTimers' = {}
    /\ dtor' = "done"
    /\ UNCHANGED <<now, deadline, interval, mQuit, mLastTimerId, threadVars, caller, histVars>>
------------------------------------------------------------------------------
Loop ==
    \/ LoopLock
    \/ LoopExit
    \/ LoopWait
    \/ \E t \in Ids : LoopPurge(t) \/ LoopWaitFor(t) \/ LoopFire(t)
    \/ LoopRequeue
    \/ LoopDrop
    \/ LoopRecheck
    \/ LoopTimeout

Call(c) ==
    \/ \E delay \in 0..MaxDelay, ival \in Intervals : AddTimer(c, delay, ival)
    \/ \E t \in Ids : RemoveTimer(c, t)
    \/ CallerNotify(c)

Next ==
    \/ Tick
    \/ Loop
    \/ SpuriousWakeup
    \/ \E c \in Callers : Call(c)
    \/ DtorQuit
    \/ DtorNotify
    \/ DtorClear

Spec == Init /\ [][Next]_vars

\* The clock advances, the thread runs and callbacks return, a call once begun
\* is completed.  Nobody has to add, to remove or to destroy.
Fairness ==
    /\ WF_vars(Tick)
    /\ WF_vars(Loop)
    /\ \A c \in Callers : WF_vars(CallerNotify(c))
    /\ WF_vars(DtorNotify)
    /\ WF_vars(DtorClear)

FairSpec == Spec /\ Fairness
------------------------------------------------------------------------------
TypeOK ==
    /\ now \in 0..Horizon
    /\ mTimerQueue \in SUBSET Ids
    /\ mCancelTimers \in SUBSET Ids
    /\ mQuit \in BOOLEAN
    /\ mLastTimerId \in 0..MaxTimers
    /\ deadline \in [Ids -> Nat]
    /\ interval \in [Ids -> Nat]
    /\ deleted \in SUBSET Ids
    /\ loop \in {"lock", "pass", "wait", "recheck", "waitFor", "fire", "exit"}
    /\ cur \in 0..MaxTimers
    /\ wakeAt \in Nat
    /\ caller \in [Callers -> {"idle", "notify"}]
    /\ dtor \in {"none", "notify", "join", "done"}
    /\ first \in [Ids -> Nat]
    /\ fires \in [Ids -> Nat]
    /\ removed \in SUBSET Ids

\* Every timer that addTimer allocated is queued, in a callback, or deleted, in
\* exactly one of the three, so none is deleted twice or used after its delete;
\* and when the destructor has returned all of them are deleted.
TimerOwnership ==
    /\ mTimerQueue \cap deleted = {}
    /\ cur \notin mTimerQueue \cup deleted
    /\ loop = "fire" <=> cur # 0
    /\ mTimerQueue \cup deleted \cup ({cur} \ {0}) = 1..mLastTimerId
    /\ dtor = "done" => deleted = 1..mLastTimerId

\* After removeTimer has returned, and after the destructor has set mQuit, no
\* callback of the timer begins (test testRemoveTimer, wintimer.cpp:72-77),
\* although the cancel only leaves a note that the thread erases later.
NeverFiresAgain ==
    [][\A t \in Ids : t \in removed \/ mQuit => fires'[t] = fires[t]]_vars

\* The callback number k+1 of a timer does not begin before first + k * interval.
FiresOnSchedule ==
    [][\A t \in Ids : fires'[t] # fires[t] => now >= first[t] + fires[t] * interval[t]]_vars

\* A queued timer stands exactly at its next period: late callbacks neither skip
\* periods nor shift the ones that follow (updateTimerStamp adds the interval to
\* the deadline, not to the time of the callback).
NoDrift == \A t \in mTimerQueue : deadline[t] = first[t] + fires[t] * interval[t]

AboutToNotify == \E c \in Callers : caller[c] = "notify"

\* The thread never sleeps past the earliest deadline, also when that timer was
\* added while it slept: a notify is on its way.
NoOversleep ==
    /\ loop = "wait" /\ ~AboutToNotify => mTimerQueue = {}
    /\ loop = "waitFor" /\ ~AboutToNotify =>
          \A t \in mTimerQueue : wakeAt <= deadline[t]

\* A timer whose deadline comes leaves the queue: it fires, or it was cancelled.
DueTimerLeaves ==
    \A t \in Ids : (t \in mTimerQueue /\ deadline[t] <= Horizon) ~> (t \notin mTimerQueue)

\* The destructor returns, whatever the thread is doing when it is called.
DtorReturns == (dtor = "notify") ~> (dtor = "done")

\* The manager implements the abstract timer service.
Service == INSTANCE TimerService WITH
    known   <- 1..mLastTimerId,
    armed   <- (mTimerQueue \cup ({cur} \ {0})) \ removed,
    firing  <- cur,
    open    <- ~mQuit,
    NoTimer <- 0

\* addTimer, removeTimer, the loop and the destructor, with everything that runs
\* between them, look to the owner of a callback like a service that runs one
\* callback at a time, none of a timer once removed, and none after it closed.
ImplementsTimerService == Service!TInit /\ [][Service!TNext(Ids)]_(Service!tvars)
==============================================================================
