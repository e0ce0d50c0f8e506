-------------------------- MODULE LinuxTimerManager --------------------------
(***************************************************************************)
(* src/timer/linux/TimerManager.cpp: timers in a priority queue and one    *)
(* timerfd that the poller waits on.  Everything runs on the thread of the *)
(* event loop, so there is no lock, and the hard part is what handlers do  *)
(* to the queue: other handlers between select and handleRead, and the     *)
(* timer callbacks inside the loop of handleTimerEvent, which calls the    *)
(* timer while it is still in the queue and pops "the top" afterwards.     *)
(*                                                                         *)
(* Nobody reads the timerfd: it stays readable until timerfd_settime, so   *)
(* it is readable exactly when its it_value has passed.  A timer is its id.*)
(***************************************************************************)
EXTENDS Integers

CONSTANTS MaxTimers,  \* bound: calls of addTimer
          Intervals,  \* intervals in use; 0 is a timer that fires once
          MaxDelay,   \* a timestamp is at most so far ahead
          Horizon     \* bound: the last instant of the clock

ASSUME LinuxTimerAssumption ==
    /\ MaxTimers \in Nat
    /\ Intervals \subseteq Nat
    /\ MaxDelay \in Nat
    /\ Horizon \in Nat \ {0}

Ids == 1..MaxTimers
Disarmed == 0

VARIABLES now,
          mTimerQueue, mCancelTimers, mLastTimerId,
          deadline, interval,  \* mTimestamp and mTimeInterval of each timer
          deleted,             \* timers that were deleted
          alarm,               \* it_value of the timerfd
          loop,                \* where the event loop is
          cur, timePoint,      \* the locals of handleTimerEvent
          fires,               \* history: number of callbacks begun
          removed,             \* history: ids given to removeTimer
          misused              \* history: did a callback remove its own timer, or
                               \* add one that is due before its own, or was
                               \* the manager destroyed during an iteration?

vars == <<now, mTimerQueue, mCancelTimers, mLastTimerId, deadline, interval, deleted,
          alarm, loop, cur, timePoint, fires, removed, misused>>

Init ==
    /\ now = 1
    /\ mTimerQueue = {}
    /\ mCancelTimers = {}
    /\ mLastTimerId = 0
    /\ deadline = [t \in Ids |-> 0]
    /\ interval = [t \in Ids |-> 0]
    /\ deleted = {}
    /\ alarm = Disarmed
    /\ loop = "select"
    /\ cur = 0
    /\ timePoint = 0
    /\ fires = [t \in Ids |-> 0]
    /\ removed = {}
    /\ misused = FALSE

Tick ==
    /\ now < Horizon
    /\ now' = now + 1
    /\ UNCHANGED <<mTimerQueue, mCancelTimers, mLastTimerId, deadline, interval, deleted,
                   alarm, loop, cur, timePoint, fires, removed, misused>>
------------------------------------------------------------------------------
\* May t be above u in the heap?  Equal deadlines come in any order, but nothing
\* passes the timer whose callback is running, which is at the root: push_heap
\* moves a new element up past greater ones only.
MayPrecede(t, u, due) == due[t] < due[u] \/ (due[t] = due[u] /\ u # cur)
TopsOf(Q, due) == {t \in Q : \A u \in Q \ {t} : MayPrecede(t, u, due)}

\* The cancelled timers that modifyTimeout pops before it meets one that is not:
\* all that must come before the others, and any that may.
Purges(Q, C, due) ==
    {P \in SUBSET (Q \cap C) :
        \A t \in Q \cap C :
            /\ t \in P => \A u \in Q \ C : MayPrecede(t, u, due)
            /\ t \notin P => \E u \in Q \ C : MayPrecede(u, t, due)}

\* modifyTimeout on the queue Q with the cancelled ids C.
NoAlarm(Q, due) == {alarm}
RelativeAlarms(Q, due) ==
    IF Q = {} THEN {Disarmed} ELSE {due[t] - now : t \in TopsOf(Q, due)}
Alarms(Q, due) == IF Q = {} THEN {Disarmed} ELSE {due[t] : t \in TopsOf(Q, due)}

ModifyTimeout(Q, C, due) ==
    \E P \in Purges(Q, C, due) :
        /\ mTimerQueue' = Q \ P
        /\ mCancelTimers' = C \ P
        /\ deleted' = deleted \cup P
        /\ alarm' \in Alarms(Q \ P, due)

\* Code outside handleTimerEvent, or a timer callback, calls addTimer or removeTimer.
MayCall == loop \in {"select", "ready", "callback"}

PostIncrement == mLastTimerId
NewId == mLastTimerId + 1

AddTimer(when, ival) ==
    /\ MayCall
    /\ mLastTimerId < MaxTimers
    /\ mLastTimerId' = mLastTimerId + 1
    /\ deadline' = [deadline EXCEPT ![NewId] = when]
    /\ interval' = [interval EXCEPT ![NewId] = ival]
    /\ misused' = (misused \/ (loop = "callback" /\ when < deadline[cur]))
    /\ ModifyTimeout(mTimerQueue \cup {NewId}, mCancelTimers, deadline')
    /\ UNCHANGED <<now, loop, cur, timePoint, fires, removed>>

RemoveTimer(t) ==
    /\ MayCall
    /\ t <= mLastTimerId
    /\ removed' = removed \cup {t}
    /\ misused' = (misused \/ (loop = "callback" /\ t = cur))
    /\ ModifyTimeout(mTimerQueue, mCancelTimers \cup {t}, deadline)
    /\ UNCHANGED <<now, mLastTimerId, deadline, interval, loop, cur, timePoint, fires>>

\* ~TimerManager deletes the queued timers and takes the timerfd from the poller.
\* Within an iteration that is too late: the list of the poller, or the loop of
\* handleTimerEvent, goes on with what is gone.
Destroy ==
    /\ MayCall
    /\ mTimerQueue' = {}
    /\ deleted' = deleted \cup mTimerQueue
    /\ loop' = IF loop = "select" THEN "gone" ELSE "astray"
    /\ misused' = (misused \/ loop # "select")
    /\ UNCHANGED <<now, mCancelTimers, mLastTimerId, deadline, interval, alarm, cur, timePoint,
                   fires, removed>>
------------------------------------------------------------------------------
\* SelectPoller::handleEvent: select reports the timerfd, and the handlers of
\* other descriptors may run before handleRead does.
Select ==
    /\ loop = "select"
    /\ alarm # Disarmed
    /\ alarm <= now
    /\ loop' = "ready"
    /\ UNCHANGED <<now, mTimerQueue, mCancelTimers, mLastTimerId, deadline, interval,
                   deleted, alarm, cur, timePoint, fires, removed, misused>>

HandleRead ==
    /\ loop = "ready"
    /\ loop' = "pass"
    /\ timePoint' = now
    /\ UNCHANGED <<now, mTimerQueue, mCancelTimers, mLastTimerId, deadline, interval,
                   deleted, alarm, cur, fires, removed, misused>>

NeverCancelled(t) == FALSE
Cancelled(t) == t \in mCancelTimers

DropCancelled(t) ==
    /\ loop = "pass"
    /\ t \in TopsOf(mTimerQueue, deadline)
    /\ Cancelled(t)
    /\ mTimerQueue' = mTimerQueue \ {t}
    /\ mCancelTimers' = mCancelTimers \ {t}
    /\ deleted' = deleted \cup {t}
    /\ UNCHANGED <<now, mLastTimerId, deadline, interval, alarm, loop, cur, timePoint,
                   fires, removed, misused>>

\* The callback begins; its timer is still in the queue.
UpdateThenFire(t) ==
    /\ loop = "pass"
    /\ t \in TopsOf(mTimerQueue, deadline)
    /\ ~Cancelled(t)
    /\ deadline[t] <= timePoint
    /\ deadline' = [deadline EXCEPT ![t] = @ + interval[t]]
    /\ loop' = "callback"
    /\ cur' = t
    /\ fires' = [fires EXCEPT ![t] = @ + 1]
    /\ UNCHANGED <<now, mTimerQueue, mCancelTimers, mLastTimerId, interval,
                   deleted, alarm, timePoint, removed, misused>>

Fire(t) ==
    /\ loop = "pass"
    /\ t \in TopsOf(mTimerQueue, deadline)
    /\ ~Cancelled(t)
    /\ deadline[t] <= timePoint
    /\ loop' = "callback"
    /\ cur' = t
    /\ fires' = [fires EXCEPT ![t] = @ + 1]
    /\ UNCHANGED <<now, mTimerQueue, mCancelTimers, mLastTimerId, deadline, interval,
                   deleted, alarm, timePoint, removed, misused>>

\* pop, and push again when the timer repeats.  A timer that does not repeat is
\* popped and never deleted.
NextDeadline == [deadline EXCEPT ![cur] = @ + interval[cur]]
NeverRepeats == FALSE
Repeats == interval[cur] > 0

Popped ==
    /\ loop = "callback"
    /\ cur \in TopsOf(mTimerQueue, deadline)
    /\ mTimerQueue' = IF Repeats THEN mTimerQueue ELSE mTimerQueue \ {cur}
    /\ deadline' = NextDeadline
    /\ loop' = "pass"
    /\ cur' = 0
    /\ UNCHANGED <<now, mCancelTimers, mLastTimerId, interval, deleted, alarm, timePoint,
                   fires, removed, misused>>

\* The top is another timer, or the queue is empty: pop takes what it should not,
\* and what follows uses a timer that was deleted or is in the queue twice.
PoppedAnother ==
    /\ loop = "callback"
    /\ cur \notin TopsOf(mTimerQueue, deadline)
    /\ loop' = "astray"
    /\ UNCHANGED <<now, mTimerQueue, mCancelTimers, mLastTimerId, deadline, interval,
                   deleted, alarm, cur, timePoint, fires, removed, misused>>

\* The loop ends at a timer that is not due yet, or with the queue empty.
AllHandled ==
    \/ mTimerQueue = {}
    \/ \E t \in TopsOf(mTimerQueue, deadline) : ~Cancelled(t) /\ deadline[t] > timePoint

Leave ==
    /\ loop = "pass"
    /\ AllHandled
    /\ ModifyTimeout(mTimerQueue, mCancelTimers, deadline)
    /\ loop' = "select"
    /\ timePoint' = 0
    /\ UNCHANGED <<now, mLastTimerId, deadline, interval, cur, fires, removed, misused>>

HandleTimerEvent ==
    \/ \E t \in Ids : DropCancelled(t) \/ Fire(t)
    \/ Popped
    \/ PoppedAnother
    \/ Leave

Next ==
    \/ Tick
    \/ \E when \in 1..(now + MaxDelay), ival \in Intervals : AddTimer(when, ival)
    \/ \E t \in Ids : RemoveTimer(t)
    \/ Destroy
    \/ Select
    \/ HandleRead
    \/ HandleTimerEvent

Spec == Init /\ [][Next]_vars

\* The clock advances, the event loop goes on and callbacks return; nobody has to
\* add or remove a timer.
Fairness == WF_vars(Tick) /\ WF_vars(Select \/ HandleRead \/ HandleTimerEvent)

FairSpec == Spec /\ Fairness
------------------------------------------------------------------------------
TypeOK ==
    /\ now \in 1..Horizon
    /\ mTimerQueue \in SUBSET Ids
    /\ mCancelTimers \in SUBSET Ids
    /\ mLastTimerId \in 0..MaxTimers
    /\ deadline \in [Ids -> Nat]
    /\ interval \in [Ids -> Nat]
    /\ deleted \in SUBSET Ids
    /\ alarm \in Nat
    /\ loop \in {"select", "ready", "pass", "callback", "gone", "astray"}
    /\ cur \in 0..MaxTimers
    /\ timePoint \in 0..Horizon
    /\ fires \in [Ids -> Nat]
    /\ removed \in SUBSET Ids
    /\ misused \in BOOLEAN

\* When the poller waits, the timerfd is set for the next timer that will fire:
\* no timer is slept over, whoever added or removed what, and the loop does not
\* spin on a descriptor that nobody reads while no timer is due.
AlarmIsNextDeadline ==
    loop \in {"select", "ready"} =>
        \/ mTimerQueue = {} /\ alarm = Disarmed
        \/ /\ alarm # Disarmed
           /\ \A t \in mTimerQueue : alarm <= deadline[t]
           /\ \E t \in mTimerQueue \ mCancelTimers : alarm = deadline[t]

\* A timer leaves the queue only when it was removed, or has fired and does not
\* repeat, until the manager is destroyed; pops and purges never take another one
\* along.
NoTimerLost ==
    /\ loop \notin {"gone", "astray"} => deleted \subseteq removed
    /\ mTimerQueue \cap deleted = {}
    /\ \A t \in (1..mLastTimerId) \ (mTimerQueue \cup deleted) :
          fires[t] = 1 /\ interval[t] = 0

\* After removeTimer no further callback of the timer begins.
NeverFiresAgain == [][\A t \in removed : fires'[t] = fires[t]]_vars

\* The pop after a callback (115, 116) takes the timer that fired, unless a
\* callback removed its own timer or added one due before its own, and nothing uses
\* a manager that is gone unless a handler or a callback destroyed it.
OnlyMisuseBreaks == loop = "astray" => misused

\* Until a handler's misuse breaks it, this manager does for its callers what the one of
\* Windows does, without a lock: callbacks begin one at a time and only of timers that
\* were added and not removed, and a timer ends only when it was removed, does not
\* repeat, or with the manager.  The destructor closes it and leaves what was armed.
Service == INSTANCE TimerService WITH
    NoTimer <- 0,
    known   <- 1..mLastTimerId,
    armed   <- (mTimerQueue \cup deleted) \ removed,
    firing  <- IF loop = "callback" THEN cur ELSE 0,
    open    <- loop # "gone"
ImplementsTimerService ==
    Service!TInit /\ [][Service!TNext(Ids) \/ loop' = "astray"]_(Service!tvars)

\* A due timer fires or is removed.  Callbacks that add timers and a clock that
\* advances during handleTimerEvent do not keep it from it.
DueTimerLeaves ==
    \A t \in Ids : (t \in mTimerQueue /\ deadline[t] <= Horizon)
        ~> (deadline[t] > Horizon \/ t \notin mTimerQueue \/ loop = "astray")
==============================================================================
