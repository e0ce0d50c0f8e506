--------------------------- MODULE LinuxTimerProofs ---------------------------
(***************************************************************************)
(* The safety properties of LinuxTimerManager, for any number of timers,    *)
(* and that it implements TimerService.                                    *)
(***************************************************************************)
EXTENDS LinuxTimerManager, TLAPS

\* Ids are given out in order, and a removed timer that is still queued is marked.
IdInv ==
    /\ mTimerQueue \subseteq 1..mLastTimerId
    /\ \A t \in mTimerQueue : deadline[t] > 0
    /\ mCancelTimers \subseteq removed
    /\ removed \subseteq 1..mLastTimerId
    /\ removed \cap mTimerQueue \subseteq mCancelTimers

\* A timer that fires once and is still queued has not fired, unless it is firing.
FiresInv ==
    /\ \A t \in Ids : t > mLastTimerId => fires[t] = 0
    /\ \A t \in mTimerQueue : interval[t] = 0 /\ t # cur => fires[t] = 0
    /\ loop = "callback" /\ interval[cur] = 0 => fires[cur] = 1

\* The timer that is firing is the top of the queue, as long as callbacks behave.
CallbackInv ==
    /\ loop \in {"select", "ready", "pass"} => cur = 0
    /\ loop = "callback" => cur \in 1..mLastTimerId
    /\ loop = "callback" /\ ~misused =>
          cur \in TopsOf(mTimerQueue, deadline) \ mCancelTimers

IInv ==
    /\ TypeOK
    /\ AlarmIsNextDeadline
    /\ NoTimerLost
    /\ OnlyMisuseBreaks
    /\ IdInv
    /\ FiresInv
    /\ CallbackInv
------------------------------------------------------------------------------
\* What modifyTimeout leaves: it drops cancelled timers only, keeps a timer that is
\* the top and not cancelled, and sets the alarm to the next timer not cancelled.
Modified(Q, C, due) ==
    /\ mTimerQueue' \subseteq Q
    /\ Q \ C \subseteq mTimerQueue'
    /\ mCancelTimers' = C \ (Q \ mTimerQueue')
    /\ deleted' = deleted \cup (Q \ mTimerQueue')
    /\ alarm' \in Nat
    /\ \/ mTimerQueue' = {} /\ alarm' = Disarmed
       \/ /\ alarm' # Disarmed
          /\ \A t \in mTimerQueue' : alarm' <= due[t]
          /\ \E t \in mTimerQueue' \ mCancelTimers' : alarm' = due[t]
    /\ \A c \in TopsOf(Q, due) \ C : c \in TopsOf(mTimerQueue', due) \ mCancelTimers'

LEMMA ModifyFacts ==
    ASSUME NEW Q \in SUBSET Ids, NEW C \in SUBSET Ids, NEW due \in [Ids -> Nat],
           \A t \in Q : due[t] > 0,
           ModifyTimeout(Q, C, due)
    PROVE  Modified(Q, C, due)
<1>1. PICK P \in Purges(Q, C, due) :
          /\ mTimerQueue' = Q \ P
          /\ mCancelTimers' = C \ P
          /\ deleted' = deleted \cup P
          /\ alarm' \in Alarms(Q \ P, due)
    BY DEF ModifyTimeout
<1>2. P \subseteq Q \cap C
    BY <1>1 DEF Purges
<1>3. CASE Q \ P = {}
    BY <1>1, <1>2, <1>3 DEF Modified, Alarms, Disarmed, TopsOf
<1>4. CASE Q \ P # {}
    <2>1. PICK t \in TopsOf(Q \ P, due) : alarm' = due[t]
        BY <1>1, <1>4 DEF Alarms
    <2>2. t \in Q \ P /\ t \in Ids /\ due[t] \in Nat /\ due[t] > 0
        BY <2>1 DEF TopsOf
    <2>3. \A u \in Q \ P : due[t] <= due[u]
        <3> SUFFICES ASSUME NEW u \in Q \ P PROVE due[t] <= due[u]
            OBVIOUS
        <3>1. due[u] \in Nat
            OBVIOUS
        <3> QED BY <2>1, <2>2, <3>1 DEF TopsOf, MayPrecede
    <2>4. \E u \in Q \ C : due[u] = due[t]
        <3>1. CASE t \notin C
            BY <2>2, <3>1
        <3>2. CASE t \in C
            <4>1. PICK u \in Q \ C : MayPrecede(u, t, due)
                BY <1>1, <2>2, <3>2 DEF Purges
            <4>2. u \in Q \ P /\ due[u] \in Nat
                BY <1>2, <4>1
            <4> QED BY <2>2, <2>3, <4>1, <4>2 DEF MayPrecede
        <3> QED BY <3>1, <3>2
    <2>5. alarm' # Disarmed
        BY <2>1, <2>2 DEF Disarmed
    <2>6. \A c \in TopsOf(Q, due) \ C : c \in TopsOf(Q \ P, due) \ (C \ P)
        BY <1>2 DEF TopsOf
    <2>7. Q \ (Q \ P) = P
        BY <1>2
    <2>8. \E u \in (Q \ P) \ (C \ P) : alarm' = due[u]
        BY <1>2, <2>1, <2>4
    <2> QED BY <1>1, <1>2, <2>1, <2>2, <2>3, <2>5, <2>6, <2>7, <2>8 DEF Modified
<1> QED BY <1>3, <1>4

\* The types it leaves, for the steps that need no more.
LEMMA ModifyTypes ==
    ASSUME NEW Q \in SUBSET Ids, NEW C \in SUBSET Ids, NEW due \in [Ids -> Nat],
           \A t \in Q : due[t] > 0, deleted \in SUBSET Ids,
           ModifyTimeout(Q, C, due)
    PROVE  /\ mTimerQueue' \in SUBSET Ids /\ mCancelTimers' \in SUBSET Ids
           /\ alarm' \in Nat /\ deleted' \in SUBSET Ids
<1>1. Modified(Q, C, due)
    BY ModifyFacts, Zenon
<1> QED BY <1>1 DEF Modified

LEMMA AddFacts ==
    ASSUME TypeOK, IdInv, NEW when \in 1..(now + MaxDelay), NEW ival \in Intervals,
           AddTimer(when, ival)
    PROVE  /\ NewId \in Ids /\ NewId = mLastTimerId + 1 /\ mLastTimerId' = NewId
           /\ when \in Nat /\ when > 0 /\ ival \in Nat
           /\ deadline' \in [Ids -> Nat] /\ interval' \in [Ids -> Nat]
           /\ deadline'[NewId] = when
           /\ \A t \in Ids \ {NewId} : deadline'[t] = deadline[t] /\ interval'[t] = interval[t]
           /\ NewId \notin mTimerQueue /\ mTimerQueue \cup {NewId} \in SUBSET Ids
           /\ \A t \in mTimerQueue \cup {NewId} : deadline'[t] > 0
<1>1. NewId \in Ids /\ NewId = mLastTimerId + 1 /\ mLastTimerId' = NewId
    BY LinuxTimerAssumption DEF AddTimer, NewId, TypeOK, Ids
<1>2. when \in Nat /\ when > 0 /\ ival \in Nat
    BY LinuxTimerAssumption DEF TypeOK
<1>3. /\ deadline' \in [Ids -> Nat] /\ interval' \in [Ids -> Nat]
      /\ deadline'[NewId] = when
      /\ \A t \in Ids \ {NewId} : deadline'[t] = deadline[t] /\ interval'[t] = interval[t]
    BY <1>1, <1>2 DEF AddTimer, TypeOK
<1>4. NewId \notin mTimerQueue /\ mTimerQueue \cup {NewId} \in SUBSET Ids
    BY <1>1, LinuxTimerAssumption DEF TypeOK, IdInv
<1>5. \A t \in mTimerQueue \cup {NewId} : deadline'[t] > 0
    BY <1>2, <1>3, <1>4 DEF IdInv
<1> QED BY <1>1, <1>2, <1>3, <1>4, <1>5
------------------------------------------------------------------------------
LEMMA TypeStep == TypeOK /\ IdInv /\ [Next]_vars => TypeOK'
<1> SUFFICES ASSUME TypeOK, IdInv, [Next]_vars
             PROVE  TypeOK'
    OBVIOUS
<1>1. CASE Tick
    BY <1>1, LinuxTimerAssumption DEF Tick, TypeOK
<1>2. ASSUME NEW when \in 1..(now + MaxDelay), NEW ival \in Intervals, AddTimer(when, ival)
      PROVE  TypeOK'
    <2> DEFINE Q == mTimerQueue \cup {NewId}
    <2>1. /\ mLastTimerId' \in 0..MaxTimers
          /\ deadline' \in [Ids -> Nat] /\ interval' \in [Ids -> Nat]
          /\ Q \in SUBSET Ids /\ \A t \in Q : deadline'[t] > 0
        <3>1. NewId \in Ids /\ mLastTimerId' = NewId
            BY <1>2, AddFacts
        <3>2. mLastTimerId' \in 0..MaxTimers
            BY <3>1, LinuxTimerAssumption DEF Ids
        <3>3. /\ deadline' \in [Ids -> Nat] /\ interval' \in [Ids -> Nat]
              /\ Q \in SUBSET Ids /\ \A t \in Q : deadline'[t] > 0
            BY <1>2, AddFacts
        <3> QED BY <3>2, <3>3
    <2>2. ModifyTimeout(Q, mCancelTimers, deadline')
        BY <1>2 DEF AddTimer
    <2>3. mCancelTimers \in SUBSET Ids /\ deleted \in SUBSET Ids
        BY DEF TypeOK
    <2> HIDE DEF Q
    <2>4. /\ mTimerQueue' \in SUBSET Ids /\ mCancelTimers' \in SUBSET Ids
          /\ alarm' \in Nat /\ deleted' \in SUBSET Ids
        BY <2>1, <2>2, <2>3, ModifyTypes, Zenon
    <2>5. misused' \in BOOLEAN
        BY <1>2, Zenon DEF AddTimer, TypeOK
    <2>6. /\ now' \in 1..Horizon /\ loop' \in {"select", "ready", "pass", "callback", "gone", "astray"}
          /\ cur' \in 0..MaxTimers /\ timePoint' \in 0..Horizon
          /\ fires' \in [Ids -> Nat] /\ removed' \in SUBSET Ids
        BY <1>2 DEF AddTimer, TypeOK
    <2> QED BY <2>1, <2>4, <2>5, <2>6, Zenon DEF TypeOK
<1>3. ASSUME NEW t \in Ids, RemoveTimer(t)
      PROVE  TypeOK'
    <2>1. mCancelTimers \cup {t} \in SUBSET Ids /\ removed' \in SUBSET Ids
        BY <1>3 DEF RemoveTimer, TypeOK
    <2>a. ModifyTimeout(mTimerQueue, mCancelTimers \cup {t}, deadline)
        BY <1>3 DEF RemoveTimer
    <2>b. /\ mTimerQueue \in SUBSET Ids /\ deadline \in [Ids -> Nat]
          /\ \A u \in mTimerQueue : deadline[u] > 0
          /\ deleted \in SUBSET Ids
        BY DEF TypeOK, IdInv
    <2>2. /\ mTimerQueue' \in SUBSET Ids /\ mCancelTimers' \in SUBSET Ids
          /\ alarm' \in Nat /\ deleted' \in SUBSET Ids
        BY <2>1, <2>a, <2>b, ModifyTypes, Zenon
    <2>3. misused' \in BOOLEAN
        BY <1>3, Zenon DEF RemoveTimer, TypeOK
    <2>4. /\ now' \in 1..Horizon /\ loop' \in {"select", "ready", "pass", "callback", "gone", "astray"}
          /\ mLastTimerId' \in 0..MaxTimers /\ cur' \in 0..MaxTimers
          /\ timePoint' \in 0..Horizon /\ fires' \in [Ids -> Nat]
          /\ deadline' \in [Ids -> Nat] /\ interval' \in [Ids -> Nat]
        BY <1>3 DEF RemoveTimer, TypeOK
    <2> QED BY <2>1, <2>2, <2>3, <2>4, Zenon DEF TypeOK
<1>4. CASE Select
    BY <1>4 DEF Select, TypeOK
<1>5. CASE HandleRead
    BY <1>5 DEF HandleRead, TypeOK
<1>6. ASSUME NEW t \in Ids, DropCancelled(t)
      PROVE  TypeOK'
    BY <1>6 DEF DropCancelled, TypeOK
<1>7. ASSUME NEW t \in Ids, Fire(t)
      PROVE  TypeOK'
    <2>1. cur' \in 0..MaxTimers /\ fires' \in [Ids -> Nat]
        BY <1>7 DEF Fire, TypeOK, Ids
    <2> QED BY <1>7, <2>1 DEF Fire, TypeOK
<1>8. CASE Popped
    <2>1. deadline' \in [Ids -> Nat] /\ mTimerQueue' \in SUBSET Ids
        BY <1>8 DEF Popped, NextDeadline, TypeOK, TopsOf
    <2>2. 0 \in 0..MaxTimers
        BY LinuxTimerAssumption
    <2> QED BY <1>8, <2>1, <2>2 DEF Popped, TypeOK
<1>9. CASE PoppedAnother
    BY <1>9 DEF PoppedAnother, TypeOK
<1>10. CASE Leave
    <2>a. ModifyTimeout(mTimerQueue, mCancelTimers, deadline)
        BY <1>10 DEF Leave
    <2>b. /\ mTimerQueue \in SUBSET Ids /\ deadline \in [Ids -> Nat]
          /\ \A u \in mTimerQueue : deadline[u] > 0
          /\ mCancelTimers \in SUBSET Ids /\ deleted \in SUBSET Ids
        BY DEF TypeOK, IdInv
    <2>1. /\ mTimerQueue' \in SUBSET Ids /\ mCancelTimers' \in SUBSET Ids
          /\ alarm' \in Nat /\ deleted' \in SUBSET Ids
        BY <2>a, <2>b, ModifyTypes, Zenon
    <2>2. 0 \in 0..Horizon
        BY LinuxTimerAssumption
    <2>3. /\ now' \in 1..Horizon /\ loop' \in {"select", "ready", "pass", "callback", "gone", "astray"}
          /\ mLastTimerId' \in 0..MaxTimers /\ cur' \in 0..MaxTimers
          /\ timePoint' \in 0..Horizon /\ fires' \in [Ids -> Nat]
          /\ deadline' \in [Ids -> Nat] /\ interval' \in [Ids -> Nat]
          /\ removed' \in SUBSET Ids
        BY <1>10, <2>2 DEF Leave, TypeOK
    <2>4. misused' \in BOOLEAN
        BY <1>10, Zenon DEF Leave, TypeOK
    <2> QED BY <2>1, <2>3, <2>4, Zenon DEF TypeOK
<1>11. CASE Destroy
    <2>1. misused' \in BOOLEAN
        BY <1>11, Zenon DEF Destroy, TypeOK
    <2>2. /\ mTimerQueue' \in SUBSET Ids /\ deleted' \in SUBSET Ids
          /\ loop' \in {"select", "ready", "pass", "callback", "gone", "astray"}
        BY <1>11 DEF Destroy, TypeOK
    <2>3. UNCHANGED <<now, mCancelTimers, mLastTimerId, deadline, interval, alarm, cur, timePoint,
                      fires, removed>>
        BY <1>11 DEF Destroy
    <2> QED BY <2>1, <2>2, <2>3, Zenon DEF TypeOK
<1>12. CASE UNCHANGED vars
    BY <1>12 DEF vars, TypeOK
<1> QED BY <1>1, <1>2, <1>3, <1>4, <1>5, <1>6, <1>7, <1>8, <1>9, <1>10, <1>11, <1>12
        DEF Next, HandleTimerEvent
------------------------------------------------------------------------------
\* The three handlers that end in modifyTimeout, and what it leaves of their queue.
LEMMA AddModifies ==
    ASSUME TypeOK, IdInv, NEW when \in 1..(now + MaxDelay), NEW ival \in Intervals,
           AddTimer(when, ival)
    PROVE  Modified(mTimerQueue \cup {NewId}, mCancelTimers, deadline')
<1> DEFINE Q == mTimerQueue \cup {NewId}
<1>1. /\ Q \in SUBSET Ids /\ deadline' \in [Ids -> Nat]
      /\ \A t \in Q : deadline'[t] > 0
    BY AddFacts
<1>2. mCancelTimers \in SUBSET Ids
    BY DEF TypeOK
<1>3. ModifyTimeout(Q, mCancelTimers, deadline')
    BY DEF AddTimer
<1> HIDE DEF Q
<1>4. Modified(Q, mCancelTimers, deadline')
    BY <1>1, <1>2, <1>3, ModifyFacts, Zenon
<1> QED BY <1>4 DEF Q

LEMMA RemoveModifies ==
    ASSUME TypeOK, IdInv, NEW t \in Ids, RemoveTimer(t)
    PROVE  Modified(mTimerQueue, mCancelTimers \cup {t}, deadline)
<1>1. /\ mTimerQueue \in SUBSET Ids /\ deadline \in [Ids -> Nat]
      /\ \A u \in mTimerQueue : deadline[u] > 0
      /\ mCancelTimers \cup {t} \in SUBSET Ids
    BY DEF TypeOK, IdInv
<1>2. ModifyTimeout(mTimerQueue, mCancelTimers \cup {t}, deadline)
    BY DEF RemoveTimer
<1> QED BY <1>1, <1>2, ModifyFacts, Zenon

LEMMA LeaveModifies ==
    ASSUME TypeOK, IdInv, Leave
    PROVE  Modified(mTimerQueue, mCancelTimers, deadline)
<1>1. /\ mTimerQueue \in SUBSET Ids /\ deadline \in [Ids -> Nat]
      /\ \A u \in mTimerQueue : deadline[u] > 0
      /\ mCancelTimers \in SUBSET Ids
    BY DEF TypeOK, IdInv
<1>2. ModifyTimeout(mTimerQueue, mCancelTimers, deadline)
    BY DEF Leave
<1> QED BY <1>1, <1>2, ModifyFacts, Zenon
------------------------------------------------------------------------------
LEMMA AlarmStep == TypeOK /\ IdInv /\ AlarmIsNextDeadline /\ [Next]_vars => AlarmIsNextDeadline'
<1> SUFFICES ASSUME TypeOK, IdInv, AlarmIsNextDeadline, [Next]_vars
             PROVE  AlarmIsNextDeadline'
    OBVIOUS
<1>1. ASSUME NEW when \in 1..(now + MaxDelay), NEW ival \in Intervals, AddTimer(when, ival)
      PROVE  AlarmIsNextDeadline'
    BY <1>1, AddModifies DEF Modified, AlarmIsNextDeadline
<1>2. ASSUME NEW t \in Ids, RemoveTimer(t)
      PROVE  AlarmIsNextDeadline'
    <2>1. Modified(mTimerQueue, mCancelTimers \cup {t}, deadline)
        BY <1>2, RemoveModifies
    <2> QED BY <1>2, <2>1 DEF RemoveTimer, Modified, AlarmIsNextDeadline
<1>3. CASE Leave
    <2>1. Modified(mTimerQueue, mCancelTimers, deadline)
        BY <1>3, LeaveModifies
    <2> QED BY <1>3, <2>1 DEF Leave, Modified, AlarmIsNextDeadline
<1>4. CASE Tick \/ Select \/ UNCHANGED vars
    BY <1>4 DEF Tick, Select, vars, AlarmIsNextDeadline
<1>5. ASSUME NEW t \in Ids, DropCancelled(t) \/ Fire(t)
      PROVE  AlarmIsNextDeadline'
    BY <1>5 DEF DropCancelled, Fire, AlarmIsNextDeadline
<1>6. CASE HandleRead \/ Popped \/ PoppedAnother
    BY <1>6 DEF HandleRead, Popped, PoppedAnother, AlarmIsNextDeadline
<1>7. CASE Destroy
    BY <1>7 DEF Destroy, AlarmIsNextDeadline
<1> QED BY <1>1, <1>2, <1>3, <1>4, <1>5, <1>6, <1>7 DEF Next, HandleTimerEvent

LEMMA QueueStep == IInv /\ [Next]_vars => IdInv' /\ NoTimerLost'
<1> SUFFICES ASSUME IInv, [Next]_vars
             PROVE  IdInv' /\ NoTimerLost'
    OBVIOUS
<1> USE DEF IInv
<1>1. ASSUME NEW when \in 1..(now + MaxDelay), NEW ival \in Intervals, AddTimer(when, ival)
      PROVE  IdInv' /\ NoTimerLost'
    <2>1. Modified(mTimerQueue \cup {NewId}, mCancelTimers, deadline')
        BY <1>1, AddModifies
    <2>2. /\ NewId \in Ids /\ NewId = mLastTimerId + 1 /\ mLastTimerId' = NewId
          /\ \A t \in Ids \ {NewId} : interval'[t] = interval[t]
          /\ \A t \in mTimerQueue \cup {NewId} : deadline'[t] > 0
        BY <1>1, AddFacts
    <2>3. /\ removed' = removed /\ fires' = fires /\ mLastTimerId \in Nat
          /\ loop \notin {"gone", "astray"}
        BY <1>1 DEF AddTimer, MayCall, TypeOK
    <2>4. 1..mLastTimerId' = (1..mLastTimerId) \cup {NewId} /\ NewId \notin 1..mLastTimerId
        BY <2>2, <2>3
    <2>5. /\ mTimerQueue' \subseteq mTimerQueue \cup {NewId}
          /\ (mTimerQueue \cup {NewId}) \ mCancelTimers \subseteq mTimerQueue'
          /\ mCancelTimers' = mCancelTimers \ ((mTimerQueue \cup {NewId}) \ mTimerQueue')
          /\ deleted' = deleted \cup ((mTimerQueue \cup {NewId}) \ mTimerQueue')
        BY <2>1 DEF Modified
    <2>6. NewId \notin mTimerQueue \cup removed \cup mCancelTimers \cup deleted
        BY <2>3, <2>4 DEF IdInv, NoTimerLost
    <2>7. NewId \in mTimerQueue'
        BY <2>5, <2>6
    <2>8. IdInv'
        <3>1. mTimerQueue' \subseteq 1..mLastTimerId' /\ removed' \subseteq 1..mLastTimerId'
            BY <2>3, <2>4, <2>5 DEF IdInv
        <3>2. \A t \in mTimerQueue' : deadline'[t] > 0
            BY <2>2, <2>5
        <3>3. mCancelTimers' \subseteq removed' /\ removed' \cap mTimerQueue' \subseteq mCancelTimers'
            BY <2>3, <2>5, <2>6 DEF IdInv
        <3> QED BY <3>1, <3>2, <3>3 DEF IdInv
    <2>9. NoTimerLost'
        <3>1. deleted' \subseteq removed' /\ mTimerQueue' \cap deleted' = {}
            BY <2>3, <2>5, <2>6 DEF IdInv, NoTimerLost
        <3>2. ASSUME NEW t \in (1..mLastTimerId') \ (mTimerQueue' \cup deleted')
              PROVE  fires'[t] = 1 /\ interval'[t] = 0
            <4>1. t \in (1..mLastTimerId) \ (mTimerQueue \cup deleted) /\ t # NewId
                BY <2>4, <2>5, <2>7
            <4>2. t \in Ids
                BY <2>2, <2>3, <4>1, LinuxTimerAssumption DEF TypeOK, Ids
            <4>3. \A u \in (1..mLastTimerId) \ (mTimerQueue \cup deleted) :
                      fires[u] = 1 /\ interval[u] = 0
                BY Zenon DEF NoTimerLost
            <4> QED BY <2>2, <2>3, <4>1, <4>2, <4>3
        <3> QED BY <3>1, <3>2 DEF NoTimerLost
    <2> QED BY <2>8, <2>9
<1>2. ASSUME NEW t \in Ids, RemoveTimer(t)
      PROVE  IdInv' /\ NoTimerLost'
    <2>1. Modified(mTimerQueue, mCancelTimers \cup {t}, deadline)
        BY <1>2, RemoveModifies
    <2>2. /\ removed' = removed \cup {t} /\ t \in 1..mLastTimerId
          /\ UNCHANGED <<mLastTimerId, deadline, interval, fires, loop>>
        BY <1>2 DEF RemoveTimer, TypeOK, Ids
    <2> QED BY <2>1, <2>2 DEF Modified, IdInv, NoTimerLost
<1>3. CASE Leave
    <2>1. Modified(mTimerQueue, mCancelTimers, deadline)
        BY <1>3, LeaveModifies
    <2> QED BY <1>3, <2>1 DEF Leave, Modified, IdInv, NoTimerLost
<1>4. CASE Tick \/ Select \/ HandleRead \/ PoppedAnother \/ UNCHANGED vars
    BY <1>4 DEF Tick, Select, HandleRead, PoppedAnother, vars, IdInv, NoTimerLost
<1>5. ASSUME NEW t \in Ids, DropCancelled(t)
      PROVE  IdInv' /\ NoTimerLost'
    BY <1>5 DEF DropCancelled, Cancelled, TopsOf, IdInv, NoTimerLost
<1>6. ASSUME NEW t \in Ids, Fire(t)
      PROVE  IdInv' /\ NoTimerLost'
    <2>1. t \in mTimerQueue /\ \A u \in Ids \ {t} : fires'[u] = fires[u]
        BY <1>6 DEF Fire, TopsOf, TypeOK
    <2> QED BY <1>6, <2>1 DEF Fire, IdInv, NoTimerLost, TypeOK, Ids
<1>7. CASE Popped
    <2>1. cur \in 1..mLastTimerId /\ cur \in Ids
        BY <1>7 DEF Popped, CallbackInv, TypeOK, TopsOf
    <2>2. \A t \in mTimerQueue : deadline'[t] > 0
        <3>1. \A t \in mTimerQueue : deadline'[t] \in Nat /\ deadline'[t] >= deadline[t]
            BY <1>7, <2>1 DEF Popped, NextDeadline, TypeOK
        <3> QED BY <3>1 DEF IdInv, TypeOK
    <2>3. mTimerQueue' \subseteq mTimerQueue /\ cur \in mTimerQueue
        BY <1>7 DEF Popped, TopsOf
    <2>4. /\ UNCHANGED <<mCancelTimers, mLastTimerId, interval, deleted, fires, removed>>
          /\ loop = "callback"
        BY <1>7 DEF Popped
    <2>5. IdInv'
        BY <2>2, <2>3, <2>4 DEF IdInv
    <2>6. cur \notin mTimerQueue' => fires[cur] = 1 /\ interval[cur] = 0
        BY <1>7, <2>1, <2>3 DEF Popped, Repeats, FiresInv, TypeOK
    <2>7. \A t \in mTimerQueue \ mTimerQueue' : t = cur
        BY <1>7 DEF Popped
    <2>8. NoTimerLost'
        BY <2>3, <2>4, <2>6, <2>7 DEF NoTimerLost
    <2> QED BY <2>5, <2>8
<1>8. CASE Destroy
    BY <1>8 DEF Destroy, IdInv, NoTimerLost
<1> QED BY <1>1, <1>2, <1>3, <1>4, <1>5, <1>6, <1>7, <1>8 DEF Next, HandleTimerEvent

LEMMA FiresStep == IInv /\ [Next]_vars => FiresInv'
<1> SUFFICES ASSUME IInv, [Next]_vars
             PROVE  FiresInv'
    OBVIOUS
<1> USE DEF IInv
<1>1. ASSUME NEW when \in 1..(now + MaxDelay), NEW ival \in Intervals, AddTimer(when, ival)
      PROVE  FiresInv'
    <2>1. Modified(mTimerQueue \cup {NewId}, mCancelTimers, deadline')
        BY <1>1, AddModifies
    <2>2. mTimerQueue' \subseteq mTimerQueue \cup {NewId}
        BY <2>1 DEF Modified
    <2>3. /\ NewId \in Ids /\ NewId = mLastTimerId + 1 /\ mLastTimerId' = NewId
          /\ \A t \in Ids \ {NewId} : interval'[t] = interval[t]
        BY <1>1, AddFacts
    <2>4. UNCHANGED <<fires, loop, cur>> /\ mLastTimerId \in Nat /\ mTimerQueue \subseteq Ids
        BY <1>1 DEF AddTimer, TypeOK
    <2>5. \A t \in Ids : t > mLastTimerId' => fires'[t] = 0
        BY <2>3, <2>4 DEF FiresInv, Ids
    <2>6. \A t \in mTimerQueue' : interval'[t] = 0 /\ t # cur' => fires'[t] = 0
        BY <2>2, <2>3, <2>4 DEF FiresInv
    <2>7. loop' = "callback" /\ interval'[cur'] = 0 => fires'[cur'] = 1
        <3>1. loop = "callback" => cur \in Ids \ {NewId}
            <4>1. CASE loop = "callback"
                <5>1. cur \in 1..mLastTimerId
                    BY <4>1 DEF CallbackInv
                <5> QED BY <2>3, <2>4, <5>1, LinuxTimerAssumption DEF Ids
            <4> QED BY <4>1
        <3> QED BY <2>3, <2>4, <3>1 DEF FiresInv
    <2> QED BY <2>5, <2>6, <2>7 DEF FiresInv
<1>2. ASSUME NEW t \in Ids, RemoveTimer(t)
      PROVE  FiresInv'
    <2>1. Modified(mTimerQueue, mCancelTimers \cup {t}, deadline)
        BY <1>2, RemoveModifies
    <2>2. mTimerQueue' \subseteq mTimerQueue
        BY <2>1 DEF Modified
    <2> QED BY <1>2, <2>2 DEF RemoveTimer, FiresInv
<1>3. CASE Leave
    <2>1. Modified(mTimerQueue, mCancelTimers, deadline)
        BY <1>3, LeaveModifies
    <2>2. mTimerQueue' \subseteq mTimerQueue
        BY <2>1 DEF Modified
    <2> QED BY <1>3, <2>2 DEF Leave, FiresInv
<1>4. CASE Tick \/ Select \/ HandleRead \/ PoppedAnother \/ UNCHANGED vars
    BY <1>4 DEF Tick, Select, HandleRead, PoppedAnother, vars, FiresInv
<1>5. ASSUME NEW t \in Ids, DropCancelled(t)
      PROVE  FiresInv'
    BY <1>5 DEF DropCancelled, FiresInv
<1>6. ASSUME NEW t \in Ids, Fire(t)
      PROVE  FiresInv'
    <2>1. /\ t \in mTimerQueue /\ t <= mLastTimerId /\ cur = 0 /\ t # cur
        BY <1>6 DEF Fire, TopsOf, IdInv, CallbackInv, Ids, TypeOK
    <2>2. /\ cur' = t /\ UNCHANGED <<mTimerQueue, mLastTimerId, interval>>
          /\ fires'[t] = fires[t] + 1 /\ \A u \in Ids \ {t} : fires'[u] = fires[u]
        BY <1>6 DEF Fire, TypeOK
    <2>3. \A u \in Ids : u > mLastTimerId' => fires'[u] = 0
        <3>1. \A u \in Ids : u > mLastTimerId => u # t
            BY <2>1 DEF TypeOK, Ids
        <3> QED BY <2>2, <3>1 DEF FiresInv
    <2>4. \A u \in mTimerQueue' : interval'[u] = 0 /\ u # cur' => fires'[u] = 0
        <3>1. \A u \in mTimerQueue : u \in Ids /\ u # cur
            BY <2>1 DEF TypeOK, Ids
        <3> QED BY <2>2, <3>1 DEF FiresInv
    <2>5. interval'[cur'] = 0 => fires'[cur'] = 1
        BY <2>1, <2>2 DEF FiresInv
    <2> QED BY <2>3, <2>4, <2>5 DEF FiresInv
<1>7. CASE Popped
    <2>1. mTimerQueue' \subseteq mTimerQueue /\ (interval[cur] = 0 => cur \notin mTimerQueue')
        BY <1>7 DEF Popped, Repeats
    <2>2. UNCHANGED <<mLastTimerId, interval, fires>> /\ loop' = "pass"
        BY <1>7 DEF Popped
    <2> QED BY <2>1, <2>2 DEF FiresInv
<1>8. CASE Destroy
    BY <1>8 DEF Destroy, FiresInv
<1> QED BY <1>1, <1>2, <1>3, <1>4, <1>5, <1>6, <1>7, <1>8 DEF Next, HandleTimerEvent

LEMMA TopStep == IInv /\ [Next]_vars => CallbackInv' /\ OnlyMisuseBreaks'
<1> SUFFICES ASSUME IInv, [Next]_vars
             PROVE  CallbackInv' /\ OnlyMisuseBreaks'
    OBVIOUS
<1> USE DEF IInv
<1>1. ASSUME NEW when \in 1..(now + MaxDelay), NEW ival \in Intervals, AddTimer(when, ival)
      PROVE  CallbackInv' /\ OnlyMisuseBreaks'
    <2>1. Modified(mTimerQueue \cup {NewId}, mCancelTimers, deadline')
        BY <1>1, AddModifies
    <2>2. /\ NewId \in Ids /\ NewId = mLastTimerId + 1 /\ mLastTimerId' = NewId
          /\ when \in Nat /\ deadline'[NewId] = when
          /\ \A t \in Ids \ {NewId} : deadline'[t] = deadline[t]
        BY <1>1, AddFacts
    <2>3. /\ UNCHANGED <<loop, cur>> /\ loop # "astray"
          /\ mLastTimerId \in 0..MaxTimers /\ mTimerQueue \subseteq Ids
        BY <1>1 DEF AddTimer, MayCall, TypeOK
    <2>4. ~misused' => ~misused /\ ~(loop = "callback" /\ when < deadline[cur])
        BY <1>1, Zenon DEF AddTimer
    <2>5. ASSUME loop = "callback", ~misused'
          PROVE  cur \in TopsOf(mTimerQueue', deadline') \ mCancelTimers'
        <3>1. cur \in TopsOf(mTimerQueue, deadline) \ mCancelTimers
            BY <2>4, <2>5 DEF CallbackInv
        <3>2. /\ cur \in mTimerQueue /\ cur \in Ids /\ cur # NewId
              /\ \A u \in mTimerQueue \ {cur} : MayPrecede(cur, u, deadline)
            BY <2>2, <2>3, <3>1 DEF TopsOf, IdInv
        <3>3. deadline'[cur] = deadline[cur] /\ deadline[cur] \in Nat
            BY <2>2, <3>2 DEF TypeOK
        <3>4. MayPrecede(cur, NewId, deadline')
            BY <2>2, <2>4, <2>5, <3>2, <3>3 DEF MayPrecede
        <3>5. \A u \in mTimerQueue \ {cur} : u # NewId => MayPrecede(cur, u, deadline')
            BY <2>2, <2>3, <3>2, <3>3 DEF MayPrecede
        <3>6. NewId \notin mTimerQueue
            BY <1>1, AddFacts
        <3>7. cur \in TopsOf(mTimerQueue \cup {NewId}, deadline') \ mCancelTimers
            BY <3>1, <3>2, <3>4, <3>5, <3>6 DEF TopsOf
        <3> QED BY <2>1, <3>7 DEF Modified
    <2>6. loop = "callback" => cur \in 1..mLastTimerId'
        BY <2>2, <2>3 DEF CallbackInv
    <2>7. CallbackInv'
        BY <2>3, <2>5, <2>6 DEF CallbackInv, TopsOf, MayPrecede
    <2> QED BY <2>3, <2>7 DEF OnlyMisuseBreaks
<1>2. ASSUME NEW t \in Ids, RemoveTimer(t)
      PROVE  CallbackInv' /\ OnlyMisuseBreaks'
    <2>1. Modified(mTimerQueue, mCancelTimers \cup {t}, deadline)
        BY <1>2, RemoveModifies
    <2>2. UNCHANGED <<loop, cur, deadline, mLastTimerId>> /\ loop # "astray"
        BY <1>2 DEF RemoveTimer, MayCall
    <2>3. ~misused' => ~misused /\ ~(loop = "callback" /\ t = cur)
        BY <1>2, Zenon DEF RemoveTimer
    <2>4. ASSUME loop = "callback", ~misused'
          PROVE  cur \in TopsOf(mTimerQueue', deadline) \ mCancelTimers'
        <3>1. cur \in TopsOf(mTimerQueue, deadline) \ (mCancelTimers \cup {t})
            BY <2>3, <2>4 DEF CallbackInv
        <3> QED BY <2>1, <3>1 DEF Modified
    <2>5. CallbackInv'
        BY <2>2, <2>4 DEF CallbackInv, TopsOf, MayPrecede
    <2> QED BY <2>2, <2>5 DEF OnlyMisuseBreaks
<1>3. CASE Leave
    BY <1>3 DEF Leave, CallbackInv, OnlyMisuseBreaks
<1>4. CASE Tick \/ Select \/ HandleRead \/ UNCHANGED vars
    BY <1>4 DEF Tick, Select, HandleRead, vars, CallbackInv, OnlyMisuseBreaks, TopsOf, MayPrecede
<1>5. ASSUME NEW t \in Ids, DropCancelled(t)
      PROVE  CallbackInv' /\ OnlyMisuseBreaks'
    BY <1>5 DEF DropCancelled, CallbackInv, OnlyMisuseBreaks
<1>6. ASSUME NEW t \in Ids, Fire(t)
      PROVE  CallbackInv' /\ OnlyMisuseBreaks'
    <2>1. /\ t \in TopsOf(mTimerQueue, deadline) \ mCancelTimers
          /\ cur' = t /\ loop' = "callback"
          /\ UNCHANGED <<mTimerQueue, mCancelTimers, deadline, mLastTimerId>>
        BY <1>6 DEF Fire, Cancelled
    <2>2. t \in 1..mLastTimerId /\ cur = 0
        BY <1>6, <2>1 DEF Fire, TopsOf, IdInv, CallbackInv
    <2>3. t \in mTimerQueue /\ \A u \in mTimerQueue \ {t} : MayPrecede(t, u, deadline)
        BY <2>1 DEF TopsOf
    <2>4. \A u \in mTimerQueue \ {t} : MayPrecede(t, u, deadline)'
        BY <2>1, <2>3 DEF MayPrecede
    <2>5. (t \in TopsOf(mTimerQueue, deadline))'
        BY <2>1, <2>3, <2>4 DEF TopsOf
    <2> QED BY <2>1, <2>2, <2>5 DEF CallbackInv, OnlyMisuseBreaks
<1>7. CASE Popped
    BY <1>7 DEF Popped, CallbackInv, OnlyMisuseBreaks
<1>8. CASE PoppedAnother
    <2>1. misused
        BY <1>8 DEF PoppedAnother, CallbackInv
    <2> QED BY <1>8, <2>1 DEF PoppedAnother, CallbackInv, OnlyMisuseBreaks
<1>9. CASE Destroy
    <2>1. misused' <=> misused \/ loop # "select"
        BY <1>9, Zenon DEF Destroy
    <2>2. loop' = IF loop = "select" THEN "gone" ELSE "astray"
        BY <1>9 DEF Destroy
    <2> QED BY <2>1, <2>2 DEF CallbackInv, OnlyMisuseBreaks
<1> QED BY <1>1, <1>2, <1>3, <1>4, <1>5, <1>6, <1>7, <1>8, <1>9 DEF Next, HandleTimerEvent
------------------------------------------------------------------------------
LEMMA IInvInit == Init => IInv
<1> SUFFICES ASSUME Init
             PROVE  IInv
    OBVIOUS
<1>1. TypeOK
    <2>1. 1 \in 1..Horizon /\ 0 \in 0..Horizon /\ 0 \in 0..MaxTimers
        BY LinuxTimerAssumption
    <2>2. /\ deadline \in [Ids -> Nat] /\ interval \in [Ids -> Nat] /\ fires \in [Ids -> Nat]
          /\ alarm \in Nat
        BY DEF Init, Disarmed
    <2>3. misused \in BOOLEAN
        BY Zenon DEF Init
    <2> QED BY <2>1, <2>2, <2>3 DEF Init, TypeOK
<1>2. 1..mLastTimerId = {}
    BY DEF Init
<1> QED BY <1>1, <1>2 DEF Init, IInv, AlarmIsNextDeadline, NoTimerLost, OnlyMisuseBreaks,
           IdInv, FiresInv, CallbackInv, Ids

LEMMA IInvStep == IInv /\ [Next]_vars => IInv'
    BY TypeStep, AlarmStep, QueueStep, FiresStep, TopStep DEF IInv

LEMMA Inductive == Spec => []IInv
<1>1. QED BY IInvInit, IInvStep, PTL DEF Spec

\* Every variable stays in its type, whatever timers are added and removed.
THEOREM LinuxTimerTypes == Spec => []TypeOK
<1>1. IInv => TypeOK
    BY DEF IInv
<1> QED BY <1>1, Inductive, PTL

\* modifyTimeout (68) keeps the timerfd at the next timer that will fire.
THEOREM AlarmFollowsQueue == Spec => []AlarmIsNextDeadline
<1>1. IInv => AlarmIsNextDeadline
    BY DEF IInv
<1> QED BY <1>1, Inductive, PTL

\* The pops and purges of handleTimerEvent and modifyTimeout lose no timer.
THEOREM TimersAreKept == Spec => []NoTimerLost
<1>1. IInv => NoTimerLost
    BY DEF IInv
<1> QED BY <1>1, Inductive, PTL

\* The pop after the callback (116) takes another timer only if a callback removed
\* its own timer or added one that is due before it, or destroyed the manager.
THEOREM OnlyMisusePopsAnother == Spec => []OnlyMisuseBreaks
<1>1. IInv => OnlyMisuseBreaks
    BY DEF IInv
<1> QED BY <1>1, Inductive, PTL

\* A timer given to removeTimer (44) is not called again.
THEOREM RemovedTimersAreSilent == Spec => NeverFiresAgain
<1>1. IInv /\ [Next]_vars => [\A t \in removed : fires'[t] = fires[t]]_vars
    <2> SUFFICES ASSUME IInv, Next
                 PROVE  \A t \in removed : fires'[t] = fires[t]
        BY DEF vars
    <2>1. ASSUME NEW u \in Ids, Fire(u)
          PROVE  \A t \in removed : fires'[t] = fires[t]
        <3>1. u \notin removed
            BY <2>1 DEF Fire, Cancelled, TopsOf, IInv, IdInv
        <3>2. \A t \in Ids \ {u} : fires'[t] = fires[t]
            BY <2>1 DEF Fire, IInv, TypeOK
        <3> QED BY <3>1, <3>2 DEF IInv, TypeOK
    <2>2. CASE \A u \in Ids : ~Fire(u)
        <3>1. fires' = fires
            BY <2>2 DEF Next, HandleTimerEvent, Tick, AddTimer, RemoveTimer, Destroy,
                        Select, HandleRead, DropCancelled, Popped, PoppedAnother, Leave
        <3> QED BY <3>1
    <2> QED BY <2>1, <2>2
<1> QED BY <1>1, Inductive, PTL DEF Spec, NeverFiresAgain
------------------------------------------------------------------------------
\* modifyTimeout moves timers from the queue to the deleted ones.
LEMMA ModifyFrees ==
    ASSUME NEW Q, NEW C, NEW due, Modified(Q, C, due)
    PROVE  mTimerQueue' \cup deleted' = Q \cup deleted
    BY DEF Modified

\* Each step is a step of the service, leaves it unchanged, or goes astray.
LEMMA ServiceStep ==
    IInv /\ [Next]_vars => [Service!TNext(Ids) \/ loop' = "astray"]_(Service!tvars)
<1> DEFINE armed == (mTimerQueue \cup deleted) \ removed
           firing == IF loop = "callback" THEN cur ELSE 0
<1> SUFFICES ASSUME IInv, [Next]_vars, loop' # "astray"
             PROVE  Service!TNext(Ids) \/ UNCHANGED Service!tvars
    OBVIOUS
<1> USE DEF IInv
<1>1. ASSUME armed' = armed, UNCHANGED mLastTimerId, firing' = firing,
             (loop' = "gone") <=> (loop = "gone")
      PROVE  UNCHANGED Service!tvars
    BY <1>1 DEF Service!tvars
<1>2. ASSUME NEW when \in 1..(now + MaxDelay), NEW ival \in Intervals, AddTimer(when, ival)
      PROVE  Service!TNext(Ids)
    <2>1. Modified(mTimerQueue \cup {NewId}, mCancelTimers, deadline')
        BY <1>2, AddModifies
    <2>2. NewId \in Ids /\ NewId = mLastTimerId + 1 /\ mLastTimerId' = NewId
        BY <1>2, AddFacts
    <2>3. mLastTimerId \in Nat /\ UNCHANGED <<removed, loop, cur>>
        BY <1>2 DEF AddTimer, TypeOK
    <2>4. mTimerQueue' \cup deleted' = mTimerQueue \cup {NewId} \cup deleted
        BY <2>1, ModifyFrees
    <2>5. 1..mLastTimerId' = (1..mLastTimerId) \cup {NewId} /\ NewId \notin 1..mLastTimerId
        BY <2>2, <2>3
    <2>6. NewId \notin removed
        BY <2>5 DEF IdInv
    <2>7. armed' = armed \cup {NewId}
        BY <2>3, <2>4, <2>6
    <2>8. Service!Add(NewId)
        BY <2>3, <2>5, <2>7 DEF Service!Add
    <2> QED BY <2>2, <2>8 DEF Service!TNext
<1>3. ASSUME NEW t \in Ids, RemoveTimer(t)
      PROVE  Service!TNext(Ids)
    <2>1. Modified(mTimerQueue, mCancelTimers \cup {t}, deadline)
        BY <1>3, RemoveModifies
    <2>2. mTimerQueue' \cup deleted' = mTimerQueue \cup deleted
        BY <2>1, ModifyFrees
    <2>3. removed' = removed \cup {t} /\ UNCHANGED <<mLastTimerId, loop, cur>>
        BY <1>3 DEF RemoveTimer
    <2>4. t \in 1..mLastTimerId
        BY <1>3 DEF RemoveTimer, TypeOK, Ids
    <2>5. armed' = armed \ {t}
        BY <2>2, <2>3
    <2>6. Service!Remove(t)
        BY <2>3, <2>4, <2>5 DEF Service!Remove
    <2> QED BY <2>6 DEF Service!TNext
<1>4. CASE Destroy
    <2>1. loop = "select" /\ loop' = "gone"
        BY <1>4 DEF Destroy
    <2>2. UNCHANGED <<mLastTimerId, removed>> /\ mTimerQueue' \cup deleted' = mTimerQueue \cup deleted
        BY <1>4 DEF Destroy
    <2>3. Service!Close
        BY <2>1, <2>2 DEF Service!Close
    <2> QED BY <2>3 DEF Service!TNext
<1>5. CASE Tick \/ Select \/ HandleRead \/ UNCHANGED vars
    <2>1. UNCHANGED <<mTimerQueue, deleted, removed, mLastTimerId, cur>>
        BY <1>5 DEF Tick, Select, HandleRead, vars
    <2>2. loop' = loop \/ (loop \in {"select", "ready"} /\ loop' \in {"ready", "pass"})
        BY <1>5 DEF Tick, Select, HandleRead, vars
    <2> QED BY <1>1, <2>1, <2>2
<1>6. ASSUME NEW t \in Ids, DropCancelled(t)
      PROVE  UNCHANGED Service!tvars
    <2>1. /\ mTimerQueue' \cup deleted' = mTimerQueue \cup deleted
          /\ UNCHANGED <<removed, mLastTimerId, loop, cur>>
        BY <1>6 DEF DropCancelled, TopsOf
    <2> QED BY <1>1, <2>1
<1>7. ASSUME NEW t \in Ids, Fire(t)
      PROVE  Service!TNext(Ids)
    <2>1. t \in armed
        BY <1>7 DEF Fire, Cancelled, TopsOf, IdInv
    <2>2. loop = "pass" /\ loop' = "callback" /\ cur' = t
        BY <1>7 DEF Fire
    <2>3. armed' = armed /\ UNCHANGED mLastTimerId
        BY <1>7 DEF Fire
    <2>4. Service!Begin(t)
        BY <2>1, <2>2, <2>3 DEF Service!Begin
    <2> QED BY <2>4 DEF Service!TNext
<1>8. CASE Popped
    <2>1. loop = "callback" /\ loop' = "pass" /\ cur # 0
        BY <1>8 DEF Popped, CallbackInv, TypeOK
    <2>2. cur \notin deleted /\ mTimerQueue' \in {mTimerQueue, mTimerQueue \ {cur}}
        BY <1>8 DEF Popped, TopsOf, NoTimerLost
    <2>3. UNCHANGED <<deleted, removed, mLastTimerId>>
        BY <1>8 DEF Popped
    <2>4. armed' \in {armed, armed \ {cur}}
        BY <2>2, <2>3
    <2>5. Service!End
        BY <2>1, <2>3, <2>4 DEF Service!End
    <2> QED BY <2>5 DEF Service!TNext
<1>9. CASE PoppedAnother
    BY <1>9 DEF PoppedAnother
<1>10. CASE Leave
    <2>1. Modified(mTimerQueue, mCancelTimers, deadline)
        BY <1>10, LeaveModifies
    <2>2. mTimerQueue' \cup deleted' = mTimerQueue \cup deleted
        BY <2>1, ModifyFrees
    <2>3. /\ UNCHANGED <<removed, mLastTimerId>>
          /\ loop = "pass" /\ loop' = "select"
        BY <1>10 DEF Leave
    <2> QED BY <1>1, <2>2, <2>3
<1> QED BY <1>2, <1>3, <1>4, <1>5, <1>6, <1>7, <1>8, <1>9, <1>10
        DEF Next, HandleTimerEvent

\* Nothing is armed at first.
LEMMA ServiceInit == Init => Service!TInit
<1> SUFFICES ASSUME Init PROVE Service!TInit
    OBVIOUS
<1>1. 1..mLastTimerId = {}
    BY DEF Init
<1> QED BY <1>1 DEF Init, Service!TInit

\* Until misuse breaks it, the manager takes steps of TimerService: to its callers it
\* is what the manager of Windows is.
THEOREM ManagerImplementsTimerService == Spec => ImplementsTimerService
    BY Inductive, ServiceInit, ServiceStep, PTL DEF Spec, ImplementsTimerService
==============================================================================
