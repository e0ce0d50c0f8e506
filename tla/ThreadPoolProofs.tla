-------------------------- MODULE ThreadPoolProofs ---------------------------
(***************************************************************************)
(* ThreadPool for any number of threads, tasks and createThreads calls.    *)
(***************************************************************************)
EXTENDS ThreadPool, TLAPS, FiniteSetTheorems, SequenceTheorems

\* While mQuit is set, the tasks added before it are all dispatched, and there
\* are threads only while cancelThreads joins them; otherwise there are threads.
QuitInv ==
    /\ mQuit => atQuit <= added - Len(mTaskQueue)
    /\ mQuit /\ owner # "join" => mThreads = {}
    /\ owner = "join" => mQuit
    /\ ~mQuit => mThreads # {}

\* The inductive invariant.  CancelDrains needs QuitInv, which needs
\* NoSleeperAfterQuit; none of the three is inductive alone.
IInv ==
    /\ TypeOK
    /\ ExactlyOnce
    /\ QuitInv
    /\ NoSleeperAfterQuit
    /\ CancelDrains
    /\ NoLostWakeup

\* What the two sequence operators of the queue do to its length and elements.
LEMMA AppendFacts ==
    ASSUME NEW S, NEW s \in Seq(S), NEW e \in S
    PROVE  /\ Append(s, e) \in Seq(S)
           /\ Len(Append(s, e)) = Len(s) + 1
           /\ Append(s, e)[Len(s) + 1] = e
           /\ \A i \in 1..Len(s) : Append(s, e)[i] = s[i]
    OBVIOUS

LEMMA TailFacts ==
    ASSUME NEW S, NEW s \in Seq(S), s # <<>>
    PROVE  /\ Head(s) \in S
           /\ Head(s) = s[1]
           /\ Tail(s) \in Seq(S)
           /\ Len(s) \in Nat \ {0}
           /\ Len(Tail(s)) = Len(s) - 1
           /\ \A i \in 1..Len(Tail(s)) : Tail(s)[i] = s[i + 1]
    OBVIOUS
------------------------------------------------------------------------------
\* Types.

LEMMA TypeInit == Init => TypeOK
<1> SUFFICES ASSUME Init PROVE TypeOK
    OBVIOUS
<1>1. pc \in [Workers -> PC]
    BY DEF Init, PC
<1>2. mTaskQueue \in Seq(1..MaxTasks)
    BY DEF Init
<1>3. task \in [Workers -> 0..MaxTasks]
    BY PoolAssumption DEF Init
<1>4. added \in 0..MaxTasks /\ atQuit \in 0..MaxTasks /\ creates \in Nat
    BY PoolAssumption DEF Init
<1>5. mQuit \in BOOLEAN /\ owner \in {"idle", "spin", "check", "join"} /\ done \in SUBSET (1..MaxTasks)
    BY DEF Init
<1> QED BY <1>1, <1>2, <1>3, <1>4, <1>5 DEF TypeOK

\* A worker runs only what it took from the queue, so ExactlyOnce is a premise.
LEMMA TypeStep == TypeOK /\ ExactlyOnce /\ [Next]_vars => TypeOK'
<1> SUFFICES ASSUME TypeOK, ExactlyOnce, [Next]_vars
             PROVE  TypeOK'
    OBVIOUS
<1> USE PoolAssumption DEF TypeOK, PC
<1>1. CASE AddTask
    <2>1. added + 1 \in 1..MaxTasks
        BY <1>1 DEF AddTask
    <2>2. mTaskQueue' \in Seq(1..MaxTasks)
        BY <1>1, <2>1, AppendFacts DEF AddTask
    <2>3. pc' \in [Workers -> {"none", "test", "lock", "wait", "run", "exit"}]
        BY <1>1 DEF AddTask, NotifyOne
    <2>4. added' \in 0..MaxTasks /\ atQuit' \in 0..MaxTasks /\ creates' \in Nat
        BY <1>1, <2>1 DEF AddTask
    <2>5. UNCHANGED <<mQuit, task, owner, done>>
        BY <1>1 DEF AddTask
    <2> QED BY <2>2, <2>3, <2>4, <2>5
<1>2. ASSUME NEW S \in SUBSET Workers, CreateThreads(S)
      PROVE  TypeOK'
    <2>1. pc' \in [Workers -> PC]
        BY <1>2 DEF CreateThreads, Started
    <2>2. mQuit' \in BOOLEAN
        BY <1>2 DEF CreateThreads
    <2>3. creates' \in Nat
        BY <1>2 DEF CreateThreads
    <2>4. UNCHANGED <<mTaskQueue, task, owner, added, done, atQuit>>
        BY <1>2 DEF CreateThreads
    <2> QED BY <2>1, <2>2, <2>3, <2>4
<1>3. CASE CancelCall \/ CancelLock \/ CancelRetry
    BY <1>3 DEF CancelCall, CancelLock, CancelRetry
<1>4. CASE CancelQuit
    BY <1>4 DEF CancelQuit, NotifyAll
<1>5. CASE CancelJoin
    BY <1>5 DEF CancelJoin
<1>6. ASSUME NEW w \in Workers, TestQuit(w) \/ SpuriousWakeup(w)
      PROVE  TypeOK'
    BY <1>6 DEF TestQuit, SpuriousWakeup
<1>7. ASSUME NEW w \in Workers, LockedBlock(w)
      PROVE  TypeOK'
    <2>1. CASE WaitForTask(w) \/ LeaveLoop(w)
        BY <1>7, <2>1 DEF LockedBlock, WaitForTask, LeaveLoop
    <2>2. CASE TakeTask(w)
        <3>1. Head(mTaskQueue) \in 1..MaxTasks /\ Tail(mTaskQueue) \in Seq(1..MaxTasks)
            BY <2>2, TailFacts DEF TakeTask
        <3> QED BY <1>7, <2>2, <3>1 DEF LockedBlock, TakeTask
    <2> QED BY <1>7, <2>1, <2>2 DEF LockedBlock
<1>8. ASSUME NEW w \in Workers, RunTask(w)
      PROVE  TypeOK'
    <2>1. task[w] \in 1..MaxTasks
        BY <1>8 DEF RunTask, ExactlyOnce, Running, Dispatched
    <2> QED BY <1>8, <2>1 DEF RunTask
<1>9. CASE UNCHANGED vars
    BY <1>9 DEF vars
<1> QED BY <1>1, <1>2, <1>3, <1>4, <1>5, <1>6, <1>7, <1>8, <1>9
        DEF Next, OwnerStep, WorkerStep
------------------------------------------------------------------------------
\* Each task is in one place.

LEMMA ExactlyOnceStep == TypeOK /\ ExactlyOnce /\ [Next]_vars => ExactlyOnce'
<1> SUFFICES ASSUME TypeOK, ExactlyOnce, [Next]_vars
             PROVE  ExactlyOnce'
    OBVIOUS
<1> DEFINE n == Len(mTaskQueue)
<1>a. n \in Nat /\ added \in Nat /\ n <= added
    BY PoolAssumption DEF TypeOK, ExactlyOnce
<1>b. ASSUME UNCHANGED <<mTaskQueue, added, done>>, Running' = Running,
             \A w \in Running : task'[w] = task[w]
      PROVE  ExactlyOnce'
    BY <1>b DEF ExactlyOnce, Dispatched
<1>1. CASE AddTask
    <2>1. added + 1 \in 1..MaxTasks /\ added' = added + 1 /\ done' = done /\ task' = task
        BY <1>1, PoolAssumption DEF AddTask, TypeOK
    <2>2. /\ Len(mTaskQueue') = n + 1
          /\ mTaskQueue'[n + 1] = added + 1
          /\ \A i \in 1..n : mTaskQueue'[i] = mTaskQueue[i]
        BY <1>1, <2>1, AppendFacts DEF AddTask, TypeOK
    <2>3. Dispatched' = Dispatched
        BY <1>a, <2>1, <2>2 DEF Dispatched
    <2>4. Running' = Running
        BY <1>1 DEF AddTask, NotifyOne, Waiters, Running, TypeOK
    <2>5. \A i \in 1..Len(mTaskQueue') :
              mTaskQueue'[i] = added' - Len(mTaskQueue') + i
        BY <1>a, <2>1, <2>2 DEF ExactlyOnce
    <2> QED BY <1>a, <2>1, <2>2, <2>3, <2>4, <2>5 DEF ExactlyOnce
<1>2. ASSUME NEW S \in SUBSET Workers, CreateThreads(S)
      PROVE  ExactlyOnce'
    <2>1. Running' = Running
        BY <1>2 DEF CreateThreads, Started, Running, mThreads, TypeOK
    <2>2. UNCHANGED <<mTaskQueue, added, done, task>>
        BY <1>2 DEF CreateThreads
    <2> QED BY <1>b, <2>1, <2>2
<1>3. CASE CancelCall \/ CancelLock \/ CancelRetry
    BY <1>3, <1>b DEF CancelCall, CancelLock, CancelRetry, Running
<1>4. CASE CancelQuit
    <2>1. Running' = Running
        BY <1>4 DEF CancelQuit, NotifyAll, Running, TypeOK
    <2> QED BY <1>4, <1>b, <2>1 DEF CancelQuit
<1>5. CASE CancelJoin
    <2>1. Running' = Running
        BY <1>5 DEF CancelJoin, AllExited, mThreads, Running, TypeOK
    <2> QED BY <1>5, <1>b, <2>1 DEF CancelJoin
<1>6. ASSUME NEW w \in Workers, TestQuit(w) \/ SpuriousWakeup(w)
      PROVE  ExactlyOnce'
    <2>1. Running' = Running
        BY <1>6 DEF TestQuit, SpuriousWakeup, Running, TypeOK
    <2> QED BY <1>6, <1>b, <2>1 DEF TestQuit, SpuriousWakeup
<1>7. ASSUME NEW w \in Workers, LockedBlock(w)
      PROVE  ExactlyOnce'
    <2>1. CASE WaitForTask(w) \/ LeaveLoop(w)
        <3>1. Running' = Running
            BY <1>7, <2>1 DEF LockedBlock, WaitForTask, LeaveLoop, Running, TypeOK
        <3> QED BY <1>7, <1>b, <2>1, <3>1 DEF LockedBlock, WaitForTask, LeaveLoop
    <2>2. CASE TakeTask(w)
        <3>1. added' = added /\ done' = done
            BY <1>7 DEF LockedBlock
        <3>2. /\ Head(mTaskQueue) = mTaskQueue[1]
              /\ n \in Nat \ {0}
              /\ Len(mTaskQueue') = n - 1
              /\ \A i \in 1..(n - 1) : mTaskQueue'[i] = mTaskQueue[i + 1]
            BY <2>2, TailFacts DEF TakeTask, TypeOK
        <3>3. Head(mTaskQueue) = added - n + 1
            BY <3>2 DEF ExactlyOnce
        <3>4. Dispatched' = Dispatched \cup {Head(mTaskQueue)}
            BY <1>a, <3>1, <3>2, <3>3 DEF Dispatched
        <3>5. Head(mTaskQueue) \notin Dispatched
            BY <1>a, <3>3 DEF Dispatched
        <3>6. /\ w \notin Running
              /\ Running' = Running \cup {w}
              /\ task'[w] = Head(mTaskQueue)
              /\ \A v \in Running : task'[v] = task[v]
            BY <1>7, <2>2 DEF LockedBlock, TakeTask, Running, TypeOK
        <3>7. \A i \in 1..Len(mTaskQueue') :
                  mTaskQueue'[i] = added' - Len(mTaskQueue') + i
            BY <1>a, <3>1, <3>2 DEF ExactlyOnce
        <3>8. Len(mTaskQueue') <= added'
            BY <1>a, <3>1, <3>2
        <3>9. /\ \A v \in Running' : task'[v] \in Dispatched' \ done'
              /\ \A u, v \in Running' : task'[u] = task'[v] => u = v
              /\ \A t \in Dispatched' : t \in done' \/ \E v \in Running' : task'[v] = t
              /\ done' \subseteq Dispatched'
            BY <3>1, <3>4, <3>5, <3>6 DEF ExactlyOnce
        <3> QED BY <3>7, <3>8, <3>9 DEF ExactlyOnce
    <2> QED BY <1>7, <2>1, <2>2 DEF LockedBlock
<1>8. ASSUME NEW w \in Workers, RunTask(w)
      PROVE  ExactlyOnce'
    <2>1. /\ w \in Running
          /\ Running' = Running \ {w}
          /\ done' = done \cup {task[w]}
          /\ UNCHANGED <<mTaskQueue, added, task>>
        BY <1>8 DEF RunTask, Running, TypeOK
    <2>2. Dispatched' = Dispatched
        BY <2>1 DEF Dispatched
    <2> QED BY <2>1, <2>2 DEF ExactlyOnce
<1>9. CASE UNCHANGED vars
    BY <1>9, <1>b DEF vars, Running
<1> QED BY <1>1, <1>2, <1>3, <1>4, <1>5, <1>6, <1>7, <1>8, <1>9
        DEF Next, OwnerStep, WorkerStep
------------------------------------------------------------------------------
\* Quitting.

LEMMA QuitStep ==
    TypeOK /\ ExactlyOnce /\ QuitInv /\ NoSleeperAfterQuit /\ [Next]_vars
        => QuitInv' /\ NoSleeperAfterQuit'
<1> SUFFICES ASSUME TypeOK, ExactlyOnce, QuitInv, NoSleeperAfterQuit, [Next]_vars
             PROVE  QuitInv' /\ NoSleeperAfterQuit'
    OBVIOUS
<1> DEFINE n == Len(mTaskQueue)
<1>a. n \in Nat /\ added \in Nat /\ n <= added
    BY PoolAssumption DEF TypeOK, ExactlyOnce
<1>1. CASE AddTask
    <2>1. added + 1 \in 1..MaxTasks /\ added' = added + 1
        BY <1>1, PoolAssumption DEF AddTask, TypeOK
    <2>2. Len(mTaskQueue') = n + 1
        BY <1>1, <2>1, AppendFacts DEF AddTask, TypeOK
    <2>3. added' - Len(mTaskQueue') = added - n
        BY <1>a, <2>1, <2>2
    <2>4. mThreads' = mThreads /\ Waiters' \subseteq Waiters
        BY <1>1 DEF AddTask, NotifyOne, Waiters, mThreads, TypeOK
    <2>5. UNCHANGED <<mQuit, owner, atQuit>>
        BY <1>1 DEF AddTask
    <2> QED BY <2>3, <2>4, <2>5 DEF QuitInv, NoSleeperAfterQuit
<1>2. ASSUME NEW S \in SUBSET Workers, CreateThreads(S)
      PROVE  QuitInv' /\ NoSleeperAfterQuit'
    <2>1. S # {}
        BY <1>2, PoolAssumption, FS_EmptySet DEF CreateThreads
    <2>2. mThreads' # {}
        BY <1>2, <2>1 DEF CreateThreads, Started, mThreads
    <2> QED BY <1>2, <2>2 DEF CreateThreads, QuitInv, NoSleeperAfterQuit
<1>3. CASE CancelCall \/ CancelLock \/ CancelRetry
    <2>1. mThreads' = mThreads /\ Waiters' = Waiters
        BY <1>3 DEF CancelCall, CancelLock, CancelRetry, mThreads, Waiters
    <2>2. UNCHANGED <<mQuit, mTaskQueue, added, atQuit>> /\ owner # "join" /\ owner' # "join"
        BY <1>3 DEF CancelCall, CancelLock, CancelRetry
    <2> QED BY <2>1, <2>2 DEF QuitInv, NoSleeperAfterQuit
<1>4. CASE CancelQuit
    <2>1. Waiters' = {}
        BY <1>4 DEF CancelQuit, NotifyAll, Waiters
    <2>2. n = 0 /\ UNCHANGED <<mTaskQueue, added>> /\ owner' = "join"
        BY <1>4 DEF CancelQuit, QueueDrained
    <2>3. mQuit' /\ atQuit' = IF mQuit THEN atQuit ELSE added
        BY <1>4 DEF CancelQuit
    <2> QED BY <1>a, <2>1, <2>2, <2>3 DEF QuitInv, NoSleeperAfterQuit
<1>5. CASE CancelJoin
    <2>1. mThreads' = {} /\ Waiters' = {}
        BY <1>5 DEF CancelJoin, mThreads, Waiters
    <2>2. UNCHANGED <<mQuit, mTaskQueue, added, atQuit>> /\ owner = "join" /\ owner' = "idle"
        BY <1>5 DEF CancelJoin
    <2> QED BY <2>1, <2>2 DEF QuitInv, NoSleeperAfterQuit
<1>6. ASSUME NEW w \in Workers,
             TestQuit(w) \/ SpuriousWakeup(w) \/ LockedBlock(w) \/ RunTask(w)
      PROVE  QuitInv' /\ NoSleeperAfterQuit'
    <2>1. /\ w \in mThreads
          /\ UNCHANGED <<mQuit, owner, added, atQuit>>
        BY <1>6 DEF TestQuit, SpuriousWakeup, LockedBlock, RunTask, mThreads
    <2>2. mQuit => Len(mTaskQueue') = n
        BY <1>6 DEF TestQuit, SpuriousWakeup, LockedBlock, WaitForTask, LeaveLoop,
                    TakeTask, RunTask
    <2>3. mQuit => Waiters' \subseteq Waiters
        BY <1>6 DEF TestQuit, SpuriousWakeup, LockedBlock, WaitForTask, LeaveLoop,
                    TakeTask, RunTask, Waiters, TypeOK
    <2>4. mThreads' = mThreads
        BY <1>6 DEF TestQuit, SpuriousWakeup, LockedBlock, WaitForTask, LeaveLoop,
                    TakeTask, RunTask, mThreads, TypeOK
    <2> QED BY <2>1, <2>2, <2>3, <2>4 DEF QuitInv, NoSleeperAfterQuit
<1>7. CASE UNCHANGED vars
    BY <1>7 DEF vars, QuitInv, NoSleeperAfterQuit, mThreads, Waiters
<1> QED BY <1>1, <1>2, <1>3, <1>4, <1>5, <1>6, <1>7 DEF Next, OwnerStep, WorkerStep

LEMMA DrainStep ==
    TypeOK /\ ExactlyOnce /\ QuitInv /\ CancelDrains /\ [Next]_vars => CancelDrains'
<1> SUFFICES ASSUME TypeOK, ExactlyOnce, QuitInv, CancelDrains, [Next]_vars,
                    owner' = "idle", mQuit'
             PROVE  1..atQuit' \subseteq done'
    BY DEF CancelDrains
<1>1. CASE CancelJoin
    <2>1. Running = {}
        BY <1>1 DEF CancelJoin, AllExited, mThreads, Running
    <2>2. Dispatched \subseteq done
        BY <2>1 DEF ExactlyOnce
    <2>3. mQuit /\ atQuit' = atQuit /\ done' = done
        BY <1>1 DEF CancelJoin
    <2>4. 1..atQuit \subseteq Dispatched
        BY <2>3, PoolAssumption DEF QuitInv, Dispatched, TypeOK
    <2> QED BY <2>2, <2>3, <2>4
<1>2. ASSUME owner = "idle", mQuit, atQuit' = atQuit, done \subseteq done'
      PROVE  1..atQuit' \subseteq done'
    BY <1>2 DEF CancelDrains
<1>3. CASE AddTask
    BY <1>2, <1>3 DEF AddTask
<1>4. ASSUME NEW S \in SUBSET Workers, CreateThreads(S)
      PROVE  FALSE
    BY <1>4 DEF CreateThreads
<1>5. CASE CancelCall \/ CancelLock \/ CancelRetry \/ CancelQuit
    BY <1>5 DEF CancelCall, CancelLock, CancelRetry, CancelQuit
<1>6. ASSUME NEW w \in Workers,
             TestQuit(w) \/ SpuriousWakeup(w) \/ LockedBlock(w) \/ RunTask(w)
      PROVE  1..atQuit' \subseteq done'
    BY <1>2, <1>6 DEF TestQuit, SpuriousWakeup, LockedBlock, RunTask
<1>7. CASE UNCHANGED vars
    BY <1>2, <1>7 DEF vars
<1> QED BY <1>1, <1>3, <1>4, <1>5, <1>6, <1>7 DEF Next, OwnerStep, WorkerStep
------------------------------------------------------------------------------
\* No lost wake-up.

LEMMA ArrivingFinite ==
    IsFiniteSet(Arriving) /\ Cardinality(Arriving) \in Nat
<1>1. Arriving \subseteq Workers
    BY DEF Arriving
<1> QED BY <1>1, PoolAssumption, FS_Subset, FS_CardinalityType

LEMMA WakeupStep ==
    TypeOK /\ ExactlyOnce /\ NoSleeperAfterQuit /\ NoLostWakeup /\ [Next]_vars
        => NoLostWakeup'
<1> SUFFICES ASSUME TypeOK, ExactlyOnce, NoSleeperAfterQuit, NoLostWakeup, [Next]_vars,
                    Waiters' # {}
             PROVE  Len(mTaskQueue') <= Cardinality(Arriving')
    BY DEF NoLostWakeup
<1> DEFINE n == Len(mTaskQueue)
           c == Cardinality(Arriving)
<1>a. n \in Nat /\ c \in Nat /\ IsFiniteSet(Arriving)
    BY ArrivingFinite DEF TypeOK
<1>b. IsFiniteSet(Workers) /\ Arriving' \subseteq Workers
    BY PoolAssumption DEF Arriving
<1>c. IsFiniteSet(Arriving') /\ Cardinality(Arriving') \in Nat
    BY <1>b, FS_Subset, FS_CardinalityType
\* Nothing is queued, some thread sleeps already, and nobody who was on the
\* way has turned back.
<1>d. ASSUME Waiters # {}, Arriving \subseteq Arriving', mTaskQueue' = mTaskQueue
      PROVE  Len(mTaskQueue') <= Cardinality(Arriving')
    <2>1. c <= Cardinality(Arriving')
        BY <1>c, <1>d, FS_Subset
    <2> QED BY <1>a, <1>c, <1>d, <2>1 DEF NoLostWakeup
<1>1. CASE AddTask
    <2>1. added + 1 \in 1..MaxTasks
        BY <1>1, PoolAssumption DEF AddTask, TypeOK
    <2>2. Len(mTaskQueue') = n + 1
        BY <1>1, <2>1, AppendFacts DEF AddTask, TypeOK
    <2>3. Waiters # {}
        BY <1>1 DEF AddTask, NotifyOne, Waiters
    <2>4. PICK w \in Waiters : pc' = [pc EXCEPT ![w] = "lock"]
        BY <1>1, <2>3 DEF AddTask, NotifyOne
    <2>5. w \notin Arriving /\ Arriving' = Arriving \cup {w}
        BY <2>4 DEF Arriving, Waiters, TypeOK
    <2>6. Cardinality(Arriving') = c + 1
        BY <1>a, <2>5, FS_AddElement
    <2> QED BY <1>a, <2>2, <2>3, <2>6 DEF NoLostWakeup
<1>2. ASSUME NEW S \in SUBSET Workers, CreateThreads(S)
      PROVE  Len(mTaskQueue') <= Cardinality(Arriving')
    <2>1. Waiters # {} /\ Arriving \subseteq Arriving'
        BY <1>2 DEF CreateThreads, Started, Waiters, Arriving, mThreads, TypeOK
    <2> QED BY <1>2, <1>d, <2>1 DEF CreateThreads
<1>3. CASE CancelCall \/ CancelLock \/ CancelRetry
    <2>1. pc' = pc /\ mTaskQueue' = mTaskQueue
        BY <1>3 DEF CancelCall, CancelLock, CancelRetry
    <2> QED BY <1>d, <2>1 DEF Waiters, Arriving
<1>4. CASE CancelQuit \/ CancelJoin
    BY <1>4 DEF CancelQuit, CancelJoin, NotifyAll, Waiters
<1>5. ASSUME NEW w \in Workers, TestQuit(w)
      PROVE  Len(mTaskQueue') <= Cardinality(Arriving')
    <2>1. Waiters # {} /\ ~mQuit
        BY <1>5 DEF TestQuit, Waiters, NoSleeperAfterQuit, TypeOK
    <2>2. Arriving \subseteq Arriving'
        BY <1>5, <2>1 DEF TestQuit, Arriving, TypeOK
    <2> QED BY <1>5, <1>d, <2>1, <2>2 DEF TestQuit
<1>6. ASSUME NEW w \in Workers, SpuriousWakeup(w) \/ RunTask(w)
      PROVE  Len(mTaskQueue') <= Cardinality(Arriving')
    <2>1. Waiters # {} /\ Arriving \subseteq Arriving'
        BY <1>6 DEF SpuriousWakeup, RunTask, Waiters, Arriving, TypeOK
    <2> QED BY <1>6, <1>d, <2>1 DEF SpuriousWakeup, RunTask
<1>7. ASSUME NEW w \in Workers, LockedBlock(w)
      PROVE  Len(mTaskQueue') <= Cardinality(Arriving')
    <2>1. CASE WaitForTask(w)
        <3>1. Len(mTaskQueue') = 0
            BY <2>1 DEF WaitForTask
        <3> QED BY <1>c, <3>1
    <2>2. CASE LeaveLoop(w)
        BY <1>7, <2>2 DEF LeaveLoop, Waiters, NoSleeperAfterQuit, TypeOK
    <2>3. CASE TakeTask(w)
        <3>1. n \in Nat \ {0} /\ Len(mTaskQueue') = n - 1
            BY <2>3, TailFacts DEF TakeTask, TypeOK
        <3>2. /\ Waiters # {}
              /\ w \in Arriving
              /\ Arriving' = Arriving \ {w}
            BY <1>7, <2>3 DEF LockedBlock, TakeTask, Waiters, Arriving, TypeOK
        <3>3. Cardinality(Arriving') = c - 1
            BY <1>a, <3>2, FS_RemoveElement
        <3> QED BY <1>a, <3>1, <3>2, <3>3 DEF NoLostWakeup
    <2> QED BY <1>7, <2>1, <2>2, <2>3 DEF LockedBlock
<1>8. CASE UNCHANGED vars
    BY <1>8, <1>d DEF vars, Waiters, Arriving
<1> QED BY <1>1, <1>2, <1>3, <1>4, <1>5, <1>6, <1>7, <1>8
        DEF Next, OwnerStep, WorkerStep
------------------------------------------------------------------------------
\* The theorems.

LEMMA IInvInit == Init => IInv
<1> SUFFICES ASSUME Init PROVE IInv
    OBVIOUS
<1>1. TypeOK
    BY TypeInit
<1>2. Running = {} /\ Waiters = {}
    BY DEF Init, Running, Waiters
<1>3. ExactlyOnce
    BY <1>2 DEF Init, ExactlyOnce, Dispatched
<1>4. mThreads # {}
    <2>1. PICK S \in SUBSET Workers :
              /\ Cardinality(S) = mNum
              /\ pc = [w \in Workers |-> IF w \in S THEN "test" ELSE "none"]
        BY Zenon DEF Init
    <2>2. S # {}
        BY <2>1, PoolAssumption, FS_EmptySet
    <2> QED BY <2>1, <2>2 DEF mThreads
<1>6. QuitInv /\ NoSleeperAfterQuit /\ CancelDrains
    BY <1>4 DEF Init, QuitInv, NoSleeperAfterQuit, CancelDrains
<1>5. NoLostWakeup
    BY <1>2 DEF NoLostWakeup
<1> QED BY <1>1, <1>3, <1>5, <1>6 DEF IInv

LEMMA IInvStep == IInv /\ [Next]_vars => IInv'
    BY TypeStep, ExactlyOnceStep, QuitStep, DrainStep, WakeupStep DEF IInv

LEMMA Inductive == Spec => []IInv
    BY IInvInit, IInvStep, PTL DEF Spec

\* Every variable of the pool keeps its type; the tasks that run are tasks that
\* were added, never the uninitialised Task of handleTask (line 22).
THEOREM PoolTypes == Spec => []TypeOK
    BY Inductive, PTL DEF IInv

\* A task given to addTask is in the queue, with one worker or finished, in
\* exactly one of the three, for any number of workers.
THEOREM TasksExactlyOnce == Spec => []ExactlyOnce
    BY Inductive, PTL DEF IInv

\* When cancelThreads has returned, all tasks added before mQuit have finished.
THEOREM CancelWaitsForTasks == Spec => []CancelDrains
    BY Inductive, PTL DEF IInv

\* notify_one in addTask is enough: while a thread sleeps, each queued task has a
\* thread of its own on the way to the lock.
THEOREM WakeupsSuffice == Spec => []NoLostWakeup
    BY Inductive, PTL DEF IInv

\* After mQuit no thread is left asleep for join to hang on.
THEOREM NobodySleepsAfterQuit == Spec => []NoSleeperAfterQuit
    BY Inductive, PTL DEF IInv
------------------------------------------------------------------------------
\* The pool implements the task service.

LEMMA ServiceInit == Init => Service!SInit
<1> SUFFICES ASSUME Init PROVE Service!SInit
    OBVIOUS
<1>1. Running = {}
    BY DEF Init, Running
<1> QED BY <1>1 DEF Init, Service!SInit

LEMMA ServiceStep == IInv /\ [Next]_vars => [Service!SNext]_(Service!svars)
<1> SUFFICES ASSUME IInv, [Next]_vars
             PROVE  Service!SNext \/ UNCHANGED Service!svars
    OBVIOUS
<1> USE DEF IInv
<1> DEFINE run == {task[w] : w \in Running}
           ph == IF ~mQuit THEN "open" ELSE IF mThreads # {} THEN "closing" ELSE "closed"
<1>a. ASSUME UNCHANGED <<mTaskQueue, added, done, mQuit, task>>,
             Running' = Running, mThreads' = mThreads
      PROVE  UNCHANGED Service!svars
    BY <1>a DEF Service!svars
<1>1. CASE AddTask
    <2>1. Running' = Running /\ mThreads' = mThreads
        BY <1>1 DEF AddTask, NotifyOne, Waiters, Running, mThreads, TypeOK
    <2> QED BY <1>1, <2>1 DEF AddTask, Service!SNext, Service!Submit
<1>2. ASSUME NEW S \in SUBSET Workers, CreateThreads(S)
      PROVE  Service!SNext \/ UNCHANGED Service!svars
    <2>1. Running' = Running
        BY <1>2 DEF CreateThreads, Started, Running, mThreads, TypeOK
    <2>2. UNCHANGED <<mTaskQueue, added, done, task>> /\ ~mQuit' /\ owner = "idle"
        BY <1>2 DEF CreateThreads
    <2>3. CASE mQuit
        <3>1. ph = "closed"
            BY <2>2, <2>3 DEF QuitInv
        <3>2. Service!Reopen
            BY <2>1, <2>2, <3>1 DEF Service!Reopen
        <3> QED BY <3>2 DEF Service!SNext
    <2>4. CASE ~mQuit
        BY <2>1, <2>2, <2>4 DEF Service!svars
    <2> QED BY <2>3, <2>4
<1>3. CASE CancelCall \/ CancelLock \/ CancelRetry
    BY <1>3, <1>a DEF CancelCall, CancelLock, CancelRetry, Running, mThreads
<1>4. CASE CancelQuit
    <2>1. Running' = Running /\ mThreads' = mThreads
        BY <1>4 DEF CancelQuit, NotifyAll, Running, mThreads, TypeOK
    <2>2. UNCHANGED <<mTaskQueue, added, done, task>> /\ mQuit' /\ mTaskQueue = <<>>
        BY <1>4 DEF CancelQuit, QueueDrained
    <2>3. CASE mQuit
        BY <2>1, <2>2, <2>3 DEF Service!svars
    <2>4. CASE ~mQuit
        <3>1. Service!BeginClose
            BY <2>1, <2>2, <2>4 DEF Service!BeginClose, QuitInv
        <3> QED BY <3>1 DEF Service!SNext
    <2> QED BY <2>3, <2>4
<1>5. CASE CancelJoin
    <2>1. Running = {} /\ Running' = {} /\ mThreads' = {}
        BY <1>5 DEF CancelJoin, AllExited, mThreads, Running
    <2>2. UNCHANGED <<mTaskQueue, added, done, task, mQuit>> /\ mQuit
        BY <1>5 DEF CancelJoin, QuitInv
    <2>3. CASE mThreads # {}
        <3>1. Service!EndClose
            BY <2>1, <2>2, <2>3 DEF Service!EndClose
        <3> QED BY <3>1 DEF Service!SNext
    <2>4. CASE mThreads = {}
        BY <2>1, <2>2, <2>4 DEF Service!svars
    <2> QED BY <2>3, <2>4
<1>6. ASSUME NEW w \in Workers,
             TestQuit(w) \/ SpuriousWakeup(w)
      PROVE  UNCHANGED Service!svars
    <2>1. Running' = Running /\ mThreads' = mThreads
        BY <1>6 DEF TestQuit, SpuriousWakeup, Running, mThreads, TypeOK
    <2> QED BY <1>6, <1>a, <2>1 DEF TestQuit, SpuriousWakeup
<1>7. ASSUME NEW w \in Workers, LockedBlock(w)
      PROVE  Service!SNext \/ UNCHANGED Service!svars
    <2>1. mThreads' = mThreads
        BY <1>7 DEF LockedBlock, WaitForTask, LeaveLoop, TakeTask, mThreads, TypeOK
    <2>2. UNCHANGED <<added, done, mQuit>>
        BY <1>7 DEF LockedBlock
    <2>3. CASE WaitForTask(w) \/ LeaveLoop(w)
        <3>1. Running' = Running
            BY <1>7, <2>3 DEF LockedBlock, WaitForTask, LeaveLoop, Running, TypeOK
        <3> QED BY <2>1, <2>2, <2>3, <3>1, <1>a DEF WaitForTask, LeaveLoop
    <2>4. CASE TakeTask(w)
        <3>1. run' = run \cup {Head(mTaskQueue)}
            <4>1. /\ Running' = Running \cup {w}
                  /\ task'[w] = Head(mTaskQueue)
                  /\ \A v \in Running : task'[v] = task[v]
                BY <1>7, <2>4 DEF LockedBlock, TakeTask, Running, TypeOK
            <4> QED BY <4>1
        <3>2. ~mQuit /\ mTaskQueue # <<>> /\ mTaskQueue' = Tail(mTaskQueue)
            BY <2>4 DEF TakeTask
        <3>3. Service!Start
            BY <2>1, <2>2, <3>1, <3>2 DEF Service!Start
        <3> QED BY <3>3 DEF Service!SNext
    <2> QED BY <1>7, <2>3, <2>4 DEF LockedBlock
<1>8. ASSUME NEW w \in Workers, RunTask(w)
      PROVE  Service!SNext
    <2>1. /\ w \in Running
          /\ Running' = Running \ {w}
          /\ mThreads' = mThreads
        BY <1>8 DEF RunTask, Running, mThreads, TypeOK
    <2>2. /\ done' = done \cup {task[w]}
          /\ UNCHANGED <<mTaskQueue, added, task, mQuit>>
        BY <1>8 DEF RunTask
    <2>3. run' = run \ {task[w]}
        BY <2>1, <2>2 DEF ExactlyOnce
    <2>4. Service!Complete
        BY <2>1, <2>2, <2>3 DEF Service!Complete
    <2> QED BY <2>4 DEF Service!SNext
<1>9. CASE UNCHANGED vars
    BY <1>9, <1>a DEF vars, Running, mThreads
<1> QED BY <1>1, <1>2, <1>3, <1>4, <1>5, <1>6, <1>7, <1>8, <1>9
        DEF Next, OwnerStep, WorkerStep

\* createThreads, addTask, handleTask and cancelThreads together behave like the
\* abstract service: each step of theirs is a step of it or leaves it unchanged.
THEOREM PoolImplementsTaskService == Spec => ImplementsTaskService
    BY Inductive, ServiceInit, ServiceStep, PTL DEF Spec, ImplementsTaskService
=============================================================================
