----------------------------- MODULE ThreadPool ------------------------------
(***************************************************************************)
(* src/threadpool/ThreadPool.cpp: a queue of tasks, worker threads that    *)
(* wait on a condition variable, and one owner that creates and cancels    *)
(* the threads.  Every access to mTaskQueue is inside mMutex, so a         *)
(* critical section is one step; the exception is cancelThreads, which     *)
(* takes and drops the lock in a busy loop and can starve the workers:     *)
(* there the owner holding mMutex is a state of its own ("check").         *)
(* The i-th task ever added is the number i.                               *)
(***************************************************************************)
EXTENDS Naturals, Sequences, FiniteSets

CONSTANTS Workers,    \* identities for threads, reused after a join
          mNum,       \* threads made by one createThreads
          MaxTasks,   \* bound: calls of addTask
          MaxCreates, \* bound: calls of createThreads, the constructor's included
          LateAdd     \* may addTask be called on a pool that has been told to quit?

ASSUME PoolAssumption ==
    /\ IsFiniteSet(Workers)
    /\ mNum \in Nat \ {0}
    /\ MaxTasks \in Nat
    /\ MaxCreates \in Nat
    /\ LateAdd \in BOOLEAN

VARIABLES mTaskQueue,
          mQuit,
          pc,         \* where each thread is in handleTask
          task,       \* the local variable of handleTask, 0 before the first
          owner,      \* where the owner is in cancelThreads
          added,      \* number of addTask calls so far
          done,       \* history: tasks whose handle() returned
          atQuit,     \* history: value of added when mQuit was last set
          creates     \* number of createThreads calls so far

vars == <<mTaskQueue, mQuit, pc, task, owner, added, done, atQuit, creates>>

PC == {"none", "test", "lock", "wait", "run", "exit"}

\* The threads in the vector mThreads, and those blocked in mCondition.wait.
mThreads == {w \in Workers : pc[w] # "none"}
Waiters == {w \in Workers : pc[w] = "wait"}
MutexFree == owner # "check"

Started(S) == [w \in Workers |-> IF w \in S THEN "test" ELSE pc[w]]

\* The object as its constructor leaves it: mNum threads, about to test mQuit.
Init ==
    /\ mTaskQueue = <<>>
    /\ mQuit = FALSE
    /\ \E S \in SUBSET Workers :
          /\ Cardinality(S) = mNum
          /\ pc = [w \in Workers |-> IF w \in S THEN "test" ELSE "none"]
    /\ task = [w \in Workers |-> 0]
    /\ owner = "idle"
    /\ added = 0
    /\ done = {}
    /\ atQuit = 0
    /\ creates = 1

\* A thread that was created and has not run yet is a thread at its first
\* test of mQuit, so creating the mNum threads one by one adds no behaviour.
CreateThreads(S) ==
    /\ owner = "idle"
    /\ creates < MaxCreates
    /\ S \cap mThreads = {}
    /\ Cardinality(S) = mNum
    /\ mQuit' = FALSE
    /\ pc' = Started(S)
    /\ creates' = creates + 1
    /\ UNCHANGED <<mTaskQueue, task, owner, added, done, atQuit>>

\* notify_one wakes any one waiter, and nobody when there is none.
NotifyNobody == {pc}
NotifyOne ==
    IF Waiters = {} THEN {pc}
    ELSE {[pc EXCEPT ![w] = "lock"] : w \in Waiters}

\* The caller is a thread outside the pool, never the owner inside cancelThreads.
AddTask ==
    /\ MutexFree
    /\ added < MaxTasks
    /\ LateAdd \/ ~mQuit
    /\ added' = added + 1
    /\ mTaskQueue' = Append(mTaskQueue, added + 1)
    /\ pc' \in NotifyOne
    /\ UNCHANGED <<mQuit, task, owner, done, atQuit, creates>>

\* The loop condition of handleTask, read without the lock.
TestQuit(w) ==
    /\ pc[w] = "test"
    /\ pc' = [pc EXCEPT ![w] = IF mQuit THEN "exit" ELSE "lock"]
    /\ UNCHANGED <<mTaskQueue, mQuit, task, owner, added, done, atQuit, creates>>

WaitForTask(w) ==
    /\ mTaskQueue = <<>>
    /\ ~mQuit
    /\ pc' = [pc EXCEPT ![w] = "wait"]
    /\ UNCHANGED <<mTaskQueue, task>>

LeaveLoop(w) ==
    /\ mQuit
    /\ pc' = [pc EXCEPT ![w] = "exit"]
    /\ UNCHANGED <<mTaskQueue, task>>

\* Three ways to get the pop wrong: no re-check after a wake-up, so an
\* uninitialised task runs; no pop; no test of mQuit.
TakeUnchecked(w) ==
    /\ ~mQuit
    /\ task' = IF mTaskQueue = <<>> THEN task
                 ELSE [task EXCEPT ![w] = Head(mTaskQueue)]
    /\ mTaskQueue' = IF mTaskQueue = <<>> THEN <<>> ELSE Tail(mTaskQueue)
    /\ pc' = [pc EXCEPT ![w] = "run"]
TakeNoPop(w) ==
    /\ mTaskQueue # <<>>
    /\ ~mQuit
    /\ task' = [task EXCEPT ![w] = Head(mTaskQueue)]
    /\ mTaskQueue' = mTaskQueue
    /\ pc' = [pc EXCEPT ![w] = "run"]
TakeAlways(w) ==
    /\ mTaskQueue # <<>>
    /\ task' = [task EXCEPT ![w] = Head(mTaskQueue)]
    /\ mTaskQueue' = Tail(mTaskQueue)
    /\ pc' = [pc EXCEPT ![w] = "run"]
TakeTask(w) ==
    /\ mTaskQueue # <<>>
    /\ ~mQuit
    /\ task' = [task EXCEPT ![w] = Head(mTaskQueue)]
    /\ mTaskQueue' = Tail(mTaskQueue)
    /\ pc' = [pc EXCEPT ![w] = "run"]

\* The block under unique_lock, entered from the loop or after a wake-up.
LockedBlock(w) ==
    /\ pc[w] = "lock"
    /\ MutexFree
    /\ WaitForTask(w) \/ LeaveLoop(w) \/ TakeTask(w)
    /\ UNCHANGED <<mQuit, owner, added, done, atQuit, creates>>

SpuriousWakeup(w) ==
    /\ pc[w] = "wait"
    /\ pc' = [pc EXCEPT ![w] = "lock"]
    /\ UNCHANGED <<mTaskQueue, mQuit, task, owner, added, done, atQuit, creates>>

\* task.handle() outside the lock.
RunTask(w) ==
    /\ pc[w] = "run"
    /\ pc' = [pc EXCEPT ![w] = "test"]
    /\ done' = done \cup {task[w]}
    /\ UNCHANGED <<mTaskQueue, mQuit, task, owner, added, atQuit, creates>>

CancelCall ==
    /\ owner = "idle"
    /\ owner' = "spin"
    /\ UNCHANGED <<mTaskQueue, mQuit, pc, task, added, done, atQuit, creates>>

CancelLock ==
    /\ owner = "spin"
    /\ owner' = "check"
    /\ UNCHANGED <<mTaskQueue, mQuit, pc, task, added, done, atQuit, creates>>

NotifyLost == pc
NotifyAll == [w \in Workers |-> IF pc[w] = "wait" THEN "lock" ELSE pc[w]]

DrainSkipped == TRUE
QueueDrained == mTaskQueue = <<>>

CancelQuit ==
    /\ owner = "check"
    /\ QueueDrained
    /\ mQuit' = TRUE
    /\ atQuit' = IF mQuit THEN atQuit ELSE added
    /\ pc' = NotifyAll
    /\ owner' = "join"
    /\ UNCHANGED <<mTaskQueue, task, added, done, creates>>

CancelRetry ==
    /\ owner = "check"
    /\ ~QueueDrained
    /\ owner' = "spin"
    /\ UNCHANGED <<mTaskQueue, mQuit, pc, task, added, done, atQuit, creates>>

AllExited == \A w \in mThreads : pc[w] = "exit"

CancelJoin ==
    /\ owner = "join"
    /\ AllExited
    /\ pc' = [w \in Workers |-> "none"]
    /\ owner' = "idle"
    /\ UNCHANGED <<mTaskQueue, mQuit, task, added, done, atQuit, creates>>

WorkerStep(w) ==
    TestQuit(w) \/ LockedBlock(w) \/ SpuriousWakeup(w) \/ RunTask(w)

OwnerStep ==
    \/ \E S \in SUBSET Workers : CreateThreads(S)
    \/ CancelCall
    \/ CancelLock
    \/ CancelQuit
    \/ CancelRetry
    \/ CancelJoin

Next == AddTask \/ OwnerStep \/ (\E w \in Workers : WorkerStep(w))

Spec == Init /\ [][Next]_vars

(***************************************************************************)
(* Fairness: a runnable thread runs and a task returns (weak fairness); a  *)
(* thread that keeps asking for mMutex gets it, which needs strong         *)
(* fairness because the owner's busy loop takes and drops the lock.        *)
(* Nothing forces a caller to add, create or cancel.                       *)
(***************************************************************************)
Fairness ==
    /\ \A w \in Workers : /\ WF_vars(TestQuit(w))
                          /\ SF_vars(LockedBlock(w))
                          /\ WF_vars(RunTask(w))
    /\ WF_vars(CancelLock)
    /\ WF_vars(CancelQuit \/ CancelRetry)
    /\ WF_vars(CancelJoin)

FairSpec == Spec /\ Fairness
------------------------------------------------------------------------------
Running == {w \in Workers : pc[w] = "run"}
Arriving == {w \in Workers : pc[w] \in {"test", "lock"}}

TypeOK ==
    /\ mTaskQueue \in Seq(1..MaxTasks)
    /\ mQuit \in BOOLEAN
    /\ pc \in [Workers -> PC]
    /\ task \in [Workers -> 0..MaxTasks]
    /\ owner \in {"idle", "spin", "check", "join"}
    /\ added \in 0..MaxTasks
    /\ done \in SUBSET (1..MaxTasks)
    /\ atQuit \in 0..MaxTasks
    /\ creates \in Nat

\* Tasks leave the queue in the order of addTask: what is left is a suffix.
Dispatched == 1..(added - Len(mTaskQueue))

\* Every task given to addTask (13-18) is in exactly one place: in the queue,
\* with exactly one worker, or finished; none is lost and none runs twice,
\* however the pops of handleTask (38-41) interleave.
ExactlyOnce ==
    /\ Len(mTaskQueue) <= added
    /\ \A i \in 1..Len(mTaskQueue) : mTaskQueue[i] = added - Len(mTaskQueue) + i
    /\ \A w \in Running : task[w] \in Dispatched \ done
    /\ \A v, w \in Running : task[v] = task[w] => v = w
    /\ \A t \in Dispatched : t \in done \/ \E w \in Running : task[w] = t
    /\ done \subseteq Dispatched

\* When cancelThreads returns, every task added before it set mQuit has run to
\* its end (the comment at line 57: first wait until the threads have executed
\* all tasks), although the queue it looks at is empty while tasks still run.
CancelDrains == owner = "idle" /\ mQuit => 1..atQuit \subseteq done

\* A thread that sleeps on the condition variable leaves no task behind: each
\* queued task has its own thread already on its way to the lock.  addTask's
\* notify_one (17) is enough although it wakes a single thread.
NoLostWakeup ==
    Waiters # {} => Len(mTaskQueue) <= Cardinality(Arriving)

\* After mQuit no thread sleeps, so the join of cancelThreads (64-66) meets only
\* threads on their way out, also those that passed the test of mQuit before.
NoSleeperAfterQuit == mQuit => Waiters = {}

\* A task queued while the pool is open is executed, also when cancelThreads is
\* called meanwhile.
EveryTaskRuns ==
    \A t \in 1..MaxTasks :
        ((\E i \in 1..Len(mTaskQueue) : mTaskQueue[i] = t) /\ ~mQuit) ~> (t \in done)

\* cancelThreads returns, the second call of ~ThreadPool after that of
\* ~V4l2MediaSource included, unless somebody added a task after mQuit, which
\* no thread will take from the queue that it waits for.
CancelReturns == (owner = "spin") ~> (owner = "idle" \/ (mQuit /\ added > atQuit))

\* The pool implements the abstract task service.
Service == INSTANCE TaskService WITH
    pending  <- mTaskQueue,
    running  <- {task[w] : w \in Running},
    finished <- done,
    submitted <- added,
    phase    <- IF ~mQuit THEN "open" ELSE IF mThreads # {} THEN "closing" ELSE "closed"

\* createThreads and cancelThreads, with everything between, look to the callers
\* of addTask like a service that starts tasks once and in order and closes only
\* when it is drained.
ImplementsTaskService == Service!SInit /\ [][Service!SNext]_(Service!svars)
==============================================================================
