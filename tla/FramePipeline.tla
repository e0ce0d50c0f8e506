---------------------------- MODULE FramePipeline ----------------------------
(***************************************************************************)
(* The frames of MediaSource on their way round: a pool thread fills the   *)
(* frame at the head of mFrameInputQueue (V4l2MediaSource::readFrame), the *)
(* timer thread sends it and gives it back (RtpSink::timeoutCallback), and *)
(* giving it back queues the task that will fill it again.  Meanwhile the  *)
(* clients open, switch and stop devices (init, deInit), each on the       *)
(* callback thread of its own peer connection: nothing keeps two inits     *)
(* apart, so init is split at every access to what they share.             *)
(*                                                                         *)
(* The thread pool is the TaskService that ThreadPool implements: a number *)
(* of pending tasks, all equal (mTask), and threads that start them.       *)
(* readFrame keeps mMutex across poll, dqbuf, encoding and qbuf, so the    *)
(* holder is a variable; the other critical sections are single steps.     *)
(* init writes mV4l2Buf without mMutex, which is why readFrame is split    *)
(* at its reads of mV4l2Buf.                                               *)
(*                                                                         *)
(* A device stands for its file descriptor and for its buffer table too,   *)
(* even when overlapping inits open it twice.                              *)
(***************************************************************************)
EXTENDS Integers, Sequences, FiniteSets, Functions

CONSTANTS Readers,           \* the threads of the pool
          Devs,              \* video devices
          None,              \* no device, no table, no thread
          DEFAULT_FRAME_NUM, \* frames of a source
          MaxNalu,           \* H264_FRAME_MAX_NALU_NUM
          Clients,           \* peer connections, each with its callback thread
          MaxShows,          \* bound: CMD_SHOW_VIDEO commands
          StopFirst,         \* is a device shown only when none is selected?
          Faults             \* which calls may fail: "init", "poll", "dqbuf", "qbuf"

ASSUME PipelineAssumption ==
    /\ IsFiniteSet(Readers)
    /\ IsFiniteSet(Clients)
    /\ None \notin Readers \cup Devs
    /\ DEFAULT_FRAME_NUM \in Nat \ {0}
    /\ MaxNalu \in Nat
    /\ MaxShows \in Nat
    /\ StopFirst \in BOOLEAN
    /\ Faults \subseteq {"init", "poll", "dqbuf", "qbuf"}

Frames == 1..DEFAULT_FRAME_NUM
NoFrame == 0

VARIABLES
    mFrameInputQueue, mFrameOutputQueue,
    sizes,          \* number of entries of each frame's mSizeArr
    held,           \* the frame in timeoutCallback, or NoFrame
    pending,        \* tasks in the pool's queue
    reader,         \* where each pool thread is in readFrame
    mMutex,         \* the reader that holds it, or None
    mFd, mV4l2Buf,  \* the device selected and the buffer table in use
    devFdMap,       \* devices registered as open
    mFdV4l2BufMap,  \* the table registered for each of them, a partial function
    cmd, cmdDev,    \* where each client is in init, and for which device
    toAdd,          \* addTask calls that each init still has to make
    opened,         \* devices of which this process has a descriptor
    mapped,         \* devices whose table is memory-mapped
    proc,           \* "up", "crashed" or "killed"
    lost,           \* history: reads that failed since the last setFd
    initFailed,     \* history: some videoInit failed
    overlap,        \* history: have inits overlapped?  "none", "known" or "new"
    shows           \* number of CMD_SHOW_VIDEO commands so far

queueVars  == <<mFrameInputQueue, mFrameOutputQueue, sizes, held>>
readVars   == <<pending, reader, mMutex, lost>>
deviceVars == <<mFd, mV4l2Buf, devFdMap, mFdV4l2BufMap, opened, mapped>>
cmdVars    == <<cmd, cmdDev, toAdd, initFailed, overlap, shows>>
vars == <<queueVars, readVars, deviceVars, cmdVars, proc>>

\* As the constructors of MediaSource and V4l2MediaSource leave the object.
Init ==
    /\ mFrameInputQueue = [i \in Frames |-> i]
    /\ mFrameOutputQueue = <<>>
    /\ sizes = [f \in Frames |-> 0]
    /\ held = NoFrame
    /\ pending = 0
    /\ reader = [r \in Readers |-> "idle"]
    /\ mMutex = None
    /\ mFd = None
    /\ mV4l2Buf = None
    /\ devFdMap = {}
    /\ mFdV4l2BufMap = [d \in {} |-> None]
    /\ cmd = [c \in Clients |-> "idle"]
    /\ cmdDev = [c \in Clients |-> None]
    /\ toAdd = [c \in Clients |-> 0]
    /\ opened = {}
    /\ mapped = {}
    /\ proc = "up"
    /\ lost = 0
    /\ initFailed = FALSE
    /\ overlap = "none"
    /\ shows = 0

Up == proc = "up"
MutexFree == mMutex = None
Move(r, to) == reader' = [reader EXCEPT ![r] = to]
------------------------------------------------------------------------------
\* Pool threads: taskCallback and readFrame.

TakeTask(r) ==
    /\ Up
    /\ reader[r] = "idle"
    /\ pending > 0
    /\ pending' = pending - 1
    /\ Move(r, "ready")
    /\ UNCHANGED <<queueVars, mMutex, lost, deviceVars, cmdVars, proc>>

\* The two early returns under the lock.
OnlyIfEmpty == mFrameInputQueue = <<>>
OnlyIfNoDevice == mFd = None
NothingToRead == mFrameInputQueue = <<>> \/ mFd = None

ReadReturn(r) ==
    /\ Up
    /\ reader[r] = "ready"
    /\ MutexFree
    /\ NothingToRead
    /\ Move(r, "idle")
    /\ UNCHANGED <<queueVars, pending, mMutex, lost, deviceVars, cmdVars, proc>>

ReadLock(r) ==
    /\ Up
    /\ reader[r] = "ready"
    /\ MutexFree
    /\ ~NothingToRead
    /\ mMutex' = r
    /\ Move(r, "poll")
    /\ UNCHANGED <<queueVars, pending, lost, deviceVars, cmdVars, proc>>

PollReady(r) ==
    /\ Up
    /\ reader[r] = "poll"
    /\ Move(r, "dqbuf")
    /\ UNCHANGED <<queueVars, pending, mMutex, lost, deviceVars, cmdVars, proc>>

\* A failed poll (a timeout of three seconds counts), dqbuf or qbuf: the task
\* is over, the frame stays at the head and no new task is added.
ReadFails(r) ==
    /\ Up
    /\ reader[r] \in Faults \cap {"poll", "dqbuf", "qbuf"}
    /\ mMutex' = None
    /\ lost' = lost + 1
    /\ Move(r, "idle")
    /\ UNCHANGED <<queueVars, pending, deviceVars, cmdVars, proc>>

\* dqbuf on a table that is NULL, or on a buffer of it that is not mapped yet,
\* dereferences a null pointer; while v4l2_mmap runs, some buffers are mapped.
TableMapped == mV4l2Buf \in mapped
TablePartlyMapped == mV4l2Buf # None /\ \E c \in Clients : cmd[c] = "mmap"

\* dqbuf and encoder: the encoder appends one entry per NALU to mSizeArr.
DequeueAndEncode(r) ==
    /\ Up
    /\ reader[r] = "dqbuf"
    /\ TableMapped \/ TablePartlyMapped
    /\ \E k \in 0..MaxNalu :
          sizes' = [sizes EXCEPT ![Head(mFrameInputQueue)] = @ + k]
    /\ Move(r, "qbuf")
    /\ UNCHANGED <<mFrameInputQueue, mFrameOutputQueue, held, pending, mMutex, lost,
                   deviceVars, cmdVars, proc>>

KeepHead == mFrameInputQueue
PopHead == Tail(mFrameInputQueue)

RequeueAndPush(r) ==
    /\ Up
    /\ reader[r] = "qbuf"
    /\ mV4l2Buf # None
    /\ mFrameOutputQueue' = Append(mFrameOutputQueue, Head(mFrameInputQueue))
    /\ mFrameInputQueue' = PopHead
    /\ mMutex' = None
    /\ Move(r, "idle")
    /\ UNCHANGED <<sizes, held, pending, lost, deviceVars, cmdVars, proc>>

ReadCrash(r) ==
    /\ Up
    /\ \/ reader[r] = "dqbuf" /\ ~TableMapped
       \/ reader[r] = "qbuf" /\ mV4l2Buf = None
    /\ proc' = "crashed"
    /\ UNCHANGED <<queueVars, readVars, deviceVars, cmdVars>>
------------------------------------------------------------------------------
\* Timer thread: timeoutCallback.

SinkGet ==
    /\ Up
    /\ held = NoFrame
    /\ MutexFree
    /\ mFrameOutputQueue # <<>>
    /\ held' = Head(mFrameOutputQueue)
    /\ mFrameOutputQueue' = Tail(mFrameOutputQueue)
    /\ UNCHANGED <<mFrameInputQueue, sizes, readVars, deviceVars, cmdVars, proc>>

\* putFrame clears mSizeArr and queues the task that refills the frame.
ClearedNothing == sizes
Cleared == [sizes EXCEPT ![held] = 0]
NoTask == pending
OneMoreTask == pending + 1

\* handleFrame only reads the frame it holds; putFrame is under the lock.
SinkPut ==
    /\ Up
    /\ held # NoFrame
    /\ MutexFree
    /\ sizes' = Cleared
    /\ mFrameInputQueue' = Append(mFrameInputQueue, held)
    /\ held' = NoFrame
    /\ pending' = OneMoreTask
    /\ UNCHANGED <<mFrameOutputQueue, reader, mMutex, lost, deviceVars, cmdVars, proc>>
------------------------------------------------------------------------------
\* Callback threads: init (CMD_SHOW_VIDEO) and deInit (CMD_STOP_SHOW_VIDEO).

Go(c, to) == cmd' = [cmd EXCEPT ![c] = to]

MayShow(c) ==
    /\ Up
    /\ cmd[c] = "idle"
    /\ shows < MaxShows
    /\ StopFirst => mFd = None

\* The inits of other clients that are between their first and their last access
\* to the devices.
InInit(e) == cmd[e] \notin {"idle", "addTasks"}
Opening(e) == InInit(e) /\ cmd[e] # "reopen"
Others(c) == {e \in Clients \ {c} : InInit(e)}

TasksOffByOne == DEFAULT_FRAME_NUM + 1
TasksOfInit == DEFAULT_FRAME_NUM

\* setFd, which waits for mMutex, followed by DEFAULT_FRAME_NUM addTask calls.
Select(c, d) ==
    /\ MutexFree
    /\ mFd' = d
    /\ lost' = 0
    /\ toAdd' = [toAdd EXCEPT ![c] = TasksOfInit]

\* Two inits of known devices that overlap do harm until the next init that is
\* alone; one that overlaps with the init of a new device may do so for ever.
ShowKnown(c, d) ==
    /\ MayShow(c)
    /\ d \in devFdMap
    /\ Select(c, d)
    /\ Go(c, "reopen")
    /\ cmdDev' = [cmdDev EXCEPT ![c] = d]
    /\ shows' = shows + 1
    /\ overlap' = IF overlap = "new" \/ \E e \in Others(c) : Opening(e) THEN "new"
                  ELSE IF Others(c) = {} THEN "none" ELSE "known"
    /\ UNCHANGED <<queueVars, pending, reader, mMutex, mV4l2Buf, devFdMap, mFdV4l2BufMap,
                   opened, mapped, initFailed, proc>>

KeepTable(d) == mV4l2Buf
TableOf(d) == IF d \in DOMAIN mFdV4l2BufMap THEN mFdV4l2BufMap[d] ELSE None

\* An entry that exists stays as it is: try_emplace, and operator[] with None.
Emplaced(d, table) ==
    IF d \in DOMAIN mFdV4l2BufMap THEN mFdV4l2BufMap
    ELSE [e \in DOMAIN mFdV4l2BufMap \cup {d} |-> IF e = d THEN table ELSE mFdV4l2BufMap[e]]

ReopenTable(c) ==
    /\ Up
    /\ cmd[c] = "reopen"
    /\ mV4l2Buf' = TableOf(cmdDev[c])
    /\ mFdV4l2BufMap' = Emplaced(cmdDev[c], None)
    /\ Go(c, "addTasks")
    /\ UNCHANGED <<queueVars, readVars, mFd, devFdMap, opened, mapped, cmdDev, toAdd,
                   initFailed, overlap, shows, proc>>

ShowNew(c, d) ==
    /\ MayShow(c)
    /\ d \notin devFdMap
    /\ Go(c, "kill")
    /\ cmdDev' = [cmdDev EXCEPT ![c] = d]
    /\ shows' = shows + 1
    /\ overlap' = IF Others(c) = {} THEN overlap ELSE "new"
    /\ UNCHANGED <<queueVars, readVars, deviceVars, toAdd, initFailed, proc>>

\* fuser -k kills whoever has the device open, this process included.
KillUsers(c) ==
    /\ Up
    /\ cmd[c] = "kill"
    /\ \/ /\ cmdDev[c] \in opened
          /\ proc' = "killed"
          /\ cmd' = cmd
       \/ /\ cmdDev[c] \notin opened
          /\ Go(c, "open")
          /\ proc' = proc
    /\ UNCHANGED <<queueVars, readVars, deviceVars, cmdDev, toAdd, initFailed, overlap, shows>>

\* videoInit up to v4l2_s_parm.
OpenDevice(c) ==
    /\ Up
    /\ cmd[c] = "open"
    /\ opened' = opened \cup {cmdDev[c]}
    /\ Go(c, "reqbufs")
    /\ UNCHANGED <<queueVars, readVars, mFd, mV4l2Buf, devFdMap, mFdV4l2BufMap, mapped,
                   cmdDev, toAdd, initFailed, overlap, shows, proc>>

\* v4l2_reqbufs: from here on mV4l2Buf is the new table, not mapped yet.
RequestBuffers(c) ==
    /\ Up
    /\ cmd[c] = "reqbufs"
    /\ mV4l2Buf' = cmdDev[c]
    /\ mapped' = mapped \ {cmdDev[c]}
    /\ Go(c, "mmap")
    /\ UNCHANGED <<queueVars, readVars, mFd, devFdMap, mFdV4l2BufMap, opened,
                   cmdDev, toAdd, initFailed, overlap, shows, proc>>

\* querybuf, mmap and qbuf_all each read mV4l2Buf again: when another init has set
\* it meanwhile, they may work on either table.
TablesAtHand(c) == {cmdDev[c], mV4l2Buf} \ {None}

MapAndStream(c) ==
    /\ Up
    /\ cmd[c] = "mmap"
    /\ mV4l2Buf # None
    /\ \E table \in TablesAtHand(c) : mapped' = mapped \cup {table}
    /\ Go(c, "select")
    /\ UNCHANGED <<queueVars, readVars, mFd, mV4l2Buf, devFdMap, mFdV4l2BufMap, opened,
                   cmdDev, toAdd, initFailed, overlap, shows, proc>>

\* videoInit gives up: the descriptor stays open (unless open itself failed), and
\* mV4l2Buf is what v4l2_reqbufs left in it.  The driver refuses a second owner of
\* its buffers and another device's table, so overlapping inits may fail always.
InitFails(c) ==
    /\ Up
    /\ "init" \in Faults \/ overlap = "new"
    /\ cmd[c] \in {"open", "reqbufs", "mmap"}
    /\ mV4l2Buf' = IF cmd[c] = "reqbufs" THEN None ELSE mV4l2Buf
    /\ opened' \in IF cmd[c] = "open" THEN {opened, opened \cup {cmdDev[c]}} ELSE {opened}
    /\ \E tables \in SUBSET TablesAtHand(c) :
          mapped' = IF cmd[c] = "mmap" THEN mapped \cup tables ELSE mapped
    /\ Go(c, "idle")
    /\ initFailed' = TRUE
    /\ UNCHANGED <<queueVars, readVars, mFd, devFdMap, mFdV4l2BufMap, cmdDev, toAdd,
                   overlap, shows, proc>>

SelectNew(c) ==
    /\ Up
    /\ cmd[c] = "select"
    /\ Select(c, cmdDev[c])
    /\ Go(c, "emplaceFd")
    /\ overlap' = IF overlap = "new" THEN "new" ELSE "none"
    /\ UNCHANGED <<queueVars, pending, reader, mMutex, mV4l2Buf, devFdMap, mFdV4l2BufMap,
                   opened, mapped, cmdDev, initFailed, shows, proc>>

EmplaceFd(c) ==
    /\ Up
    /\ cmd[c] = "emplaceFd"
    /\ devFdMap' = devFdMap \cup {cmdDev[c]}
    /\ Go(c, "emplaceTable")
    /\ UNCHANGED <<queueVars, readVars, mFd, mV4l2Buf, mFdV4l2BufMap, opened, mapped,
                   cmdDev, toAdd, initFailed, overlap, shows, proc>>

\* The table is the one in use at this moment.
EmplaceTable(c) ==
    /\ Up
    /\ cmd[c] = "emplaceTable"
    /\ mFdV4l2BufMap' = Emplaced(cmdDev[c], mV4l2Buf)
    /\ Go(c, "addTasks")
    /\ UNCHANGED <<queueVars, readVars, mFd, mV4l2Buf, devFdMap, opened, mapped,
                   cmdDev, toAdd, initFailed, overlap, shows, proc>>

InitAddTask(c) ==
    /\ Up
    /\ cmd[c] = "addTasks"
    /\ toAdd[c] > 0
    /\ pending' = pending + 1
    /\ toAdd' = [toAdd EXCEPT ![c] = @ - 1]
    /\ Go(c, IF toAdd[c] = 1 THEN "idle" ELSE "addTasks")
    /\ UNCHANGED <<queueVars, reader, mMutex, lost, deviceVars, cmdDev, initFailed,
                   overlap, shows, proc>>

\* A null table in querybuf, or an insertion into one of the maps while another
\* thread searches it or inserts too, a data race.
FdMapRace(c) ==
    /\ MayShow(c) \/ cmd[c] = "emplaceFd"
    /\ \E e \in Clients \ {c} : cmd[e] = "emplaceFd"

BufMapRace(c) ==
    /\ cmd[c] \in {"reopen", "emplaceTable"}
    /\ \E e \in Clients \ {c} :
          \/ cmd[e] = "emplaceTable"
          \/ cmd[e] = "reopen" /\ cmdDev[e] \notin DOMAIN mFdV4l2BufMap

InitCrash(c) ==
    /\ Up
    /\ \/ cmd[c] = "mmap" /\ mV4l2Buf = None /\ overlap' = overlap
       \/ (FdMapRace(c) \/ BufMapRace(c)) /\ overlap' = "new"
    /\ proc' = "crashed"
    /\ UNCHANGED <<queueVars, readVars, deviceVars, cmd, cmdDev, toAdd, initFailed, shows>>

Stop(c) ==
    /\ Up
    /\ cmd[c] = "idle"
    /\ MutexFree
    /\ mFd # None
    /\ mFd' = None
    /\ UNCHANGED <<queueVars, readVars, mV4l2Buf, devFdMap, mFdV4l2BufMap, opened, mapped,
                   cmdVars, proc>>
------------------------------------------------------------------------------
\* The steps of each thread once it has begun readFrame, timeoutCallback or init.
ReadGoesOn(r) ==
    \/ ReadReturn(r)
    \/ ReadLock(r)
    \/ PollReady(r)
    \/ ReadFails(r)
    \/ DequeueAndEncode(r)
    \/ RequeueAndPush(r)
    \/ ReadCrash(r)

InitGoesOn(c) ==
    \/ ReopenTable(c)
    \/ KillUsers(c)
    \/ OpenDevice(c)
    \/ RequestBuffers(c)
    \/ MapAndStream(c)
    \/ SelectNew(c)
    \/ EmplaceFd(c)
    \/ EmplaceTable(c)
    \/ InitAddTask(c)
    \/ InitCrash(c)

Read(r) == TakeTask(r) \/ ReadGoesOn(r)

Command(c) ==
    \/ \E d \in Devs : ShowKnown(c, d) \/ ShowNew(c, d)
    \/ InitGoesOn(c)
    \/ InitFails(c)
    \/ Stop(c)

Next ==
    \/ \E r \in Readers : Read(r)
    \/ SinkGet
    \/ SinkPut
    \/ \E c \in Clients : Command(c)

Spec == Init /\ [][Next]_vars

(***************************************************************************)
(* Fairness: the timer fires again and again and the pool's threads run    *)
(* (weak fairness of TakeTask); whoever waits for mMutex gets it in the    *)
(* end, although readers take it over and over (strong fairness; a thread  *)
(* is at one step at a time); poll ends, within three seconds at the       *)
(* latest.  No client has to send a command.                               *)
(***************************************************************************)
Fairness ==
    /\ \A r \in Readers : WF_vars(TakeTask(r)) /\ SF_vars(ReadGoesOn(r))
    /\ SF_vars(SinkGet \/ SinkPut)
    /\ \A c \in Clients : SF_vars(InitGoesOn(c))

FairSpec == Spec /\ Fairness
------------------------------------------------------------------------------
InReader == {r \in Readers : reader[r] \in {"poll", "dqbuf", "qbuf"}}
Active == {r \in Readers : reader[r] # "idle"}
ToAdd == {call \in Clients \X Frames : call[2] <= toAdd[call[1]]}

QueueTypes ==
    /\ mFrameInputQueue \in Seq(Frames)
    /\ mFrameOutputQueue \in Seq(Frames)
    /\ sizes \in [Frames -> Nat]
    /\ held \in Frames \cup {NoFrame}

ReadTypes ==
    /\ pending \in Nat
    /\ reader \in [Readers -> {"idle", "ready", "poll", "dqbuf", "qbuf"}]
    /\ mMutex \in Readers \cup {None}
    /\ lost \in Nat

DeviceTypes ==
    /\ mFd \in Devs \cup {None}
    /\ mV4l2Buf \in Devs \cup {None}
    /\ devFdMap \in SUBSET Devs
    /\ DOMAIN mFdV4l2BufMap \subseteq Devs
    /\ mFdV4l2BufMap \in [DOMAIN mFdV4l2BufMap -> Devs \cup {None}]
    /\ opened \in SUBSET Devs
    /\ mapped \in SUBSET Devs

CmdTypes ==
    /\ cmd \in [Clients -> {"idle", "reopen", "kill", "open", "reqbufs", "mmap", "select",
                            "emplaceFd", "emplaceTable", "addTasks"}]
    /\ cmdDev \in [Clients -> Devs \cup {None}]
    /\ toAdd \in [Clients -> 0..DEFAULT_FRAME_NUM]
    /\ initFailed \in BOOLEAN
    /\ overlap \in {"none", "known", "new"}
    /\ shows \in 0..MaxShows

TypeOK ==
    /\ QueueTypes
    /\ ReadTypes
    /\ DeviceTypes
    /\ CmdTypes
    /\ proc \in {"up", "crashed", "killed"}

ToFill == Range(mFrameInputQueue)
ToSend == Range(mFrameOutputQueue)

\* Each of the DEFAULT_FRAME_NUM frames is in exactly one place: to be filled, to
\* be sent, or with the sink; no frame is dropped or duplicated on any path of
\* readFrame (113-150), timeoutCallback (45-55) and putFrame.
FrameOwnership ==
    /\ IsInjective(mFrameInputQueue)
    /\ IsInjective(mFrameOutputQueue)
    /\ ToFill \cap ToSend = {}
    /\ held \notin ToFill \cup ToSend
    /\ ToFill \cup ToSend \cup ({held} \ {NoFrame}) = Frames

\* One reader at a time is between the lock and the unlock of readFrame, and it
\* has a frame to fill: nobody empties mFrameInputQueue under it.
OneReader ==
    \A r \in InReader : mMutex = r /\ mFrameInputQueue # <<>>

\* While a device is selected, a frame that waits to be filled has a task to fill
\* it: queued, being executed, still to be added by init, or lost in a failed
\* read (129-145 return without adding the task again).  So the stream survives
\* fewer failures than there are frames, and nothing else uses tasks up.
TasksCoverFrames ==
    mFd # None =>
        Len(mFrameInputQueue) <= pending + Cardinality(Active) + Cardinality(ToAdd) + lost

InAssignment(c) == cmd[c] \in {"reopen", "mmap", "select"}

\* Unless some init failed, the table readFrame uses is that of the device it
\* reads, except while an init is between its two unlocked assignments (40-41,
\* 207-62).  Inits of clients that overlap break this: those of two known devices
\* until the next init that is alone, one of a new device for ever.
TableMatchesFd ==
    ~initFailed /\ overlap = "none" /\ mFd # None =>
        mV4l2Buf = mFd \/ \E c \in Clients : InAssignment(c)

\* init runs "fuser -k" on a device this process has open only after a failed
\* init left a descriptor behind, or when the init of a new device overlaps with
\* another: opening devices one after the other does not kill us.
KillNeeds == proc = "killed" => initFailed \/ overlap = "new"

\* When a device is shown only when none is selected and no init fails, it takes
\* the init of a new device that overlaps with another for readFrame or init to
\* meet a table that is NULL or not mapped, for a map to break or for fuser to
\* kill us.  Tasks left over from the last device that run during init, a stop
\* during init and overlapping inits of known devices do no such harm.
OnlyOverlapsCrash == proc # "up" => overlap = "new"

\* When no qbuf fails, a frame that waits to be filled has an empty mSizeArr, so
\* the sizes the sink reads belong to the NALUs of this frame and of no other.
FreshSizes ==
    /\ \A f \in Frames : sizes[f] <= MaxNalu
    /\ \A f \in ToFill : sizes[f] > 0 =>
          /\ f = Head(mFrameInputQueue)
          /\ \E r \in Readers : reader[r] = "qbuf"

\* A frame has at most H264_FRAME_MAX_NALU_NUM NALUs (Base.h:12).
NaluBound == \A f \in Frames : sizes[f] <= MaxNalu

\* A stream that is not stopped keeps moving, whatever the order of the three
\* threads on mMutex: the sink gets frames and gives them back for ever, as long as
\* fewer reads have failed since the last setFd than there are frames.
StreamMoves ==
    <>[](Up /\ mFd # None /\ lost < DEFAULT_FRAME_NUM) =>
        []<>(held # NoFrame) /\ []<>(held = NoFrame)
==============================================================================
