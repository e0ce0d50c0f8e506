# A TLA+ verification of rtc_server

rtc_server captures video (a camera through V4L2 on Linux, the screen on Windows), encodes
it as H.264, cuts the NALUs into RTP packets at the pace of a timer, and sends them over a
WebRTC track. Clients talk to it through a WebSocket (signalling) and a data channel
(commands such as "show this device"). This directory holds TLA+ models of its components
and their interplay, TLC configurations that check them on small instances, and TLAPS proofs
that hold for every size.

All paths below are relative to the repository's `src/` unless they begin with `src/main.cpp`.

## 1. The system

Threads: the *pool threads* read and encode frames; the *timer thread* (or, on Linux, the
event loop) calls the sink's `timeoutCallback`, which sends a frame; the *callback threads* of
the WebRTC library, one for each client, deliver client messages and run the command processors
of `main.cpp`, which nothing keeps apart; on
Windows the *capture's thread* runs `FrameArrived`; the *main thread*, the owner, builds and
destroys everything.

| component | state | operations | modelled in |
|---|---|---|---|
| thread pool, `threadpool/` | `mTaskQueue`, `mThreads`, `mQuit`, a mutex and a condition variable | `addTask`, `createThreads`, `cancelThreads`, `handleTask` | ThreadPool, TaskService |
| media source, `media/MediaSource.cpp`, `media/v4l2/` | the two frame queues, `mFd`, `mV4l2Buf`, maps device → fd → buffer table | `getFrame`, `putFrame`, `readFrame`, `init`, `deInit`, `videoInit`, `videoExit` | FramePipeline; V4l2Device |
| V4L2 calls, `v4l2/` | the buffer table and what it maps | `v4l2_open` to `v4l2_close` | V4l2Device; `poll`, `dqbuf`, `qbuf` in FramePipeline |
| encoder, `encoder/linux/` | none | `encoder` | NaluParser, by what it parses |
| NALU parsing, `utils/`, `media/win/` | none | `parseH264` (two versions) | NaluParser |
| RTP sink, `rtp/` | `mSeq`, `mTimestamp`, `mTimerId`, one packet buffer | `handleFrame`, `sendRtpPacket`, `timeoutCallback`, `start`, `stop`, destructor | RtpPacketizer; WinCapture |
| timer manager, `timer/win/` | priority queue, cancelled ids, `mQuit`, a thread | `addTimer`, `removeTimer`, `timerLoop`, destructor | WinTimerManager, TimerService |
| timer manager, `timer/linux/` | the same queue, a timerfd | the same, driven by the poller | LinuxTimerManager |
| events and poller, `event/`, `poller/` | fd sets, map fd → event | `addIOEvent`, `updateIOEvent`, `removeIOEvent`, `handleEvent` | SelectPoller |
| WebRTC session, `webrtc/` | `pc`, `track`, `mDc`, `client`, `outputBuf` | library callbacks, command dispatch, `sendVideoPacket`, `sendCtlPacket` | WebrtcSession |
| screen capture, `media/win/` | encoder and its mutex, capture session, the frame queues | `FrameArrived`, `ProcessH264Output`, `startCapture`, `stopCapture`, `videoExit` | WinCapture (all but the pacing clock) |
| commands, `src/main.cpp` | none | show, stop, disconnect; Klipper and calibration commands | FramePipeline (show, stop), WebrtcSession (replies, positions, disconnect) |

How they interact. On Linux `init` selects a device and adds one task per frame. Each task is
one `readFrame`: poll the device, encode a buffer into the frame at the head of
`mFrameInputQueue`, move the frame to `mFrameOutputQueue`. The timer fires
`RtpSink::timeoutCallback`, which takes a frame with `getFrame`, sends its packets through
`Webrtc::sendVideoPacket`, and returns it with `putFrame`; that clears `mSizeArr` and adds the
task that will fill the frame again. So a *frame* and a *task* circulate together; this is
what FramePipeline is about. On Windows the same two queues are filled by the capture's thread,
and in the end by the owner, who drains the encoder; there is no pool. `Webrtc` has five members
that the library's callbacks write and the sender reads without a lock.

The Windows part is what the CMake files build at this commit; `main.cpp`, the WebRTC part and
the Linux event loop are there as source, but refer to classes that are no longer in the
repository (`EventScheduler`, `Klipper`, `NozzleCalib`, `IOEvent::createNew`). We model the
sources as they stand, and what is not in the repository only through its use.

What is hard here, with lines, is the list `hazards` in PROJECT.json. In short: wakeups and
shutdown of the pool; two readers (the pool's threads are created twice) and a timer thread on
two queues; tasks lost in failed reads; a buffer table replaced without the lock, also by two clients
that show a device at the same time; mappings left
by a cleanup that is one off; callbacks that run outside the timer's lock while their timer, or
their object, is removed; event handlers called from a stale list; fragment and start-code
boundaries; objects of the session replaced under the sender; an encoder that is ended while a
callback waits for it.

What makes each component correct. *Pool*: each task runs once, no task waits while a thread
sleeps, shutdown drains and returns. *Source*: a frame is in one place, a frame that waits to
be filled has a task, table and device belong together, the stream does not stop by itself.
*V4L2*: a plane has an address in its table exactly while it is mapped; what was set up is
released. *Parser*: it yields the NALUs that were written. *Sink*: a receiver can number,
reassemble and delimit what is sent. *Timers*: a timer is freed once, never fires early, a
removed timer is silent, the thread sleeps no longer than it may, the timerfd is set for the
next timer that will fire, and a callback that behaves cannot make the loop pop another timer.
*Poller*: select watches what is registered, and handlers may add, change and remove events
without disturbing the others. *Session*: clients that come one after the other never meet, and
the sender uses an object that a callback took away only in known cases. *Capture*: frames keep
the order of the screen, and teardown ends and leaves nothing in use, but for known cases.

## 2. Modules

| module | what it is |
|---|---|
| `TaskService` | what a pool promises, without threads and locks |
| `ThreadPool` | `ThreadPool.cpp`; implements `TaskService` |
| `FramePipeline` | `MediaSource.cpp`, `V4l2MediaSource.cpp` and their callers |
| `V4l2Device` | `videoInit` and `videoExit` with the calls of `V4l2.cpp`, one by one |
| `TimerService` | what a timer manager promises, without queues, deadlines and locks |
| `WinTimerManager` | `timer/win/TimerManager.cpp` and `Timer.h`; implements `TimerService` |
| `LinuxTimerManager` | `timer/linux/TimerManager.cpp`, `Timer.h`, and the loop of `SelectPoller.cpp` around them; implements `TimerService` until it is misused |
| `SelectPoller` | `SelectPoller.cpp`, `Event.cpp` and `Event.h`, with handlers that call back |
| `NaluChannel` | what an RTP sink promises to a receiver, without packets |
| `NaluParser` | both `parseH264` as operators, and the stream they should parse |
| `RtpPacketizer` | `H264RtpSink::handleFrame` and `RtpSink::sendRtpPacket`, behind a parser; implements `NaluChannel` |
| `WebrtcSession` | `Webrtc.cpp`, `Webrtc.h` and the parts of `main.cpp` that answer commands |
| `WinCapture` | `WinCapMediaSource.cpp` with `RtpSink.cpp`, over an instance of `TimerService` |
| `MC*` | instances for TLC |
| `ThreadPoolProofs`, `StreamProofs`, `DeviceProofs`, `WinTimerProofs`, `LinuxTimerProofs`, `SelectPollerProofs`, `SessionProofs`, `CaptureProofs` | theorems and proofs |

Composition: ThreadPool implements TaskService, whose pending tasks are all that FramePipeline
needs of a pool; both timer managers implement TimerService, an instance of which is the timer manager
of WinCapture; RtpPacketizer extends NaluParser, sends what it parsed, and implements NaluChannel.
StreamProofs extends FramePipeline and RtpPacketizer, the two halves of a frame's way, side by side:
they share no variable, and for its sake the second one's definitions are `RtpInit`, `RtpNext`, `RtpSpec`.

Operators that no action uses (`NotifyNobody`, `KeepHead`, `FromNow`, `CleanedNothing`, …) stand
beside the operator they differ from: they are plausible mistakes in that line, and PROJECT.json
lists which property notices each of them.

### ThreadPool

`mTaskQueue` and `mQuit` are the code's. `pc[w]` says where a thread is: `none` (no such
thread), `test` (at `while (!mQuit)`, which reads `mQuit` without the lock), `lock` (waiting for
the mutex, at first or after a wakeup), `wait` (in `mCondition.wait`), `run`, `exit`. A critical
section is one action (`TakeTask`, `LeaveLoop`, `WaitForTask`), because everything it touches is
touched under the lock only. The exception is `cancelThreads`, which re-takes the mutex in a
busy loop until the queue is empty: `owner` is `spin`, `check` (holding the mutex) or `join`.
`task` keeps its old value when a woken thread leaves, as the local variable of `handleTask`
does. `CreateThreads` may be called again, as `V4l2MediaSource`'s constructor does, and after a
`cancelThreads`.

### FramePipeline

The pool is a number of pending tasks and threads that start them: what TaskService promises.
`reader[r]` is `idle`, `ready` (before the lock), `poll`, `dqbuf` or `qbuf`. `readFrame` holds
`mMutex` from the test of the queue to its end, so `mMutex` names its holder, while `getFrame`,
`putFrame` and `setFd` are short and single steps. `init` runs on the callback thread of the client that
sent the command, writes `mV4l2Buf` and both maps without the lock, and may run for several clients at
once. So `cmd`, `cmdDev` and `toAdd` are functions of the client, and each access of `init` to what inits share is
a step: `ShowKnown` and `ReopenTable` (lines 40 and 41) for a device of `devFdMap`, and `ShowNew`, `KillUsers` (50), `OpenDevice`,
`RequestBuffers` (207), `MapAndStream`, `SelectNew` (62), `EmplaceFd` (63), `EmplaceTable` (64) for a new one; then `InitAddTask`.
`videoInit` may fail before or after `mV4l2Buf` was replaced. `killProcessUsingDevice` ends the process when it has the device open
itself, which the init of another client may have done a moment ago. An insertion into a map while another thread searches it is a data
race, which `InitCrash` turns into a crash (`FdMapRace`, `BufMapRace`); that it may also go well are the behaviours in which
`InitCrash` is not taken. `mFdV4l2BufMap[fd]` (41) and `try_emplace` keep an entry that exists (`Emplaced`).

`overlap` records whether inits have overlapped between their first and last access to the devices: `known`, when all were of devices already
in `devFdMap` (it goes back to `none` with the next init that is alone), or `new`, when one of them was opening a device, which stays. Two inits of known
devices may do 40, 40, 41, 41 and leave `mFd` on one device with the table of the other. With a new device it is worse: the wrong table may be registered
for good (64), a null entry be made between 63 and 64, a device be selected (62) while another init has just put its unmapped table
in `mV4l2Buf` (207), or fuser find our own descriptor (50). All of this happens in the runs, with no call failing, and the properties
below say exactly what it takes.

A device stands for its descriptor and its table, also when overlapping inits open it twice; that the driver then refuses the second is an init that fails
(`InitFails`). `Faults` names the calls that may fail; with `StopFirst` a device is shown only when none is selected.

### V4l2Device

The same source seen from the kernel, on one thread: descriptors open, planes mapped, streams on,
and the `start` of each plane in the table. The n-th open gives descriptor n and table n. Every
call may fail; a failed one is `GiveUp`, which leaves the descriptor open as `videoInit` does.
`v4l2_mmap` maps plane by plane (`MapPlane`), and `MapFails` is its `err` label, whose loops begin one
buffer too low (`Cleaned`): what it unmaps and forgets, and what it leaves. The destructor is
`Streamoff`, `Munmap`, `Relbufs`, `Free`, `CloseFd`, each of which ends it on failure; `Free` may abort,
because `free(mV4l2Buf->buf)` reads memory that was just freed. Calls that only query or set a
format are the single step `Configure`. History variables record which calls failed.

### WinTimerManager and TimerService

A timer is its id. `loop` says where `timerLoop` is; in `pass` it holds the mutex. The two waits
(`wait`, `waitFor`) and the callback (`fire`) release it; what follows a wakeup is
`recheck` or a new pass. `addTimer` and `removeTimer` are two steps each: the critical section,
and the notification after it. A caller that acts while `loop = "fire"` may be the callback
itself. Time is a counter; `Tick` may happen at any moment, so that a wait may end late.
Equal deadlines leave the choice of the top open, as `std::priority_queue` does.

TimerService has four variables: timers `known`, those `armed`, the one whose callback is running,
and whether the service is `open`. Callbacks run one at a time and only of armed timers; `Remove` returns at
once although the callback may be running. The refinement maps `armed` to the timers in the queue or
in `cur` that nobody removed. WinCapture uses these actions, not the manager's.

### LinuxTimerManager

Here everything runs on the event loop's thread, and what interleaves is calls: `addTimer` and
`removeTimer` may come while the loop is in `select`, from another descriptor's handler between
`select` and `handleRead` (`ready`), or from a timer's callback (`callback`). `handleTimerEvent` is
one action per turn of its loop: `DropCancelled`, `Fire` (the call of the callback, with the
timer still queued), `Popped` (what follows its return), and `Leave`, which calls `modifyTimeout`.
`ModifyTimeout` stands for its whole loop: `Purges` are the sets of cancelled timers that may come
before the first that is not cancelled. Nobody reads the timerfd, so it stays readable until it
is set again: the model keeps `alarm`, its `it_value`, and `select` reports it exactly when
`alarm` has passed. Timers with equal deadlines come out of the heap in any order, except that
nothing added during a callback rises above the timer whose callback it is, as `push_heap` moves a
new element past greater ones only. Timestamps are at least 1, as those of a running machine are.
If the top after a callback is not the timer that fired, the code pops a timer it should not, and
then uses one that was deleted or is in the queue twice: the model ends in `loop = "astray"`. So it
does when the destructor (`Destroy`) comes within an iteration, since the poller's list or the loop of
`handleTimerEvent` goes on with what it deleted; outside one it ends in `loop = "gone"`. The history variable `misused`
says whether a callback removed its own timer or added one that is due before its own, or the manager was
destroyed within an iteration. The repository's own callback, `RtpSink::timeoutCallback`, does none of these. As TimerService the manager
has a `firing` timer while `loop = "callback"`; what happens on the way to `astray` is outside the service.

### SelectPoller

The three `fd_set`s are the function `watched`; `mEventMap` and `mMaxNumSockets` are the code's. One
iteration of the loop is `Select` (which collects `mEvents`), `CallHandler` for each in the order of the map,
`BeginCallback` and `EndCallback` for each kind reported, `HandlerReturns`, `EndPass`. In `idle` and
`callback` clients run: they create, update, remove, delete events and close descriptors, each as
often as they like. `Update` is both `addIOEvent` and `updateIOEvent`, which are the same call: it keeps
an event that the descriptor already had (line 45). `Remove` erases the descriptor's entry, whichever
event it holds. An access to a deleted event ends in `loop = "dangling"`; `EndCallback` has the one
that is easy to overlook, the read of the next callback from an event that its own callback deleted.
`registered`, `removedNow`, `crossed` and `misused` are histories of what clients did.

### NaluParser and RtpPacketizer

Bytes are 0, 1 and 2, which stands for every other value: no test of the code tells more apart.
`UtilsParseH264` and `CaptureParseH264` translate the two loops: `UtilsStep` and `CaptureStep` are one round
(`Advance` is how far the scan skips), `UtilsScan` and `CaptureScan` the state of the loop after each round as a function,
`Take` the copying of a NALU into the frame or its being dropped. `AnnexB` is the reference: the stream of a list of NALUs;
`CodePos`, `FirstByte`, `Kept` and `Rank` say where those NALUs are in it, which are short enough, and in which place of
the result each belongs.

RtpPacketizer is one step per packet. `frame`, `nalu`, `i` and `pos` are the loop variables of
`handleFrame`; a packet carries a range of byte offsets of its NALU, and its FU header's S and E bits are its
`kind`. `mSeq` and `mTimestamp` wrap (`SeqWrap`, `TsWrap` stand for 2^16 and 2^32). The SPS/PPS
test at `H264RtpSink.cpp:32` only `continue`s at the end of the loop body, so there is nothing
to model. The RTP header's constant fields are left out.

NaluChannel has the NALUs of a frame arrive one by one. The refinement maps its `next` to `nalu`, and what has `arrived`
to what a receiver can put together of the packets sent: `Arrived` looks at the packets only, at their kinds, numbers
and byte ranges, and not at the state of the sender.

### WebrtcSession

The five members are variables of their names; the n-th offer makes peer connection, track and
data channel n, and 0 is null. `createPeerConnection` reads `pc` again and again, so each of those
reads is a step (`Offer`, `AddTrack`, `StoreTrack`, `PeerConnectionSetup`, `SetRemoteDescription`);
`processPacket` is `Reset`, a processor (`Run`, or `DisconnectClose` and `DisconnectNull`) and `SendReply`;
`sendVideoPacket` is `VideoBegin`, `VideoTestOpen` and `VideoSend`, one for each read of `track`. Callbacks of one
WebSocket, and of one peer connection, are serial, as libdatachannel's are; others interleave. An object is
destroyed with its last `shared_ptr`, which is why `ReplaceClient` closes a WebSocket. A use of null sets
`crashed`, after which nothing happens. The histories: `overlap` (clients at the same time), `stray` (a
first message that is no offer), `late` (an `onClosed` after its successor), `mixed` (commands and
positions crossed), `gaveUp` (a disconnect since the last track) and `nulled` (a disconnect during `sendVideoPacket`).

### WinCapture

Three threads. The capture's thread is `worker`: `lock` (past the pacing test, waiting for
`mEncoderMutex`), `input` and `output` with the mutex. The timer thread is `callback`: before `getFrame`, `handleFrame`
or `putFrame` of `timeoutCallback`. The owner calls `start`, `stop`, `startCapture`, `stopCapture` and drops its
handles on sink, source and timer manager in any order; what is destroyed with the last handle
follows in the order of the members. The sink is an `H264RtpSink`, whose own part ends first (`SinkDestroy`): from then on `handleFrame` is pure virtual
and `mRtpPacket` freed, while the timer still fires, and a callback that finds no frame still returns. Only then does `~RtpSink`
remove the timer (`SinkUnregister`), and the rest of the sink is gone. `videoExit` is `ExitClose`, `ExitLock`, `ExitDrain`, `ExitEnd`. A use of
something that is gone sets `fault`. The encoder keeps at most `Latency` samples and gives them
back in order; a sample finds a frame in `mFrameInputQueue` or is dropped.

## 3. Runs

| run | bounds | shows |
|---|---|---|
| `thread_pool` | 3 threads, made one per `createThreads` and up to 4 calls, 3 tasks, some after quit; fair | `ExactlyOnce`, `CancelDrains`, `NoLostWakeup`, refinement of TaskService, `EveryTaskRuns`, `CancelReturns`; also no deadlock |
| `frame_pipeline` | 2 readers, 2 clients, 2 devices, 2 frames, 4 show commands, all faults, no NALUs; symmetric in readers, clients and devices | `FrameOwnership`, `TasksCoverFrames`, `TableMatchesFd` |
| `frame_pipeline_stop_first` | the same, 2 show commands, each when no device is selected; only poll and dqbuf fail, at most 1 NALU per buffer; fair | `OnlyOverlapsCrash`, `FreshSizes`, `StreamMoves` |
| `frame_pipeline_nalu` | one show command, only qbuf fails, at most 1 NALU per frame | violated: `NaluBound` |
| `v4l2` | 3 devices, 3 opens, 4 buffers of 2 planes | `MappingsAreRecorded`, `ExitReleases` |
| `win_timer` | 2 callers, 2 timers, intervals 0 and 2, first delay up to 1, clock up to 2; fair | `TimerOwnership`, `NoOversleep`, `FiresOnSchedule`, refinement of TimerService, `DueTimerLeaves`, `DtorReturns` |
| `linux_timer` | 3 timers, intervals 0 and 1, timestamps up to 1 ahead or in the past, clock up to 2; fair | `AlarmIsNextDeadline`, `NoTimerLost`, `OnlyMisuseBreaks`, refinement of TimerService, `DueTimerLeaves` |
| `select_poller` | 3 events, 2 of them for one descriptor, kinds 1 and 4; fair | `OnlyMisuseDangles`, `Watched`, `NoLateCallback`, `ReadyIsServed` |
| `rtp_packetizer` | packets of 2 bytes; NALUs of every content up to 3 bytes and of lengths up to 7, of which at most 6 bytes and 2 NALUs fit; both start codes and both parsers; 2 frames, `mSeq` wraps at 4 | `Numbered`, `Reassembles`, `ParsedNalus`, refinement of NaluChannel |
| `rtp_packetizer_bytes` | the same, one frame | violated: `OnlyItsBytes` |
| `session` | 2 clients, 2 offers, commands that succeed, fail and disconnect | `CrashNeeds`, `SessionsAreIsolated`, `NewestIsKept`, `RepliesAreOwn` |
| `win_capture` | 2 frames, an encoder that keeps 1 sample, 3 samples, 2 starts of the sink; fair | `SamplesInOrder`, `OnlyOvertakenBreaks`, `TeardownEnds` |

Why the bounds are enough. *Pool*: three threads and three tasks give a notify that may wake the
wrong one of two sleepers while a third is on its way, and a thread that has finished while
another has not; further tasks and threads repeat these situations. *Pipeline*: with two frames one can be
with the sink while another waits; two readers is what `ThreadPool(1)` yields; two clients, two devices and
four commands give both devices opened and then shown again at the same time, or a device opened by both, with failures anywhere; the first run's properties do not
look at NALUs. Two commands are enough to open two devices at the same time, or one twice. *V4L2*: four buffers is what `videoInit` asks for; an mmap that fails has
buffers and planes on both sides, and three devices are one selected, one shown before, and one that
failed. *Timer*: a one-shot and a periodic timer, with an earlier one added
during the sleep; the schedule of later firings is the proof's business. *Linux timer*: three timers are
one firing, one before and one after it, or one removed above two others. *Poller*: one event with
two callbacks, one that is disabled now and then, and one with the descriptor of the second. *Packets*: a NALU is
shorter than a packet, as long, an exact multiple, or has a rest, with one to three full
fragments, and sequence numbers wrap within a frame; three bytes hold every start code that may be
mistaken, and its beginnings. *Session*: two clients are the one before and the one after, or two at
once; an offer of each replaces a connection, with each other step between. *Capture*: a frame with
the sink and one to fill, a sample that stays in the encoder, and one that meets an empty queue. Deadlock
checking is on for the pool. The other models may stop: the pipeline and the poller because nobody need
call anything and a process may be dead, the timers when their clock ends, the others when their
bounded number of frames, opens, offers or samples is used up or something broke.

The two runs that end in a violation are disagreements between the code and what the
repository says about it:

* `NaluBound`. `Base.h:12` bounds the NALUs of a frame by 6. `readFrame` returns after a failed
  `v4l2_qbuf` (`V4l2MediaSource.cpp:142-145`) without clearing the frame's `mSizeArr`; the next read
  encodes into the same frame and appends. `handleFrame` then indexes `mBufferArr` by positions
  of `mSizeArr`.
* `OnlyItsBytes`. `handleFrame` sends byte 0 of a NALU in the FU header and starts at `pos = 1`,
  but divides the whole `frameSize` into fragments (`H264RtpSink.cpp:36-38`). The last fragment, the
  "remaining data" of line 73, ends one byte beyond the NALU. `EndsOneLate`, proved, says that it is always this one byte.

Many properties hold under conditions that are part of their statement. Each condition is a contract or
a case that the code does not handle, and TLC finds a counterexample without it; the hazards in PROJECT.json name the
lines responsible.

* `TableMatchesFd` holds while no init has failed, and speaks of inits that did not overlap; its theorem says that overlapping inits of known devices are
  repaired by the next one alone. `OnlyOverlapsCrash` needs a device to be shown only when none is selected, and inits that do not fail (a failed `reqbufs` leaves
  `mV4l2Buf` null under a reader, line 207); it says that only an init of a new device that overlaps with another then does harm. `KillNeeds`, proved, says the same of fuser:
  a failed init, or such an overlap.
* `FreshSizes` holds if `qbuf` does not fail, `ExitReleases` while no `videoInit` has failed.
* `OnlyMisuseDangles`: clients remove an event before they delete it, and not in the same
  iteration. `Watched` and `ReadyIsServed` speak of descriptors that no two events competed for, and the
  latter of loops without a closed descriptor in a set.
* `CrashNeeds` says itself when null is used: `pc` before the first offer, `track` when a disconnect falls
  into `sendVideoPacket` or follows another. `SessionsAreIsolated` and `NewestIsKept` need clients one after the other, with
  an offer first and no late close; `RepliesAreOwn` no other writer between writing and sending.
* `OnlyOvertakenBreaks` names the five ways: a sink destroyed in its callback, a sink started twice, a sink destroyed without `stop` whose callback begins
  before `~RtpSink` has removed the timer, a frame callback overtaken by `videoExit`, and `stopCapture` followed by the destructor.
* `ParsedNalus` assumes H.264 and one length of start code. For the capture's parser it also keeps NALUs
  below the limit, and states the byte too many that the last NALU gets (`WinCapMediaSource.cpp:558-560`).

## 4. Fairness

* *Pool.* A thread that can run does (weak fairness on `TestQuit`, `RunTask`, and on the owner's
  steps; a task ends). A thread that wants the mutex gets it in the end although `cancelThreads`
  re-takes it in a busy loop: strong fairness on `LockedBlock`. The C++ standard does not promise
  this for `std::mutex`, the implementations deliver it in practice; without it
  `cancelThreads` can starve the workers it waits for. Nothing forces `addTask`, `createThreads`,
  `cancelThreads`, or a spurious wakeup.
* *Pipeline.* The timer fires and the pool runs (weak); `getFrame`, `putFrame`, `setFd` and the start
  of `readFrame` get `mMutex` although readers take it again and again, and each init goes on (strong). `poll` ends because
  its timeout is three seconds, and a failed one counts. No command is forced.
* *Timer (Linux).* The clock advances, and the event loop goes on, callbacks included: weak fairness
  on `Tick` and on the loop's steps. No call is forced.
* *Timer (Windows).* The clock advances, the thread runs and callbacks return, and a call once begun comes
  to its notification. No call is forced, and a spurious wakeup never is.
* *Poller.* The loop calls `handleEvent` for ever and callbacks return: weak fairness on `HandleEvent`. Which
  client calls happen is open, and so is what becomes ready.
* *Capture.* A frame callback and a timer callback that have begun go on, and so does the owner inside a call (weak
  fairness on `Capture`, `Callback` and `Exit`). Frames, timers and calls are not forced. The encoder's mutex
  needs no strong fairness: after `Close` no further callback begins.
* *Session*, *V4L2*, *packets*: safety only.

## 5. Proofs

All theorems are for arbitrary constants that satisfy the module's `ASSUME`: any number of
threads, tasks, frames, devices, buffers, timers, events, clients, offers and samples. They are proved in the usual way: an inductive
invariant `IInv`, with `Init => IInv` and `IInv /\ [Next]_vars => IInv'`, one lemma for each part
or group of actions, one step for each action.

* `ThreadPoolProofs`: `PoolTypes`, `TasksExactlyOnce`, `CancelWaitsForTasks`, `WakeupsSuffice`,
  `NobodySleepsAfterQuit`, `PoolImplementsTaskService`. The queue is always a consecutive suffix of the task
  numbers, so that "in one place" becomes arithmetic; that `mQuit` is set only with an
  empty queue and that a joining owner finds all threads on their way out are what
  `CancelDrains` and the refinement need in addition. `NoLostWakeup` counts: queued tasks never
  exceed the threads on their way to the lock when somebody sleeps.
* `StreamProofs`, the pipeline: `PipelineTypes`, `FramesAreOwnedOnce`, `ReadersExclude`, `TasksSuffice`, `TablesMatch`,
  `NoSuicide`; `NeverCrashesAlone` and `SizesAreFresh` under the conditions of section 3 as assumptions on
  the constants; all for any number of clients, whose inits may overlap in every way. `IInv` adds `DeviceInv`, which says
  what is `Orderly` without a failed init or an overlap of a new device's: only one init is opening, `mV4l2Buf` is its table from 207 to 64, the maps
  hold each device's own table, and what is open is registered or about to be (`OrderInv`); a reopening init that is alone has selected its device
  (`ReopenInv`). `CalmInv` adds, for `NeverCrashesAlone`, what readers may meet. Ownership is not inductive without
  `OneReader`: a reader that is about to push must still find its frame at the head. The lemmas
  on injective sequences (`TailFacts`, `AppendFacts`, `LenBound`) carry the queue steps.
* `StreamProofs`, the parsers: `ParsedAsWritten` says what both return of every legal stream, of any number of NALUs of any
  length. The loops are recursive functions, and induction is over their rounds; since the library's induction theorems take
  operators, `NatSet` and `Recursion` derive what is needed from the well-foundedness of `<`. `Layout` says where the NALUs
  and start codes are, `NoCode` that no NALU contains what a loop might take for a start code, `NoOvershoot` that a skip never passes
  one. The invariant of the loop is `Behind`: `before` is the last start code passed, and `Gathered` the NALUs before it that
  were not too long; `RoundsEnd` counts that there are rounds enough. `InputInv` carries the result through the sink's steps.
* `StreamProofs`, the packets: `PacketTypes`, `PacketsAreNumbered`, `NalusReassemble`, `FragmentsEndOneLate`,
  `SinkImplementsNaluChannel`, for any packet size, clock and widths, and whatever the encoder writes: illegal streams too. The inductive
  invariant is `RtpInv`: `FragmentInv` ties `pos` to `i` and the last packet sent to where the loop stands, `StampInv` the timestamps of this frame and
  the one before to `mTimestamp` (`mClockRate` of at least `mFps` and below `TsWrap` is what makes two in a row differ), and `Assembled` says how each packet follows
  the one before. The refinement adds `GroupInv`: some of the last packets are what a receiver is putting together, so that the packet that ends a
  NALU makes exactly one more arrive (`ArrivedGrows`), and `SizesType`: a frame has a size for each NALU.
* `DeviceProofs`: `TablesRecordMappings`, `DestructorReleases`. `PrefixInv` says that `v4l2_mmap` has mapped
  exactly what comes before `<<i, j>>`. After a failure `LeftInv` says that no two mappings left are of the same
  plane number, although they may be of two buffers; mapping them to their plane is then an injection, which
  bounds their number by `Planes`. `GoodInv` follows a program none of whose `videoInit` failed through every
  step of opening and release.
* `WinTimerProofs`: `TimerTypes`, `TimersOwned`, `TimersDoNotDrift`, `ThreadNeverOversleeps`,
  `RemovedTimersNeverFire`, `CallbacksAreNeverEarly`, `ManagerImplementsTimerService`. `RemovedIsMarked` says that a removed timer that is still there is
  in `mCancelTimers`; `OnSchedule` extends `NoDrift` to the timer whose callback is running. The refinement needs
  the converse as well, `MarkedIsRemoved`: the loop drops no timer that nobody removed.
* `LinuxTimerProofs`: `LinuxTimerTypes`, `AlarmFollowsQueue`, `TimersAreKept`, `OnlyMisusePopsAnother`,
  `RemovedTimersAreSilent`, `ManagerImplementsTimerService`. `ModifyFacts` says what `modifyTimeout` leaves of a queue, whichever
  cancelled timers it pops, and the lemmas `AddModifies`, `RemoveModifies` and `LeaveModifies` apply it to its
  three callers. `IInv` adds `IdInv` (a removed timer that is still queued is in `mCancelTimers`),
  `FiresInv` (a queued timer without interval has not fired, unless it is firing now) and
  `CallbackInv`: as long as callbacks behave, the timer that is firing is the top and not cancelled. The
  latter needs that nothing rises above it with an equal deadline. The refinement holds for every step that does not lead to `astray`;
  it maps `armed` to the timers, queued or deleted, that nobody removed, so that the destructor's deletion of the queue is the service's `Close`.
* `SelectPollerProofs`: `LoopUsesLiveEvents`, `CallbacksAreCurrent`, `EventsAreWatched`. `MapInv`: an event of the map is
  registered; `ListInv`: one of the list, or whose handler runs, is registered or was removed in this iteration; `AliveInv`: without
  misuse those events are alive. `Watched` speaks of `mMaxNumSockets`, the largest descriptor of the map plus
  one: that a finite set of numbers has a largest element (`FiniteMax`) is derived from the library's theorem that `<` is well-founded.
* `SessionProofs`: `NullsAreKnown`, `SessionsNeverMeet`, `LastClientIsKept`, `OnlyInterleavingMixesReplies`. `IInv` ties the
  members to the offers handled (`OfferInv`, `VideoInv`, `ChannelInv`, `TrackInv`). The last three theorems rest on `Who`: as long as
  clients come one after the other at most one is active (`OneInv`), and every handler, command and open channel is that client's
  (`AwayInv`, `FreshInv`, `OpenInv`, `ProcInv`).
* `CaptureProofs`: `BreaksAreKnown`, `SamplesKeepOrder`. For the first, `TimerInv`: only the sink's own timer may fire, unless a start lost one; `CallbackInv`: a callback of a sink that is gone was overtaken, one of a sink that is going was so or met its timer; `MutexInv`: who holds the encoder;
  `ExitInv`: how far `videoExit` is, and that a callback still waiting was overtaken; `CountInv`: `videoExit` runs at most twice.
  For the second, `RingInv` reads the state as two queues of frames, the samples in the encoder and a bound above them all
  (`Round`, `Filled`, `Ordered`); `FillKeeps`, `DropKeeps`, `TakeKeeps` and `SendKeeps` say what the four ways to move a sample do
  to it, and `HeldInv` that the sink holds a frame within a callback only.

`PoolTypes`, `NobodySleepsAfterQuit`, `PipelineTypes`, `ReadersExclude`, `NoSuicide`, `PacketTypes`, `FragmentsEndOneLate`,
`TimerTypes`, `TimersDoNotDrift`, `RemovedTimersNeverFire`, `RemovedTimersAreSilent` and `LinuxTimerTypes` are proved only: no run
needs to repeat them.

Only model-checked: the liveness properties (`EveryTaskRuns`, `CancelReturns`, `StreamMoves`,
`DueTimerLeaves`, `DtorReturns`, `ReadyIsServed`, `TeardownEnds`), since TLAPS has no liveness under fairness. Every safety
property and every refinement of a passing run is a theorem.

## 6. Not modelled

* The pacing clock of the capture: WinCapture keeps or drops a frame freely. The product at
  `WinCapMediaSource.cpp:383` is 32 bits wide and wraps after 2^32 / 1000 frames, 40 hours at 30 a second; from then on every
  screen frame passes the test until the product has caught up with the clock. That is a multiplication, not a question of
  behaviour.
* Two descriptors of one device (overlapping inits of it, or a retry after a failure) have one name in FramePipeline, and what `mEncoder->init` (line 57) or
  the members `mWidth`, `mHeight` suffer from overlapping inits is not tracked.
* Direct3D and Media Foundation set-up (a call that fails throws out of the constructor), and the missing `MFStartup`.
* The wrap of the 32-bit timer ids.
* Streams that mix the two lengths of start code: neither parser is meant for them.
* The dead member function `V4l2MediaSource::parseH264`.
* Wall-clock delays: that `readFrame` keeps the lock for up to three seconds is visible in the
  pipeline, its effect on the RTP clock is not. That frames of the device shown before are still sent after a
  switch (`MediaSource.cpp:17`) is not tracked either: nothing in the code promises otherwise.
* The content of video, the RTP header's constant fields, logging, dumps, name formatting, JSON.
* Klipper and NozzleCalib: their sources are not in the repository.

## 7. State of the plan

Written: the pool, the pipeline, both timer managers, packets and parsers, poller, session, capture and V4L2 calls,
with the three abstract specifications, and proofs about each. Worth doing next:

1. The pacing clock of the capture.
2. The pipeline's frames as a queue of pictures in the order they were read, which two readers do not keep.
