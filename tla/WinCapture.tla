------------------------------ MODULE WinCapture ------------------------------
(***************************************************************************)
(* The Windows stream: the capture's thread runs the FrameArrived callback *)
(* and encodes, the timer thread sends (RtpSink::timeoutCallback), and the *)
(* owner starts, stops and destroys the sink, the source and the timer     *)
(* manager, which the sink shares with it.  The timer manager is the       *)
(* TimerService that WinTimerManager implements.                           *)
(*                                                                         *)
(* The clock is left out: FrameArrived keeps a screen frame or drops it.   *)
(* The encoder is Media Foundation's: it gives back what it got, in order, *)
(* and keeps at most Latency samples for itself until it is drained.       *)
(***************************************************************************)
EXTENDS Integers, Sequences, SequencesExt

CONSTANTS DEFAULT_FRAME_NUM,
          Latency,     \* samples the encoder may keep
          MaxSamples,  \* bound: screen frames that are kept
          MaxStarts    \* bound: calls of RtpSink::start

ASSUME CaptureAssumption ==
    /\ DEFAULT_FRAME_NUM \in Nat \ {0}
    /\ Latency \in Nat
    /\ MaxSamples \in Nat
    /\ MaxStarts \in Nat

Frames == 1..DEFAULT_FRAME_NUM
NoFrame == 0
NoTimer == 0

VARIABLES
    session,           \* "created", "capturing" or "closed"
    worker,            \* where the capture's thread is in FrameArrived
    taken,             \* screen frames kept so far: the number of the last one
    mEncoderMutex,     \* "free", "worker" or "owner"
    encoder,           \* "streaming" or "ended"
    inside,            \* the samples in the encoder
    mFrameInputQueue, mFrameOutputQueue,
    content,           \* the samples whose NALUs each frame's mSizeArr lists
    held,              \* the frame in timeoutCallback, or NoFrame
    sentUpTo,          \* history: the sample of the last frame that was sent
    known, armed, firing, open,   \* the timer service
    mTimerId,
    callback,          \* where the timer thread is in timeoutCallback
    alive,             \* what exists: "h264" is the part of the sink that H264RtpSink
                       \* adds, "sink" the part of RtpSink, "source" the source
    handles,           \* which of "source" and "timer" the owner still holds
    owner,             \* where the owner is in videoExit or a destructor
    exitOf,            \* why it is in videoExit: "stop", or the handle that was dropped
    starts,            \* calls of RtpSink::start so far
    exits,             \* history: calls of videoExit
    lostTimer,         \* history: start was called on a sink that was started
    overtaken,         \* history: "sink" when it was destroyed during its callback,
                       \* "capture" when videoExit overtook its callback
    fault              \* what was used after its end, or "none"

captureVars == <<session, worker, taken>>
encoderVars == <<mEncoderMutex, encoder, inside>>
frameVars   == <<mFrameInputQueue, mFrameOutputQueue, content>>
sinkVars    == <<held, sentUpTo, callback>>
timerVars   == <<known, armed, firing, open>>
ownerVars   == <<mTimerId, alive, handles, owner, exitOf, starts, exits, lostTimer, overtaken>>
vars == <<captureVars, encoderVars, frameVars, sinkVars, timerVars, ownerVars, fault>>

Service == INSTANCE TimerService

\* The two constructors, and a timer manager without timers.
Init ==
    /\ session = "created"
    /\ worker = "idle"
    /\ taken = 0
    /\ mEncoderMutex = "free"
    /\ encoder = "streaming"
    /\ inside = <<>>
    /\ mFrameInputQueue = [i \in Frames |-> i]
    /\ mFrameOutputQueue = <<>>
    /\ content = [f \in Frames |-> <<>>]
    /\ held = NoFrame
    /\ sentUpTo = 0
    /\ Service!TInit
    /\ mTimerId = NoTimer
    /\ callback = "none"
    /\ alive = {"h264", "sink", "source"}
    /\ handles = {"source", "timer"}
    /\ owner = "run"
    /\ exitOf = "none"
    /\ starts = 0
    /\ exits = 0
    /\ lostTimer = FALSE
    /\ overtaken = {}
    /\ fault = "none"

Up == fault = "none"

Breaks(what) ==
    /\ fault' = what
    /\ UNCHANGED <<captureVars, encoderVars, frameVars, sinkVars, timerVars, ownerVars>>
------------------------------------------------------------------------------
\* The capture's thread: FrameArrived.

\* A screen frame that comes before its time is dropped, which changes nothing.
FrameArrived ==
    /\ Up
    /\ session = "capturing"
    /\ worker = "idle"
    /\ taken < MaxSamples
    /\ taken' = taken + 1
    /\ worker' = "lock"
    /\ UNCHANGED <<session, encoderVars, frameVars, sinkVars, timerVars, ownerVars, fault>>

WorkerLock ==
    /\ Up
    /\ worker = "lock"
    /\ "source" \in alive
    /\ mEncoderMutex = "free"
    /\ mEncoderMutex' = "worker"
    /\ worker' = "input"
    /\ UNCHANGED <<session, taken, encoder, inside, frameVars, sinkVars, timerVars, ownerVars, fault>>

\* The encoder takes the sample: whoever used it before left at most Latency
\* samples in it, so that the two ways to retry are not needed.
WorkerInput ==
    /\ Up
    /\ worker = "input"
    /\ encoder = "streaming"
    /\ inside' = Append(inside, taken)
    /\ worker' = "output"
    /\ UNCHANGED <<session, taken, mEncoderMutex, encoder, frameVars, sinkVars, timerVars,
                   ownerVars, fault>>

\* The object is gone, or videoExit has ended the encoder, before the callback
\* got to them.
WorkerBreaks ==
    /\ Up
    /\ \/ worker = "lock" /\ "source" \notin alive /\ Breaks("source")
       \/ worker = "input" /\ encoder = "ended" /\ Breaks("encoder")

\* WriteSampleBytesToFile: an empty sample, or one for which there is no frame, is
\* dropped.
PushFirst(f) == <<f>> \o mFrameOutputQueue
PushLast(f) == Append(mFrameOutputQueue, f)

WriteSample ==
    /\ inside # <<>>
    /\ inside' = Tail(inside)
    /\ \/ UNCHANGED frameVars
       \/ /\ mFrameInputQueue # <<>>
          /\ LET frame == Head(mFrameInputQueue)
             IN  /\ content' = [content EXCEPT ![frame] = Append(@, Head(inside))]
                 /\ mFrameInputQueue' = Tail(mFrameInputQueue)
                 /\ mFrameOutputQueue' = PushLast(frame)

WorkerOutput ==
    /\ Up
    /\ worker = "output"
    /\ WriteSample
    /\ UNCHANGED <<captureVars, mEncoderMutex, encoder, sinkVars, timerVars, ownerVars, fault>>

StillLocked == mEncoderMutex
Unlocked == "free"

\* MF_E_TRANSFORM_NEED_MORE_INPUT ends ProcessH264Output.
WorkerDone ==
    /\ Up
    /\ worker = "output"
    /\ Len(inside) <= Latency
    /\ mEncoderMutex' = Unlocked
    /\ worker' = "idle"
    /\ UNCHANGED <<session, taken, encoder, inside, frameVars, sinkVars, timerVars, ownerVars, fault>>
------------------------------------------------------------------------------
\* The timer thread: timeoutCallback of the sink.

Fire(t) ==
    /\ Up
    /\ Service!Begin(t)
    /\ callback' = "get"
    /\ UNCHANGED <<captureVars, encoderVars, frameVars, held, sentUpTo, ownerVars, fault>>

\* It needs what H264RtpSink adds for handleFrame only, and RtpSink throughout.
CallbackBreaks ==
    /\ Up
    /\ \/ callback # "none" /\ "sink" \notin alive
       \/ callback = "handle" /\ "h264" \notin alive
    /\ Breaks("sink")

\* getFrame; without a frame the callback returns.
SinkGet ==
    /\ Up
    /\ callback = "get"
    /\ "sink" \in alive
    /\ \/ /\ mFrameOutputQueue = <<>>
          /\ callback' = "none"
          /\ Service!End
          /\ UNCHANGED <<held, mFrameOutputQueue>>
       \/ /\ mFrameOutputQueue # <<>>
          /\ held' = Head(mFrameOutputQueue)
          /\ mFrameOutputQueue' = Tail(mFrameOutputQueue)
          /\ callback' = "handle"
          /\ UNCHANGED timerVars
    /\ UNCHANGED <<captureVars, encoderVars, mFrameInputQueue, content, sentUpTo, ownerVars, fault>>

\* handleFrame, which is pure virtual once H264RtpSink's part has ended.
SinkHandle ==
    /\ Up
    /\ callback = "handle"
    /\ "h264" \in alive
    /\ callback' = "put"
    /\ UNCHANGED <<captureVars, encoderVars, frameVars, held, sentUpTo, timerVars, ownerVars, fault>>

\* putFrame of the frame that was sent; the source was made without a pool, so no
\* task.
SinkPut ==
    /\ Up
    /\ callback = "put"
    /\ "sink" \in alive
    /\ sentUpTo' = Last(content[held])
    /\ content' = [content EXCEPT ![held] = <<>>]
    /\ mFrameInputQueue' = Append(mFrameInputQueue, held)
    /\ held' = NoFrame
    /\ callback' = "none"
    /\ Service!End
    /\ UNCHANGED <<captureVars, encoderVars, mFrameOutputQueue, ownerVars, fault>>
------------------------------------------------------------------------------
\* The owner: RtpSink and WinCapMediaSource, one call after the other.

Idle == Up /\ owner = "run"

StartCapture ==
    /\ Idle
    /\ "source" \in handles
    /\ session = "created"
    /\ session' = "capturing"
    /\ UNCHANGED <<worker, taken, encoderVars, frameVars, sinkVars, timerVars, ownerVars, fault>>

\* A second start overwrites mTimerId: the first timer can no longer be removed.
SinkStart ==
    /\ Idle
    /\ "sink" \in alive
    /\ starts < MaxStarts
    /\ starts' = starts + 1
    /\ Service!Add(starts + 1)
    /\ mTimerId' = starts + 1
    /\ lostTimer' = (lostTimer \/ mTimerId # NoTimer)
    /\ UNCHANGED <<captureVars, encoderVars, frameVars, sinkVars, alive, handles, owner, exitOf,
                   exits, overtaken, fault>>

DontRemove == UNCHANGED timerVars
RemoveTimer == IF mTimerId = NoTimer THEN UNCHANGED timerVars ELSE Service!Remove(mTimerId)

SinkStop ==
    /\ Idle
    /\ "sink" \in alive
    /\ RemoveTimer
    /\ mTimerId' = NoTimer
    /\ UNCHANGED <<captureVars, encoderVars, frameVars, sinkVars, alive, handles, owner, exitOf,
                   starts, exits, lostTimer, overtaken, fault>>

Overtake == overtaken' = overtaken \cup (IF callback = "none" THEN {} ELSE {"sink"})

\* ~H264RtpSink and the end of mRtpPacket: the timer is still there.
SinkDestroy ==
    /\ Idle
    /\ "h264" \in alive
    /\ alive' = alive \ {"h264"}
    /\ Overtake
    /\ owner' = "unregister"
    /\ UNCHANGED <<captureVars, encoderVars, frameVars, sinkVars, timerVars, mTimerId, handles, exitOf,
                   starts, exits, lostTimer, fault>>

\* Once, by contract: a second call would always meet an encoder that has ended.
StopCapture ==
    /\ Idle
    /\ "source" \in handles
    /\ exits = 0
    /\ owner' = "close"
    /\ exitOf' = "stop"
    /\ exits' = exits + 1
    /\ UNCHANGED <<captureVars, encoderVars, frameVars, sinkVars, timerVars, mTimerId, alive, handles,
                   starts, lostTimer, overtaken, fault>>

\* The last handle on the source destroys it; a sink holds one as well.
SourceRelease ==
    /\ Idle
    /\ "source" \in handles
    /\ handles' = handles \ {"source"}
    /\ IF "sink" \in alive
       THEN UNCHANGED <<owner, exitOf, exits>>
       ELSE owner' = "close" /\ exitOf' = "source" /\ exits' = exits + 1
    /\ UNCHANGED <<captureVars, encoderVars, frameVars, sinkVars, timerVars, mTimerId, alive, starts,
                   lostTimer, overtaken, fault>>

TimerRelease ==
    /\ Idle
    /\ "timer" \in handles
    /\ handles' = handles \ {"timer"}
    /\ owner' = IF "sink" \in alive THEN "run" ELSE "release"
    /\ UNCHANGED <<captureVars, encoderVars, frameVars, sinkVars, timerVars, mTimerId, alive, exitOf,
                   starts, exits, lostTimer, overtaken, fault>>

\* ~RtpSink, which then lets go of the source and of the timer manager.
SinkUnregister ==
    /\ Up
    /\ owner = "unregister"
    /\ RemoveTimer
    /\ alive' = alive \ {"sink"}
    /\ Overtake
    /\ IF "source" \in handles
       THEN owner' = "release" /\ UNCHANGED <<exitOf, exits>>
       ELSE owner' = "close" /\ exitOf' = "sink" /\ exits' = exits + 1
    /\ UNCHANGED <<captureVars, encoderVars, frameVars, sinkVars, mTimerId, handles, starts,
                   lostTimer, fault>>

\* ~TimerManager, when neither the sink nor the owner holds it: it joins the thread.
TimerClose ==
    /\ Up
    /\ owner = "release"
    /\ IF "timer" \in handles
       THEN owner' = "run" /\ UNCHANGED timerVars
       ELSE owner' = "join" /\ Service!Close
    /\ UNCHANGED <<captureVars, encoderVars, frameVars, sinkVars, mTimerId, alive, handles, exitOf,
                   starts, exits, lostTimer, overtaken, fault>>

TimerJoined ==
    /\ Up
    /\ owner = "join"
    /\ Service!Discard
    /\ owner' = "run"
    /\ UNCHANGED <<captureVars, encoderVars, frameVars, sinkVars, mTimerId, alive, handles, exitOf,
                   starts, exits, lostTimer, overtaken, fault>>
------------------------------------------------------------------------------
\* The owner in videoExit.

\* Both Close calls: no further FrameArrived begins.
ExitClose ==
    /\ Up
    /\ owner = "close"
    /\ session' = "closed"
    /\ owner' = "lock"
    /\ UNCHANGED <<worker, taken, encoderVars, frameVars, sinkVars, timerVars, mTimerId, alive, handles,
                   exitOf, starts, exits, lostTimer, overtaken, fault>>

\* A callback that has the mutex is waited for; one that still waits for it is not.
MutexIgnored == TRUE
MutexFree == mEncoderMutex = "free"

ExitLock ==
    /\ Up
    /\ owner = "lock"
    /\ encoder = "streaming"
    /\ MutexFree
    /\ mEncoderMutex' = "owner"
    /\ owner' = "drain"
    /\ overtaken' = overtaken \cup (IF worker = "lock" THEN {"capture"} ELSE {})
    /\ UNCHANGED <<captureVars, encoder, inside, frameVars, sinkVars, timerVars, mTimerId, alive, handles,
                   exitOf, starts, exits, lostTimer, fault>>

\* The second videoExit drains an encoder that has ended.
ExitBreaks ==
    /\ Up
    /\ owner = "lock"
    /\ encoder = "ended"
    /\ MutexFree
    /\ Breaks("encoder")

ExitDrain ==
    /\ Up
    /\ owner = "drain"
    /\ WriteSample
    /\ UNCHANGED <<captureVars, mEncoderMutex, encoder, sinkVars, timerVars, ownerVars, fault>>

ExitEnd ==
    /\ Up
    /\ owner = "drain"
    /\ inside = <<>>
    /\ encoder' = "ended"
    /\ mEncoderMutex' = "free"
    /\ alive' = IF exitOf = "stop" THEN alive ELSE alive \ {"source"}
    /\ owner' = IF exitOf = "sink" THEN "release" ELSE "run"
    /\ UNCHANGED <<captureVars, inside, frameVars, sinkVars, timerVars, mTimerId, handles, exitOf,
                   starts, exits, lostTimer, overtaken, fault>>
------------------------------------------------------------------------------
Capture == WorkerLock \/ WorkerInput \/ WorkerBreaks \/ WorkerOutput \/ WorkerDone

Callback == CallbackBreaks \/ SinkGet \/ SinkHandle \/ SinkPut

Calls ==
    \/ StartCapture
    \/ SinkStart
    \/ SinkStop
    \/ SinkDestroy
    \/ StopCapture
    \/ SourceRelease
    \/ TimerRelease

Exit ==
    \/ SinkUnregister
    \/ ExitClose
    \/ ExitLock
    \/ ExitBreaks
    \/ ExitDrain
    \/ ExitEnd
    \/ TimerClose
    \/ TimerJoined

Next ==
    \/ FrameArrived
    \/ Capture
    \/ \E t \in 1..MaxStarts : Fire(t)
    \/ Callback
    \/ Calls
    \/ Exit

Spec == Init /\ [][Next]_vars

\* A callback that has begun runs, and so does the owner once it is in a call; that
\* frames arrive, timers fire or the owner calls anything is not assumed.
FairSpec == Spec /\ WF_vars(Capture) /\ WF_vars(Callback) /\ WF_vars(Exit)
------------------------------------------------------------------------------
TypeOK ==
    /\ session \in {"created", "capturing", "closed"}
    /\ worker \in {"idle", "lock", "input", "output"}
    /\ taken \in 0..MaxSamples
    /\ mEncoderMutex \in {"free", "worker", "owner"}
    /\ encoder \in {"streaming", "ended"}
    /\ inside \in Seq(1..MaxSamples)
    /\ mFrameInputQueue \in Seq(Frames)
    /\ mFrameOutputQueue \in Seq(Frames)
    /\ content \in [Frames -> Seq(1..MaxSamples)]
    /\ held \in Frames \cup {NoFrame}
    /\ sentUpTo \in 0..MaxSamples
    /\ mTimerId \in 0..MaxStarts
    /\ callback \in {"none", "get", "handle", "put"}
    /\ alive \in SUBSET {"h264", "sink", "source"}
    /\ handles \in SUBSET {"source", "timer"}
    /\ owner \in {"run", "unregister", "close", "lock", "drain", "release", "join"}
    /\ exitOf \in {"none", "stop", "sink", "source"}
    /\ starts \in 0..MaxStarts
    /\ exits \in 0..2
    /\ lostTimer \in BOOLEAN
    /\ overtaken \in SUBSET {"sink", "capture"}
    /\ fault \in {"none", "sink", "source", "encoder"}

Held == IF held = NoFrame THEN <<>> ELSE <<held>>
ToSend == Held \o mFrameOutputQueue
Contents == [i \in DOMAIN ToSend |-> Last(content[ToSend[i]])]
InHand == IF worker \in {"lock", "input"} THEN <<taken>> ELSE <<>>

\* The frames go round on Windows as well, with the capture's thread and the owner
\* in videoExit to fill them: none is lost or in two places, each that waits to be
\* sent lists the NALUs of one sample and each that waits to be filled lists none.
\* What was sent, is to be sent, is in the encoder and before it keeps the order of
\* the screen frames, even when stopCapture overtakes a callback.
SamplesInOrder ==
    /\ LET all == ToSend \o mFrameInputQueue
       IN  ToSet(all) = Frames /\ Len(all) = DEFAULT_FRAME_NUM
    /\ \A f \in ToSet(ToSend) : Len(content[f]) = 1
    /\ \A f \in ToSet(mFrameInputQueue) : content[f] = <<>>
    /\ LET line == <<sentUpTo>> \o Contents \o inside \o InHand
       IN  \A j \in 2..Len(line) : line[j - 1] < line[j]

\* What it takes to use something after its end.  The timer thread meets a sink
\* that is gone, wholly or in part, only if the sink was destroyed during its
\* callback, if it was started twice, or if it was destroyed without a stop: then
\* also a callback that begins before ~RtpSink has removed the timer breaks, but
\* none that begins later.  The capture's thread meets a source that is gone only
\* if videoExit got the encoder before a callback that had begun; and the encoder
\* is used after its end only then or when stopCapture is followed by the
\* destructor.  In particular a sink that was started once and stopped is destroyed
\* safely when no callback runs, and so is a source whose callback is encoding.
OnlyOvertakenBreaks ==
    /\ fault = "sink" =>
          \/ "sink" \in overtaken
          \/ lostTimer
          \/ owner = "unregister" /\ mTimerId # NoTimer
    /\ fault = "source" => "capture" \in overtaken
    /\ fault = "encoder" => "capture" \in overtaken \/ exits = 2

\* stopCapture and the destructors return: neither mEncoderMutex nor the join of
\* the timer thread makes the owner wait for ever.
TeardownEnds == (owner # "run") ~> (owner = "run" \/ ~Up)
==============================================================================
