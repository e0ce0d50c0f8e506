---------------------------- MODULE CaptureProofs -----------------------------
(***************************************************************************)
(* Proofs about WinCapture, for any number of frames, samples and starts:  *)
(* what it takes to use something after its end in the Windows stream, and *)
(* that the samples keep their order.                                      *)
(***************************************************************************)
EXTENDS WinCapture, SequenceTheorems, TLAPS

\* The types that the argument uses.
TypeInv ==
    /\ worker \in {"idle", "lock", "input", "output"}
    /\ owner \in {"run", "unregister", "close", "lock", "drain", "release", "join"}
    /\ exitOf \in {"none", "stop", "sink", "source"}
    /\ lostTimer \in BOOLEAN
    /\ mTimerId \in 0..MaxStarts
    /\ starts \in 0..MaxStarts
    /\ exits \in Nat
    /\ armed \subseteq Nat

\* The sink's timer is the only one that may still fire, unless a second start
\* made it lose one; it is removed before the sink is gone.
TimerInv ==
    ~lostTimer =>
        /\ armed \subseteq {mTimerId} \ {NoTimer}
        /\ "sink" \notin alive => armed = {}

\* A callback of a sink that is gone was running when the sink was destroyed; a
\* callback of one that is going was as well, or met it while its timer was there.
CallbackInv ==
    /\ "h264" \in alive => "sink" \in alive
    /\ owner = "unregister" <=> "h264" \notin alive /\ "sink" \in alive
    /\ callback # "none" /\ "sink" \notin alive => "sink" \in overtaken \/ lostTimer
    /\ callback # "none" /\ "h264" \notin alive =>
          "sink" \in overtaken \/ lostTimer \/ mTimerId # NoTimer

\* Who holds the encoder's mutex.
MutexInv ==
    /\ mEncoderMutex = "worker" <=> worker \in {"input", "output"}
    /\ mEncoderMutex = "owner" <=> owner = "drain"

\* Where videoExit is: no FrameArrived begins after Close, and ...
ExitInv ==
    /\ owner \in {"lock", "drain"} => session = "closed"
    /\ owner = "drain" => encoder = "streaming" /\ (worker = "lock" => "capture" \in overtaken)
    /\ encoder = "ended" =>
          /\ session = "closed"
          /\ worker \in {"lock", "input"} => "capture" \in overtaken

\* ... the source goes once the encoder has ended, and has been exited at most
\* twice: by stopCapture and by the last handle.
LastHandle == "source" \notin handles /\ "sink" \notin alive

CountInv ==
    /\ "source" \notin alive => encoder = "ended"
    /\ exits <= (IF LastHandle THEN 2 ELSE 1)
    /\ owner \in {"close", "lock", "drain"} => exits > 0
    /\ encoder = "ended" => exits > 0
    /\ owner \in {"close", "lock"} /\ encoder = "ended" => exits = 2

IInv == TypeInv /\ TimerInv /\ CallbackInv /\ MutexInv /\ ExitInv /\ CountInv /\ OnlyOvertakenBreaks
------------------------------------------------------------------------------
LEMMA InitInv == Init => IInv
<1> SUFFICES ASSUME Init PROVE IInv
    OBVIOUS
<1>1. TypeInv
    <2>1. worker = "idle" /\ owner = "run" /\ exitOf = "none" /\ exits = 0 /\ armed = {}
        BY DEF Init, Service!TInit
    <2>2. mTimerId \in 0..MaxStarts /\ starts \in 0..MaxStarts
        BY CaptureAssumption DEF Init, NoTimer
    <2>3. lostTimer \in BOOLEAN
        BY DEF Init
    <2> QED
        BY <2>1, <2>2, <2>3 DEF TypeInv
<1>2. TimerInv
    BY DEF Init, Service!TInit, TimerInv
<1>3. CallbackInv /\ MutexInv /\ ExitInv /\ CountInv /\ OnlyOvertakenBreaks
    BY DEF Init, CallbackInv, MutexInv, ExitInv, CountInv, LastHandle, OnlyOvertakenBreaks
<1> QED
    BY <1>1, <1>2, <1>3 DEF IInv
------------------------------------------------------------------------------
\* The capture's thread.
LEMMA CaptureKeeps == ASSUME IInv, FrameArrived \/ Capture PROVE IInv'
<1> USE DEF IInv, TypeInv, captureVars, encoderVars, frameVars, sinkVars, timerVars, ownerVars
<1>1. CASE WorkerBreaks
    <2>1. UNCHANGED <<captureVars, encoderVars, sinkVars, timerVars, ownerVars>>
        BY <1>1 DEF WorkerBreaks, Breaks
    <2>2. TypeInv' /\ TimerInv' /\ CallbackInv'
        BY <2>1 DEF TimerInv, CallbackInv
    <2>3. MutexInv' /\ ExitInv' /\ CountInv'
        BY <2>1 DEF MutexInv, ExitInv, CountInv, LastHandle
    <2>4. OnlyOvertakenBreaks'
        BY <1>1, <2>1 DEF WorkerBreaks, Breaks, ExitInv, CountInv, OnlyOvertakenBreaks
    <2> QED
        BY <2>2, <2>3, <2>4
<1>2. CASE FrameArrived \/ WorkerLock \/ WorkerInput \/ WorkerOutput \/ WorkerDone
    <2>1. UNCHANGED <<session, sinkVars, timerVars, ownerVars, encoder, fault>>
        BY <1>2 DEF FrameArrived, WorkerLock, WorkerInput, WorkerOutput, WorkerDone, WriteSample
    <2>2. TypeInv' /\ TimerInv' /\ CallbackInv' /\ OnlyOvertakenBreaks' /\ CountInv'
        BY <1>2, <2>1 DEF FrameArrived, WorkerLock, WorkerInput, WorkerOutput, WorkerDone,
                          TimerInv, CallbackInv, OnlyOvertakenBreaks, CountInv, LastHandle
    <2>3. MutexInv'
        BY <1>2, <2>1 DEF FrameArrived, WorkerLock, WorkerInput, WorkerOutput, WorkerDone,
                          Unlocked, MutexInv
    <2>4. ExitInv'
        BY <1>2, <2>1 DEF FrameArrived, WorkerLock, WorkerInput, WorkerOutput, WorkerDone,
                          MutexInv, ExitInv
    <2> QED
        BY <2>2, <2>3, <2>4
<1> QED
    BY <1>1, <1>2 DEF Capture

\* The timer thread.
LEMMA CallbackKeeps == ASSUME IInv, (\E t \in 1..MaxStarts : Fire(t)) \/ Callback PROVE IInv'
<1> USE DEF IInv, TypeInv, captureVars, encoderVars, frameVars, sinkVars, timerVars, ownerVars
<1>1. UNCHANGED <<captureVars, encoderVars, ownerVars>>
    BY DEF Fire, Callback, CallbackBreaks, Breaks, SinkGet, SinkHandle, SinkPut
<1>2. armed' \subseteq armed
    BY DEF Fire, Callback, CallbackBreaks, Breaks, SinkGet, SinkHandle, SinkPut, Service!Begin,
           Service!End
<1>3. TypeInv' /\ TimerInv'
    BY <1>1, <1>2 DEF TimerInv
<1>4. MutexInv' /\ ExitInv' /\ CountInv'
    BY <1>1 DEF MutexInv, ExitInv, CountInv, LastHandle
<1>5. ASSUME NEW t \in 1..MaxStarts, Fire(t) PROVE CallbackInv' /\ OnlyOvertakenBreaks'
    <2>1. t \in armed /\ fault' = fault
        BY <1>5 DEF Fire, Service!Begin
    <2>2. lostTimer \/ (mTimerId # NoTimer /\ "sink" \in alive)
        BY <2>1 DEF TimerInv
    <2>3. CallbackInv'
        BY <1>1, <2>2 DEF CallbackInv
    <2> QED
        BY <1>1, <2>1, <2>3 DEF OnlyOvertakenBreaks
<1>6. ASSUME CallbackBreaks PROVE CallbackInv' /\ OnlyOvertakenBreaks'
    <2>1. callback' = callback /\ alive' = alive /\ overtaken' = overtaken /\ fault' = "sink"
        BY <1>6 DEF CallbackBreaks, Breaks
    <2>2. lostTimer' <=> lostTimer
        BY <1>1
    <2>3. "sink" \in overtaken \/ lostTimer \/ (owner = "unregister" /\ mTimerId # NoTimer)
        <3>1. callback # "none"
            BY <1>6 DEF CallbackBreaks
        <3>2. CASE "sink" \notin alive
            BY <3>1, <3>2 DEF CallbackInv
        <3>3. CASE "sink" \in alive
            <4>1. "h264" \notin alive
                BY <1>6, <3>3 DEF CallbackBreaks
            <4> QED
                BY <3>1, <3>3, <4>1 DEF CallbackInv
        <3> QED
            BY <3>2, <3>3
    <2>4. CallbackInv'
        BY <1>1, <2>1, <2>2 DEF CallbackInv
    <2> QED
        BY <1>1, <2>1, <2>2, <2>3, <2>4 DEF OnlyOvertakenBreaks
<1>7. ASSUME SinkGet \/ SinkHandle \/ SinkPut PROVE CallbackInv' /\ OnlyOvertakenBreaks'
    <2>1. callback # "none" /\ fault' = fault
        BY <1>7 DEF SinkGet, SinkHandle, SinkPut
    <2>2. lostTimer' <=> lostTimer
        BY <1>1
    <2>3. CallbackInv'
        BY <1>1, <2>1, <2>2 DEF CallbackInv
    <2> QED
        BY <1>1, <2>1, <2>2, <2>3 DEF OnlyOvertakenBreaks
<1>8. CallbackInv' /\ OnlyOvertakenBreaks'
    BY <1>5, <1>6, <1>7 DEF Callback
<1> QED
    BY <1>3, <1>4, <1>8

\* The owner's calls.
LEMMA RemoveFacts ==
    ASSUME TypeInv, TimerInv, RemoveTimer
    PROVE  armed' \subseteq Nat /\ (~lostTimer => armed' = {})
<1>1. CASE mTimerId = NoTimer
    BY <1>1 DEF TypeInv, TimerInv, RemoveTimer, timerVars
<1>2. CASE mTimerId # NoTimer
    <2>1. armed' = armed \ {mTimerId}
        BY <1>2 DEF RemoveTimer, Service!Remove
    <2> QED
        BY <2>1 DEF TypeInv, TimerInv
<1> QED
    BY <1>1, <1>2

LEMMA CallsKeep == ASSUME IInv, Calls PROVE IInv'
<1> USE DEF IInv, TypeInv, captureVars, encoderVars, frameVars, sinkVars, timerVars, ownerVars, Idle
<1>1. CASE StartCapture
    <2>1. TypeInv' /\ TimerInv' /\ CallbackInv' /\ MutexInv'
        BY <1>1 DEF StartCapture, TimerInv, CallbackInv, MutexInv
    <2>2. ExitInv' /\ CountInv' /\ OnlyOvertakenBreaks'
        BY <1>1 DEF StartCapture, Up, ExitInv, CountInv, LastHandle, OnlyOvertakenBreaks
    <2> QED
        BY <2>1, <2>2
<1>2. CASE SinkStart
    <2>1. armed' = armed \cup {starts + 1} /\ mTimerId' = starts + 1
        BY <1>2 DEF SinkStart, Service!Add
    <2>2. TypeInv'
        BY <1>2, <2>1, CaptureAssumption DEF SinkStart
    <2>3. TimerInv'
        <3> SUFFICES ASSUME ~lostTimer' PROVE TimerInv'
            BY DEF TimerInv
        <3>1. ~lostTimer /\ mTimerId = NoTimer /\ "sink" \in alive'
            BY <1>2 DEF SinkStart
        <3>2. armed = {}
            BY <3>1 DEF TimerInv
        <3>3. starts + 1 # NoTimer
            BY DEF NoTimer
        <3> QED
            BY <2>1, <3>1, <3>2, <3>3 DEF TimerInv
    <2>4. CallbackInv' /\ MutexInv'
        BY <1>2 DEF SinkStart, CallbackInv, MutexInv
    <2>5. ExitInv' /\ CountInv' /\ OnlyOvertakenBreaks'
        BY <1>2 DEF SinkStart, Up, ExitInv, CountInv, LastHandle, OnlyOvertakenBreaks
    <2> QED
        BY <2>2, <2>3, <2>4, <2>5
<1>3. CASE SinkStop
    <2>1. armed' \subseteq Nat /\ (~lostTimer => armed' = {})
        BY <1>3, RemoveFacts DEF SinkStop
    <2>2. TypeInv' /\ TimerInv'
        BY <1>3, <2>1, CaptureAssumption DEF SinkStop, TimerInv, NoTimer
    <2>3. CallbackInv' /\ MutexInv'
        BY <1>3 DEF SinkStop, CallbackInv, MutexInv
    <2>4. ExitInv' /\ CountInv' /\ OnlyOvertakenBreaks'
        BY <1>3 DEF SinkStop, Up, ExitInv, CountInv, LastHandle, OnlyOvertakenBreaks
    <2> QED
        BY <2>2, <2>3, <2>4
<1>4. CASE SinkDestroy
    <2>1. TypeInv' /\ TimerInv'
        BY <1>4 DEF SinkDestroy, TimerInv
    <2>2. CallbackInv'
        BY <1>4 DEF SinkDestroy, Overtake, CallbackInv
    <2>3. MutexInv' /\ ExitInv'
        BY <1>4 DEF SinkDestroy, Overtake, MutexInv, ExitInv
    <2>4. CountInv' /\ OnlyOvertakenBreaks'
        BY <1>4 DEF SinkDestroy, Up, CountInv, LastHandle, OnlyOvertakenBreaks
    <2> QED
        BY <2>1, <2>2, <2>3, <2>4
<1>5. CASE StopCapture \/ SourceRelease
    <2>1. TypeInv' /\ TimerInv' /\ CallbackInv' /\ MutexInv'
        <3>1. UNCHANGED <<worker, sinkVars, encoderVars, timerVars, mTimerId, alive, starts,
                          lostTimer, overtaken>>
            BY <1>5 DEF StopCapture, SourceRelease
        <3>2. owner' \in {"run", "close"} /\ owner = "run"
            BY <1>5 DEF StopCapture, SourceRelease
        <3>3. exitOf' \in {"none", "stop", "sink", "source"} /\ exits' \in Nat
            BY <1>5 DEF StopCapture, SourceRelease
        <3> QED
            BY <3>1, <3>2, <3>3 DEF TimerInv, CallbackInv, MutexInv
    <2>2. ExitInv' /\ OnlyOvertakenBreaks'
        BY <1>5 DEF StopCapture, SourceRelease, Up, ExitInv, CountInv, LastHandle,
                      OnlyOvertakenBreaks
    <2>3. CountInv'
        BY <1>5 DEF StopCapture, SourceRelease, CountInv, LastHandle
    <2> QED
        BY <2>1, <2>2, <2>3
<1>6. CASE TimerRelease
    <2>1. TypeInv' /\ TimerInv' /\ CallbackInv' /\ MutexInv'
        BY <1>6 DEF TimerRelease, TimerInv, CallbackInv, MutexInv
    <2>2. ExitInv' /\ CountInv' /\ OnlyOvertakenBreaks'
        BY <1>6 DEF TimerRelease, Up, ExitInv, CountInv, LastHandle, OnlyOvertakenBreaks
    <2> QED
        BY <2>1, <2>2
<1> QED
    BY <1>1, <1>2, <1>3, <1>4, <1>5, <1>6 DEF Calls

\* ~RtpSink.
LEMMA UnregisterKeeps == ASSUME IInv, SinkUnregister PROVE IInv'
<1> USE DEF IInv, TypeInv, captureVars, encoderVars, frameVars, sinkVars, timerVars, ownerVars
<1>1. armed' \subseteq Nat /\ (~lostTimer => armed' = {})
    BY RemoveFacts DEF SinkUnregister
<1>2. TypeInv' /\ TimerInv'
    BY <1>1 DEF SinkUnregister, TimerInv
<1>3. CallbackInv'
    BY DEF SinkUnregister, Overtake, CallbackInv
<1>4. MutexInv' /\ ExitInv'
    BY DEF SinkUnregister, Overtake, MutexInv, ExitInv
<1>5. CountInv'
    BY DEF SinkUnregister, CallbackInv, CountInv, LastHandle
<1>6. OnlyOvertakenBreaks'
    BY DEF SinkUnregister, Up, OnlyOvertakenBreaks
<1> QED
    BY <1>2, <1>3, <1>4, <1>5, <1>6

\* videoExit and the end of the timer manager.
LEMMA ExitKeeps == ASSUME IInv, Exit PROVE IInv'
<1> USE DEF IInv, TypeInv, captureVars, encoderVars, frameVars, sinkVars, timerVars, ownerVars
<1>0. CASE SinkUnregister
    BY <1>0, UnregisterKeeps
<1>1. CASE ~SinkUnregister
    <2>0. \/ ExitClose \/ ExitLock \/ ExitBreaks \/ ExitDrain
          \/ ExitEnd \/ TimerClose \/ TimerJoined
        BY <1>1 DEF Exit
    <2>1. UNCHANGED <<worker, sinkVars, mTimerId, handles, starts, exits, lostTimer>>
        BY <2>0 DEF ExitClose, ExitLock, ExitBreaks, Breaks, ExitDrain, ExitEnd, TimerClose, TimerJoined
    <2>2. /\ armed' \subseteq armed
          /\ "sink" \in alive' <=> "sink" \in alive
          /\ "h264" \in alive' <=> "h264" \in alive
        BY <2>0 DEF ExitClose, ExitLock, ExitBreaks, Breaks, ExitDrain, ExitEnd, TimerClose,
                    TimerJoined, Service!Close, Service!Discard
    <2>3. overtaken \subseteq overtaken' /\ Up
        BY <2>0 DEF ExitClose, ExitLock, ExitBreaks, Breaks, ExitDrain, ExitEnd, TimerClose, TimerJoined
    <2>4. TypeInv' /\ TimerInv' /\ CallbackInv'
        <3>1. /\ owner # "unregister" /\ exitOf' = exitOf
              /\ owner' \in {"run", "close", "lock", "drain", "release", "join"}
            BY <2>0 DEF ExitClose, ExitLock, ExitBreaks, Breaks, ExitDrain, ExitEnd, TimerClose,
                        TimerJoined
        <3>2. TypeInv' /\ TimerInv'
            BY <2>1, <2>2, <3>1 DEF TimerInv
        <3>3. CallbackInv'
            BY <2>1, <2>2, <2>3, <3>1 DEF CallbackInv
        <3> QED
            BY <3>2, <3>3
    <2>5. MutexInv'
        BY <2>0 DEF ExitClose, ExitLock, ExitBreaks, Breaks, ExitDrain, ExitEnd, TimerClose,
                    TimerJoined, MutexFree, MutexInv
    <2>6. ExitInv'
        BY <2>0 DEF ExitClose, ExitLock, ExitBreaks, Breaks, ExitDrain, ExitEnd, TimerClose,
                    TimerJoined, MutexFree, MutexInv, ExitInv
    <2>7. CountInv'
        BY <2>0, <2>1 DEF ExitClose, ExitLock, ExitBreaks, Breaks, ExitDrain, ExitEnd, TimerClose,
                          TimerJoined, CountInv, LastHandle
    <2>8. OnlyOvertakenBreaks'
        BY <2>0, <2>1, <2>3 DEF Up, ExitClose, ExitLock, ExitBreaks, Breaks, ExitDrain, ExitEnd,
                                TimerClose, TimerJoined, CountInv, OnlyOvertakenBreaks
    <2> QED
        BY <2>4, <2>5, <2>6, <2>7, <2>8
<1> QED
    BY <1>0, <1>1

LEMMA StutterKeeps == ASSUME IInv, UNCHANGED vars PROVE IInv'
<1> USE DEF IInv, vars, captureVars, encoderVars, frameVars, sinkVars, timerVars, ownerVars
<1>1. TypeInv' /\ TimerInv' /\ CallbackInv' /\ MutexInv'
    BY DEF TypeInv, TimerInv, CallbackInv, MutexInv
<1>2. ExitInv' /\ CountInv' /\ OnlyOvertakenBreaks'
    BY DEF ExitInv, CountInv, LastHandle, OnlyOvertakenBreaks
<1> QED
    BY <1>1, <1>2

LEMMA NextInv == IInv /\ [Next]_vars => IInv'
    BY CaptureKeeps, CallbackKeeps, CallsKeep, ExitKeeps, StutterKeeps DEF Next

LEMMA Invariance == Spec => []IInv
    BY InitInv, NextInv, PTL DEF Spec
------------------------------------------------------------------------------
\* The capture's thread, the timer thread and the owner use the sink, the source
\* or the encoder after its end only in the ways that OnlyOvertakenBreaks lists,
\* whatever the length of the stream.
THEOREM BreaksAreKnown == Spec => []OnlyOvertakenBreaks
<1>1. IInv => OnlyOvertakenBreaks
    BY DEF IInv
<1> QED
    BY <1>1, Invariance, PTL
------------------------------------------------------------------------------
\* The frames and their samples.  T is what the sink is to send, the frame in its
\* hands first, Q what is to be filled, c the contents, u the sample sent last, s
\* the samples in the encoder, and b a bound above all of them.

Round(T, Q) ==
    /\ \A k, l \in 1..Len(T) : T[k] = T[l] => k = l
    /\ \A k, l \in 1..Len(Q) : Q[k] = Q[l] => k = l
    /\ \A k \in 1..Len(T), l \in 1..Len(Q) : T[k] # Q[l]
    /\ \A f \in Frames : (\E k \in 1..Len(T) : f = T[k]) \/ (\E l \in 1..Len(Q) : f = Q[l])
    /\ Len(T) + Len(Q) = DEFAULT_FRAME_NUM

Filled(T, Q, c) ==
    /\ \A k \in 1..Len(T) : Len(c[T[k]]) = 1
    /\ \A l \in 1..Len(Q) : c[Q[l]] = <<>>

Ordered(T, c, u, s, b) ==
    /\ \A k, l \in 1..Len(T) : k < l => Last(c[T[k]]) < Last(c[T[l]])
    /\ \A k \in 1..Len(T), l \in 1..Len(s) : Last(c[T[k]]) < s[l]
    /\ \A k, l \in 1..Len(s) : k < l => s[k] < s[l]
    /\ \A k \in 1..Len(T) : u < Last(c[T[k]]) /\ Last(c[T[k]]) < b
    /\ \A l \in 1..Len(s) : u < s[l] /\ s[l] < b
    /\ u < b

Queues(T, Q, c, u, s, b) ==
    /\ T \in Seq(Frames) /\ Q \in Seq(Frames)
    /\ c \in [Frames -> Seq(Nat)]
    /\ u \in Nat /\ s \in Seq(Nat) /\ b \in Nat

Ring(T, Q, c, u, s, b) ==
    Queues(T, Q, c, u, s, b) /\ Round(T, Q) /\ Filled(T, Q, c) /\ Ordered(T, c, u, s, b)

LEMMA TailFacts ==
    ASSUME NEW S, NEW q \in Seq(S), q # <<>>
    PROVE  /\ Len(q) \in Nat \ {0} /\ q[1] \in S /\ Head(q) = q[1]
           /\ Tail(q) \in Seq(S) /\ Len(Tail(q)) = Len(q) - 1
           /\ \A k \in 1..Len(q) - 1 : Tail(q)[k] = q[k + 1]
    BY EmptySeq, HeadTailProperties, LenProperties, ElementOfSeq

\* A frame is filled with the sample that leaves the encoder.
LEMMA FillKeeps ==
    ASSUME NEW T, NEW Q, NEW c, NEW u, NEW s, NEW b, Ring(T, Q, c, u, s, b),
           Q # <<>>, s # <<>>
    PROVE  Ring(Append(T, Head(Q)), Tail(Q), [c EXCEPT ![Head(Q)] = Append(@, Head(s))],
                u, Tail(s), b)
<1> DEFINE f  == Head(Q)
           x  == Head(s)
           T1 == Append(T, f)
           Q1 == Tail(Q)
           s1 == Tail(s)
           c1 == [c EXCEPT ![f] = Append(@, x)]
<1>0. Queues(T, Q, c, u, s, b) /\ Round(T, Q) /\ Filled(T, Q, c) /\ Ordered(T, c, u, s, b)
    BY DEF Ring
<1>1. /\ f = Q[1] /\ f \in Frames /\ Q1 \in Seq(Frames)
      /\ Len(Q) \in Nat \ {0} /\ Len(Q1) = Len(Q) - 1
      /\ \A l \in 1..Len(Q) - 1 : Q1[l] = Q[l + 1]
    BY <1>0, TailFacts DEF Queues
<1>2. /\ x = s[1] /\ x \in Nat /\ s1 \in Seq(Nat)
      /\ Len(s) \in Nat \ {0} /\ Len(s1) = Len(s) - 1
      /\ \A l \in 1..Len(s) - 1 : s1[l] = s[l + 1]
    BY <1>0, TailFacts DEF Queues
<1>3. /\ T1 \in Seq(Frames) /\ Len(T) \in Nat /\ Len(T1) = Len(T) + 1
      /\ \A k \in 1..Len(T) : T1[k] = T[k]
      /\ T1[Len(T) + 1] = f
    BY <1>0, <1>1, AppendProperties, LenProperties DEF Queues
<1>4. c[f] = <<>>
    BY <1>0, <1>1 DEF Filled
<1>5. c1 \in [Frames -> Seq(Nat)] /\ c1[f] = Append(<<>>, x)
      /\ \A g \in Frames : g # f => c1[g] = c[g]
    BY <1>0, <1>1, <1>2, <1>4, AppendProperties DEF Queues
<1>6. Len(c1[f]) = 1 /\ Last(c1[f]) = x
    <2>1. Append(<<>>, x) \in Seq(Nat) /\ Len(Append(<<>>, x)) = 1 /\ Append(<<>>, x)[1] = x
        BY <1>2, AppendProperties, EmptySeq
    <2> QED
        BY <1>5, <2>1 DEF Last
<1>7. /\ \A k \in 1..Len(T) : T[k] \in Frames /\ T[k] # f
      /\ \A l \in 1..Len(Q) : Q[l] \in Frames
    BY <1>0, <1>1, ElementOfSeq DEF Queues, Round
<1> HIDE DEF f, x, T1, Q1, s1, c1
<1>8. Queues(T1, Q1, c1, u, s1, b)
    BY <1>0, <1>1, <1>2, <1>3, <1>5 DEF Queues
<1>9. Round(T1, Q1)
    <2>1. \A k, l \in 1..Len(T1) : T1[k] = T1[l] => k = l
        BY <1>0, <1>3, <1>7 DEF Round
    <2>2. \A k, l \in 1..Len(Q1) : Q1[k] = Q1[l] => k = l
        BY <1>0, <1>1 DEF Round
    <2>3. \A k \in 1..Len(T1), l \in 1..Len(Q1) : T1[k] # Q1[l]
        <3>1. \A l \in 1..Len(Q1) : l + 1 \in 1..Len(Q) /\ l + 1 # 1 /\ Q1[l] = Q[l + 1]
            BY <1>1
        <3>2. \A l \in 1..Len(Q1) : Q1[l] # f
            BY <1>0, <1>1, <3>1 DEF Round
        <3>3. ASSUME NEW k \in 1..Len(T), NEW l \in 1..Len(Q1) PROVE T[k] # Q1[l]
            <4>1. l + 1 \in 1..Len(Q) /\ Q1[l] = Q[l + 1]
                BY <3>1
            <4> QED
                BY <1>0, <4>1 DEF Round
        <3> QED
            BY <1>3, <3>2, <3>3
    <2>4. ASSUME NEW g \in Frames
          PROVE  (\E k \in 1..Len(T1) : g = T1[k]) \/ (\E l \in 1..Len(Q1) : g = Q1[l])
        <3>1. CASE \E k \in 1..Len(T) : g = T[k]
            BY <1>3, <3>1
        <3>2. CASE \E l \in 1..Len(Q) : g = Q[l]
            <4>1. PICK l \in 1..Len(Q) : g = Q[l]
                BY <3>2
            <4>2. CASE l = 1
                BY <1>1, <1>3, <4>1, <4>2
            <4>3. CASE l # 1
                <5>1. l - 1 \in 1..Len(Q1) /\ Q1[l - 1] = g
                    BY <1>1, <4>1, <4>3
                <5> QED
                    BY <5>1
            <4> QED
                BY <4>2, <4>3
        <3> QED
            BY <1>0, <3>1, <3>2 DEF Round
    <2>5. Len(T1) + Len(Q1) = DEFAULT_FRAME_NUM
        BY <1>0, <1>1, <1>3 DEF Round
    <2> QED
        BY <2>1, <2>2, <2>3, <2>4, <2>5 DEF Round
<1>10. /\ \A k \in 1..Len(T) : c1[T1[k]] = c[T[k]]
       /\ c1[T1[Len(T) + 1]] = c1[f]
    BY <1>3, <1>5, <1>7
<1>11. Filled(T1, Q1, c1)
    <2>1. \A k \in 1..Len(T1) : Len(c1[T1[k]]) = 1
        BY <1>0, <1>3, <1>6, <1>10 DEF Filled
    <2>2. \A l \in 1..Len(Q1) : Q1[l] = Q[l + 1] /\ l + 1 \in 1..Len(Q) /\ Q[l + 1] # f
        BY <1>0, <1>1 DEF Round
    <2>3. \A l \in 1..Len(Q1) : c1[Q1[l]] = <<>>
        BY <1>0, <1>5, <1>7, <2>2 DEF Filled
    <2> QED
        BY <2>1, <2>3 DEF Filled
<1>12. Ordered(T1, c1, u, s1, b)
    <2>1. \A l \in 1..Len(s1) : s1[l] = s[l + 1] /\ l + 1 \in 1..Len(s) /\ 1 < l + 1
        BY <1>2
    <2>2. \A k \in 1..Len(T) : Last(c1[T1[k]]) = Last(c[T[k]])
        BY <1>10
    <2>3. Last(c1[T1[Len(T) + 1]]) = x
        BY <1>6, <1>10
    <2>4. \A k \in 1..Len(T) : Last(c[T[k]]) < x
        BY <1>0, <1>2 DEF Ordered
    <2>5. \A k, l \in 1..Len(T1) : k < l => Last(c1[T1[k]]) < Last(c1[T1[l]])
        BY <1>0, <1>3, <2>2, <2>3, <2>4 DEF Ordered
    <2>6. ASSUME NEW l \in 1..Len(s1) PROVE x < s1[l]
        <3>1. 1 \in 1..Len(s) /\ l + 1 \in 1..Len(s) /\ 1 < l + 1 /\ s1[l] = s[l + 1]
            BY <1>2, <2>1
        <3> QED
            BY <1>0, <1>2, <3>1 DEF Ordered
    <2>7. ASSUME NEW k \in 1..Len(T1), NEW l \in 1..Len(s1) PROVE Last(c1[T1[k]]) < s1[l]
        <3>1. CASE k = Len(T) + 1
            BY <2>3, <2>6, <3>1
        <3>2. CASE k # Len(T) + 1
            <4>1. k \in 1..Len(T)
                BY <1>3, <3>2
            <4>2. Last(c[T[k]]) < s[l + 1]
                BY <1>0, <2>1, <4>1 DEF Ordered
            <4> QED
                BY <2>1, <2>2, <4>1, <4>2
        <3> QED
            BY <3>1, <3>2
    <2>8. ASSUME NEW k \in 1..Len(s1), NEW l \in 1..Len(s1), k < l PROVE s1[k] < s1[l]
        <3>1. k + 1 \in 1..Len(s) /\ l + 1 \in 1..Len(s) /\ k + 1 < l + 1
            BY <1>2, <2>1, <2>8
        <3>2. s[k + 1] < s[l + 1]
            BY <1>0, <3>1 DEF Ordered
        <3> QED
            BY <2>1, <3>2
    <2>9. u < x /\ x < b
        BY <1>0, <1>2 DEF Ordered
    <2>10. \A k \in 1..Len(T1) : u < Last(c1[T1[k]]) /\ Last(c1[T1[k]]) < b
        BY <1>0, <1>3, <2>2, <2>3, <2>9 DEF Ordered
    <2>11. \A l \in 1..Len(s1) : u < s1[l] /\ s1[l] < b
        BY <1>0, <2>1 DEF Ordered
    <2> QED
        BY <1>0, <2>5, <2>7, <2>8, <2>10, <2>11 DEF Ordered
<1>13. Ring(T1, Q1, c1, u, s1, b)
    BY <1>8, <1>9, <1>11, <1>12 DEF Ring
<1> QED
    BY <1>13 DEF f, x, T1, Q1, s1, c1

\* A sample for which there is no frame is dropped.
LEMMA DropKeeps ==
    ASSUME NEW T, NEW Q, NEW c, NEW u, NEW s, NEW b, Ring(T, Q, c, u, s, b), s # <<>>
    PROVE  Ring(T, Q, c, u, Tail(s), b)
<1> DEFINE s1 == Tail(s)
<1>0. Queues(T, Q, c, u, s, b) /\ Round(T, Q) /\ Filled(T, Q, c) /\ Ordered(T, c, u, s, b)
    BY DEF Ring
<1>1. /\ s1 \in Seq(Nat) /\ Len(s) \in Nat \ {0} /\ Len(s1) = Len(s) - 1
      /\ \A l \in 1..Len(s) - 1 : s1[l] = s[l + 1]
    BY <1>0, TailFacts DEF Queues
<1> HIDE DEF s1
<1>2. \A l \in 1..Len(s1) : s1[l] = s[l + 1] /\ l + 1 \in 1..Len(s)
    BY <1>1
<1>3. ASSUME NEW k \in 1..Len(s1), NEW l \in 1..Len(s1), k < l PROVE s1[k] < s1[l]
    <2>1. k + 1 \in 1..Len(s) /\ l + 1 \in 1..Len(s) /\ k + 1 < l + 1
        BY <1>1, <1>2, <1>3
    <2>2. s[k + 1] < s[l + 1]
        BY <1>0, <2>1 DEF Ordered
    <2> QED
        BY <1>2, <2>2
<1>4. Ordered(T, c, u, s1, b)
    BY <1>0, <1>2, <1>3 DEF Ordered
<1> QED
    BY <1>0, <1>1, <1>4 DEF Ring, Queues, s1

\* The encoder takes a sample that is newer than all before it.
LEMMA TakeKeeps ==
    ASSUME NEW T, NEW Q, NEW c, NEW u, NEW s, NEW b, Ring(T, Q, c, u, s, b)
    PROVE  Ring(T, Q, c, u, Append(s, b), b + 1)
<1> DEFINE s1 == Append(s, b)
<1>0. Queues(T, Q, c, u, s, b) /\ Round(T, Q) /\ Filled(T, Q, c) /\ Ordered(T, c, u, s, b)
    BY DEF Ring
<1>1. /\ s1 \in Seq(Nat) /\ Len(s) \in Nat /\ Len(s1) = Len(s) + 1
      /\ \A l \in 1..Len(s) : s1[l] = s[l]
      /\ s1[Len(s) + 1] = b /\ b \in Nat /\ u \in Nat
    BY <1>0, AppendProperties, LenProperties DEF Queues
<1> HIDE DEF s1
<1>2. \A k \in 1..Len(T) : Len(c[T[k]]) = 1 /\ c[T[k]] \in Seq(Nat)
    BY <1>0, ElementOfSeq DEF Queues, Filled
<1>3. ASSUME NEW k \in 1..Len(T) PROVE Last(c[T[k]]) \in Nat
    <2> DEFINE q == c[T[k]]
    <2>1. q \in Seq(Nat) /\ Len(q) = 1
        BY <1>2
    <2> HIDE DEF q
    <2>2. 1 \in 1..Len(q)
        BY <2>1
    <2>3. q[1] \in Nat
        BY <2>1, <2>2, ElementOfSeq
    <2> QED
        BY <2>1, <2>3 DEF Last, q
<1>4. \A l \in 1..Len(s) : s[l] \in Nat
    BY <1>0, ElementOfSeq DEF Queues
<1>5. Ordered(T, c, u, s1, b + 1)
    <2>1. ASSUME NEW k \in 1..Len(T), NEW l \in 1..Len(s1) PROVE Last(c[T[k]]) < s1[l]
        <3>1. CASE l = Len(s) + 1
            BY <1>0, <1>1, <3>1 DEF Ordered
        <3>2. CASE l # Len(s) + 1
            <4>1. l \in 1..Len(s) /\ s1[l] = s[l]
                BY <1>1, <3>2
            <4> QED
                BY <1>0, <4>1 DEF Ordered
        <3> QED
            BY <3>1, <3>2
    <2>2. ASSUME NEW k \in 1..Len(s1), NEW l \in 1..Len(s1), k < l PROVE s1[k] < s1[l]
        <3>1. k \in 1..Len(s) /\ s1[k] = s[k]
            BY <1>1, <2>2
        <3>2. CASE l = Len(s) + 1
            <4>1. s[k] < b
                BY <1>0, <3>1 DEF Ordered
            <4> QED
                BY <1>1, <3>1, <3>2, <4>1
        <3>3. CASE l # Len(s) + 1
            <4>1. l \in 1..Len(s) /\ s1[l] = s[l]
                BY <1>1, <3>3
            <4>2. s[k] < s[l]
                BY <1>0, <2>2, <3>1, <4>1 DEF Ordered
            <4> QED
                BY <3>1, <4>1, <4>2
        <3> QED
            BY <3>2, <3>3
    <2>3. ASSUME NEW k \in 1..Len(T) PROVE u < Last(c[T[k]]) /\ Last(c[T[k]]) < b + 1
        <3>1. u < Last(c[T[k]]) /\ Last(c[T[k]]) < b
            BY <1>0 DEF Ordered
        <3> QED
            BY <1>1, <1>3, <3>1
    <2>4. ASSUME NEW l \in 1..Len(s1) PROVE u < s1[l] /\ s1[l] < b + 1
        <3>1. CASE l = Len(s) + 1
            BY <1>0, <1>1, <3>1 DEF Ordered
        <3>2. CASE l # Len(s) + 1
            <4>1. l \in 1..Len(s) /\ s1[l] = s[l] /\ s[l] \in Nat
                BY <1>1, <1>4, <3>2
            <4>2. u < s[l] /\ s[l] < b
                BY <1>0, <4>1 DEF Ordered
            <4> QED
                BY <1>1, <4>1, <4>2
        <3> QED
            BY <3>1, <3>2
    <2> QED
        BY <1>0, <1>1, <2>1, <2>2, <2>3, <2>4 DEF Ordered
<1> QED
    BY <1>0, <1>1, <1>5 DEF Ring, Queues, s1

\* The sink sends the first frame and gives it back.
LEMMA SendKeeps ==
    ASSUME NEW T, NEW Q, NEW c, NEW u, NEW s, NEW b, Ring(T, Q, c, u, s, b), T # <<>>
    PROVE  Ring(Tail(T), Append(Q, Head(T)), [c EXCEPT ![Head(T)] = <<>>], Last(c[Head(T)]), s, b)
<1> DEFINE f  == Head(T)
           T1 == Tail(T)
           Q1 == Append(Q, f)
           c1 == [c EXCEPT ![f] = <<>>]
           u1 == Last(c[f])
<1>0. Queues(T, Q, c, u, s, b) /\ Round(T, Q) /\ Filled(T, Q, c) /\ Ordered(T, c, u, s, b)
    BY DEF Ring
<1>1. /\ f = T[1] /\ f \in Frames /\ T1 \in Seq(Frames)
      /\ Len(T) \in Nat \ {0} /\ Len(T1) = Len(T) - 1
      /\ \A k \in 1..Len(T) - 1 : T1[k] = T[k + 1]
    BY <1>0, TailFacts DEF Queues
<1>2. /\ Q1 \in Seq(Frames) /\ Len(Q) \in Nat /\ Len(Q1) = Len(Q) + 1
      /\ \A l \in 1..Len(Q) : Q1[l] = Q[l]
      /\ Q1[Len(Q) + 1] = f
    BY <1>0, <1>1, AppendProperties, LenProperties DEF Queues
<1>3. /\ c1 \in [Frames -> Seq(Nat)] /\ c1[f] = <<>>
      /\ \A g \in Frames : g # f => c1[g] = c[g]
    BY <1>0, <1>1, EmptySeq DEF Queues
<1>4. u1 \in Nat
    <2>1. c[f] \in Seq(Nat) /\ Len(c[f]) = 1
        BY <1>0, <1>1 DEF Queues, Filled
    <2> QED
        BY <2>1, ElementOfSeq DEF Last
<1>5. /\ \A k \in 1..Len(T) : T[k] \in Frames
      /\ \A l \in 1..Len(Q) : Q[l] \in Frames /\ Q[l] # f
    BY <1>0, <1>1, ElementOfSeq DEF Queues, Round
<1>6. u1 = Last(c[T[1]])
    BY <1>1
<1> HIDE DEF f, T1, Q1, c1, u1
<1>7. \A k \in 1..Len(T1) : /\ T1[k] = T[k + 1] /\ k + 1 \in 1..Len(T) /\ 1 < k + 1
                            /\ T1[k] \in Frames /\ T1[k] # f
    BY <1>0, <1>1, <1>5 DEF Round
<1>8. Queues(T1, Q1, c1, u1, s, b)
    BY <1>0, <1>1, <1>2, <1>3, <1>4 DEF Queues
<1>9. Round(T1, Q1)
    <2>1. \A k, l \in 1..Len(T1) : T1[k] = T1[l] => k = l
        BY <1>0, <1>1, <1>7 DEF Round
    <2>2. \A k, l \in 1..Len(Q1) : Q1[k] = Q1[l] => k = l
        BY <1>0, <1>2, <1>5 DEF Round
    <2>3. ASSUME NEW k \in 1..Len(T1), NEW l \in 1..Len(Q1) PROVE T1[k] # Q1[l]
        <3>1. T1[k] = T[k + 1] /\ k + 1 \in 1..Len(T) /\ T1[k] # f
            BY <1>7
        <3>2. CASE l = Len(Q) + 1
            BY <1>2, <3>1, <3>2
        <3>3. CASE l # Len(Q) + 1
            <4>1. l \in 1..Len(Q) /\ Q1[l] = Q[l]
                BY <1>2, <3>3
            <4> QED
                BY <1>0, <3>1, <4>1 DEF Round
        <3> QED
            BY <3>2, <3>3
    <2>4. ASSUME NEW g \in Frames
          PROVE  (\E k \in 1..Len(T1) : g = T1[k]) \/ (\E l \in 1..Len(Q1) : g = Q1[l])
        <3>1. CASE \E l \in 1..Len(Q) : g = Q[l]
            BY <1>2, <3>1
        <3>2. CASE \E k \in 1..Len(T) : g = T[k]
            <4>1. PICK k \in 1..Len(T) : g = T[k]
                BY <3>2
            <4>2. CASE k = 1
                BY <1>1, <1>2, <4>1, <4>2
            <4>3. CASE k # 1
                <5>1. k - 1 \in 1..Len(T1) /\ T1[k - 1] = g
                    BY <1>1, <4>1, <4>3
                <5> QED
                    BY <5>1
            <4> QED
                BY <4>2, <4>3
        <3> QED
            BY <1>0, <3>1, <3>2 DEF Round
    <2>5. Len(T1) + Len(Q1) = DEFAULT_FRAME_NUM
        BY <1>0, <1>1, <1>2 DEF Round
    <2> QED
        BY <2>1, <2>2, <2>3, <2>4, <2>5 DEF Round
<1>10. \A k \in 1..Len(T1) : c1[T1[k]] = c[T[k + 1]]
    BY <1>3, <1>7
<1>11. Filled(T1, Q1, c1)
    <2>1. \A k \in 1..Len(T1) : Len(c1[T1[k]]) = 1
        BY <1>0, <1>7, <1>10 DEF Filled
    <2>2. ASSUME NEW l \in 1..Len(Q1) PROVE c1[Q1[l]] = <<>>
        <3>1. CASE l = Len(Q) + 1
            BY <1>2, <1>3, <3>1
        <3>2. CASE l # Len(Q) + 1
            <4>1. l \in 1..Len(Q) /\ Q1[l] = Q[l]
                BY <1>2, <3>2
            <4> QED
                BY <1>0, <1>3, <1>5, <4>1 DEF Filled
        <3> QED
            BY <3>1, <3>2
    <2> QED
        BY <2>1, <2>2 DEF Filled
<1>12. Ordered(T1, c1, u1, s, b)
    <2>1. \A k \in 1..Len(T1) : /\ Last(c1[T1[k]]) = Last(c[T[k + 1]])
                                /\ k + 1 \in 1..Len(T) /\ 1 < k + 1
        BY <1>7, <1>10
    <2>2. 1 \in 1..Len(T)
        BY <1>1
    <2>3. ASSUME NEW k \in 1..Len(T1), NEW l \in 1..Len(T1), k < l
          PROVE  Last(c1[T1[k]]) < Last(c1[T1[l]])
        <3>1. k + 1 \in 1..Len(T) /\ l + 1 \in 1..Len(T) /\ k + 1 < l + 1
            BY <1>1, <2>1, <2>3
        <3>2. Last(c[T[k + 1]]) < Last(c[T[l + 1]])
            BY <1>0, <3>1 DEF Ordered
        <3> QED
            BY <2>1, <3>2
    <2>4. \A k \in 1..Len(T1), l \in 1..Len(s) : Last(c1[T1[k]]) < s[l]
        BY <1>0, <2>1 DEF Ordered
    <2>5. \A k \in 1..Len(T1) : u1 < Last(c1[T1[k]]) /\ Last(c1[T1[k]]) < b
        BY <1>0, <1>6, <2>1, <2>2 DEF Ordered
    <2>6. (\A l \in 1..Len(s) : u1 < s[l] /\ s[l] < b) /\ u1 < b
        BY <1>0, <1>6, <2>2 DEF Ordered
    <2> QED
        BY <1>0, <2>3, <2>4, <2>5, <2>6 DEF Ordered
<1>13. Ring(T1, Q1, c1, u1, s, b)
    BY <1>8, <1>9, <1>11, <1>12 DEF Ring
<1> QED
    BY <1>13 DEF f, T1, Q1, c1, u1
------------------------------------------------------------------------------
\* The state seen that way.

Bound == IF worker \in {"lock", "input"} THEN taken ELSE taken + 1

RingInv == Ring(ToSend, mFrameInputQueue, content, sentUpTo, inside, Bound)

\* The sink holds a frame from getFrame to putFrame, within a callback.
HeldInv ==
    /\ held \in Frames \cup {NoFrame}
    /\ mFrameOutputQueue \in Seq(Frames)
    /\ taken \in Nat
    /\ held # NoFrame <=> callback \in {"handle", "put"}
    /\ callback # "none" => firing # NoTimer

LEMMA RingInit == Init => RingInv /\ HeldInv
<1> SUFFICES ASSUME Init PROVE RingInv /\ HeldInv
    OBVIOUS
<1> DEFINE T == ToSend
           Q == mFrameInputQueue
           N == DEFAULT_FRAME_NUM
<1>1. N \in Nat /\ Frames = 1..N
    BY CaptureAssumption DEF Frames
<1>2. T = <<>>
    BY EmptySeq, ConcatEmptySeq DEF Init, ToSend, Held
<1>3. Q = [k \in 1..N |-> k]
    BY <1>1 DEF Init
<1>4. Q \in Seq(Frames) /\ Len(Q) = N
    BY <1>1, <1>3
<1>5. content = [f \in Frames |-> <<>>] /\ sentUpTo = 0 /\ inside = <<>> /\ Bound = 1
    BY DEF Init, Bound
<1>6. HeldInv
    BY EmptySeq DEF Init, HeldInv, NoFrame, NoTimer
<1> HIDE DEF T, Q, N
<1>7. Queues(T, Q, content, sentUpTo, inside, Bound)
    BY <1>2, <1>4, <1>5, EmptySeq DEF Queues
<1>8. Round(T, Q)
    <2>1. Len(T) = 0 /\ \A k \in 1..Len(Q) : Q[k] = k
        BY <1>2, <1>3, <1>4, EmptySeq
    <2>2. \A f \in Frames : f \in 1..Len(Q) /\ f = Q[f]
        BY <1>1, <1>4, <2>1
    <2> QED
        BY <1>1, <1>4, <2>1, <2>2 DEF Round, N
<1>9. Filled(T, Q, content)
    <2>1. \A k \in 1..Len(Q) : Q[k] \in Frames
        BY <1>4, ElementOfSeq
    <2> QED
        BY <1>2, <1>5, <2>1, EmptySeq DEF Filled
<1>10. Ordered(T, content, sentUpTo, inside, Bound)
    BY <1>2, <1>5, EmptySeq DEF Ordered
<1> QED
    BY <1>6, <1>7, <1>8, <1>9, <1>10 DEF RingInv, Ring, T, Q

\* The owner's steps, and those that only move threads.
LEMMA RingFrame ==
    ASSUME RingInv, HeldInv, UNCHANGED <<frameVars, inside, held, sentUpTo>>, Bound' = Bound,
           taken' \in Nat, callback' = callback, firing' = firing
    PROVE  RingInv' /\ HeldInv'
<1>1. ToSend' = ToSend
    BY DEF ToSend, Held, frameVars
<1>2. RingInv'
    BY <1>1 DEF RingInv, frameVars
<1>3. HeldInv'
    BY DEF HeldInv, frameVars
<1> QED
    BY <1>2, <1>3

\* A sample leaves the encoder.
LEMMA WriteKeeps ==
    ASSUME RingInv, HeldInv, WriteSample, UNCHANGED <<captureVars, sinkVars, timerVars>>,
           Bound' = Bound
    PROVE  RingInv' /\ HeldInv'
<1>1. CASE UNCHANGED frameVars
    <2>1. inside # <<>> /\ inside' = Tail(inside)
        BY DEF WriteSample
    <2>2. ToSend' = ToSend
        BY <1>1 DEF ToSend, Held, frameVars, sinkVars
    <2>3. RingInv'
        BY <1>1, <2>1, <2>2, DropKeeps DEF RingInv, frameVars, sinkVars
    <2>4. HeldInv'
        BY <1>1 DEF HeldInv, frameVars, sinkVars, captureVars, timerVars
    <2> QED
        BY <2>3, <2>4
<1>2. CASE ~UNCHANGED frameVars
    <2> DEFINE f == Head(mFrameInputQueue)
    <2>1. /\ inside # <<>> /\ inside' = Tail(inside)
          /\ mFrameInputQueue # <<>> /\ mFrameInputQueue' = Tail(mFrameInputQueue)
          /\ mFrameOutputQueue' = Append(mFrameOutputQueue, f)
          /\ content' = [content EXCEPT ![f] = Append(@, Head(inside))]
        BY <1>2 DEF WriteSample, PushLast
    <2>2. f \in Frames /\ mFrameOutputQueue \in Seq(Frames) /\ Held \in Seq(Frames)
        <3>1. mFrameInputQueue \in Seq(Frames)
            BY DEF RingInv, Ring, Queues
        <3>2. f \in Frames
            BY <2>1, <3>1, TailFacts
        <3>3. Held \in Seq(Frames)
            BY EmptySeq DEF Held, HeldInv
        <3> QED
            BY <3>2, <3>3 DEF HeldInv
    <2>3. ToSend' = Append(ToSend, f)
        <3>1. ToSend' = Held \o Append(mFrameOutputQueue, f)
            BY <2>1 DEF ToSend, Held, sinkVars
        <3>2. /\ Append(mFrameOutputQueue, f) = mFrameOutputQueue \o <<f>>
              /\ <<f>> \in Seq(Frames)
            BY <2>2, AppendIsConcat
        <3>3. ToSend' = ToSend \o <<f>> /\ ToSend \in Seq(Frames)
            BY <2>2, <3>1, <3>2, ConcatAssociative, ConcatProperties DEF ToSend
        <3> QED
            BY <2>2, <3>3, AppendIsConcat
    <2>4. RingInv'
        BY <2>1, <2>3, FillKeeps DEF RingInv, sinkVars
    <2>5. HeldInv'
        BY <2>1, <2>2, AppendProperties DEF HeldInv, sinkVars, captureVars, timerVars
    <2> QED
        BY <2>4, <2>5
<1> QED
    BY <1>1, <1>2

LEMMA CaptureRing == ASSUME RingInv, HeldInv, FrameArrived \/ Capture PROVE RingInv' /\ HeldInv'
<1> USE DEF captureVars, encoderVars, frameVars, sinkVars, timerVars, ownerVars
<1>1. CASE FrameArrived
    <2>1. Bound' = Bound
        BY <1>1 DEF FrameArrived, Bound, HeldInv
    <2> QED
        BY <1>1, <2>1, RingFrame DEF FrameArrived, HeldInv
<1>2. CASE WorkerLock \/ WorkerDone \/ WorkerBreaks
    <2>1. Bound' = Bound
        BY <1>2 DEF WorkerLock, WorkerDone, WorkerBreaks, Breaks, Bound
    <2> QED
        BY <1>2, <2>1, RingFrame DEF WorkerLock, WorkerDone, WorkerBreaks, Breaks, HeldInv
<1>3. CASE WorkerInput
    <2>1. Bound = taken /\ Bound' = Bound + 1
        BY <1>3 DEF WorkerInput, Bound, HeldInv
    <2>2. inside' = Append(inside, Bound)
        BY <1>3, <2>1 DEF WorkerInput
    <2>3. UNCHANGED <<frameVars, sinkVars, timerVars, taken>>
        BY <1>3 DEF WorkerInput
    <2>4. ToSend' = ToSend
        BY <2>3 DEF ToSend, Held
    <2>5. RingInv'
        BY <2>1, <2>2, <2>3, <2>4, TakeKeeps DEF RingInv
    <2> QED
        BY <2>3, <2>5 DEF HeldInv
<1>4. CASE WorkerOutput
    <2>1. WriteSample /\ UNCHANGED <<captureVars, sinkVars, timerVars>>
        BY <1>4 DEF WorkerOutput
    <2>2. Bound' = Bound
        BY <2>1 DEF Bound
    <2> QED
        BY <2>1, <2>2, WriteKeeps
<1> QED
    BY <1>1, <1>2, <1>3, <1>4 DEF Capture

LEMMA CallbackRing ==
    ASSUME RingInv, HeldInv, (\E t \in 1..MaxStarts : Fire(t)) \/ Callback
    PROVE  RingInv' /\ HeldInv'
<1> USE DEF captureVars, encoderVars, frameVars, sinkVars, timerVars, ownerVars
<1>1. Bound' = Bound /\ taken' = taken /\ inside' = inside
    BY DEF Fire, Callback, CallbackBreaks, Breaks, SinkGet, SinkHandle, SinkPut, Bound
<1>2. ASSUME NEW t \in 1..MaxStarts, Fire(t) PROVE RingInv' /\ HeldInv'
    <2>1. UNCHANGED <<frameVars, held, sentUpTo>> /\ callback' = "get"
        BY <1>2 DEF Fire
    <2>2. firing = NoTimer /\ firing' = t
        BY <1>2 DEF Fire, Service!Begin
    <2>3. callback = "none" /\ t # NoTimer
        BY <2>2 DEF HeldInv, NoTimer
    <2>4. ToSend' = ToSend
        BY <2>1 DEF ToSend, Held
    <2>5. RingInv'
        BY <1>1, <2>1, <2>4 DEF RingInv
    <2> QED
        BY <1>1, <2>1, <2>2, <2>3, <2>5 DEF HeldInv
<1>3. CASE CallbackBreaks
    BY <1>1, <1>3, RingFrame DEF CallbackBreaks, Breaks, HeldInv
<1>4. CASE SinkGet
    <2>1. held = NoFrame /\ mFrameOutputQueue \in Seq(Frames) /\ callback = "get"
        BY <1>4 DEF SinkGet, HeldInv
    <2>2. ToSend = mFrameOutputQueue
        BY <2>1, EmptySeq, ConcatEmptySeq DEF ToSend, Held
    <2>3. CASE mFrameOutputQueue = <<>>
        <3>1. UNCHANGED <<frameVars, held, sentUpTo>> /\ callback' = "none"
            BY <1>4, <2>3 DEF SinkGet
        <3>2. ToSend' = ToSend
            BY <3>1 DEF ToSend, Held
        <3>3. RingInv'
            BY <1>1, <3>1, <3>2 DEF RingInv
        <3> QED
            BY <1>1, <2>1, <3>1, <3>3 DEF HeldInv
    <2>4. CASE mFrameOutputQueue # <<>>
        <3> DEFINE f == Head(mFrameOutputQueue)
        <3>1. /\ held' = f /\ mFrameOutputQueue' = Tail(mFrameOutputQueue)
              /\ callback' = "handle" /\ firing' = firing
              /\ UNCHANGED <<mFrameInputQueue, content, sentUpTo>>
            BY <1>4, <2>4 DEF SinkGet
        <3>2. f \in Frames /\ Tail(mFrameOutputQueue) \in Seq(Frames)
            BY <2>1, <2>4, HeadTailProperties
        <3>3. f # NoFrame
            BY <3>2, CaptureAssumption DEF Frames, NoFrame
        <3>4. ToSend' = mFrameOutputQueue
            <4>1. ToSend' = <<f>> \o Tail(mFrameOutputQueue)
                BY <3>1, <3>3 DEF ToSend, Held
            <4>2. <<f>> \in Seq(Frames) /\ Len(<<f>>) = 1 /\ <<f>>[1] = f
                BY <3>2
            <4>3. /\ Len(mFrameOutputQueue) \in Nat \ {0} /\ f = mFrameOutputQueue[1]
                  /\ Len(Tail(mFrameOutputQueue)) = Len(mFrameOutputQueue) - 1
                  /\ \A k \in 1..Len(mFrameOutputQueue) - 1 :
                        Tail(mFrameOutputQueue)[k] = mFrameOutputQueue[k + 1]
                BY <2>1, <2>4, TailFacts
            <4> DEFINE p == <<f>> \o Tail(mFrameOutputQueue)
            <4>4. /\ p \in Seq(Frames) /\ Len(p) = 1 + Len(Tail(mFrameOutputQueue))
                  /\ \A k \in 1..1 + Len(Tail(mFrameOutputQueue)) :
                        p[k] = IF k <= 1 THEN <<f>>[k] ELSE Tail(mFrameOutputQueue)[k - 1]
                BY <3>2, <4>2, ConcatProperties
            <4> HIDE DEF p
            <4>5. ASSUME NEW k \in 1..Len(p) PROVE p[k] = mFrameOutputQueue[k]
                <5>1. CASE k = 1
                    BY <4>2, <4>3, <4>4, <5>1
                <5>2. CASE k # 1
                    <6>1. k - 1 \in 1..Len(mFrameOutputQueue) - 1 /\ ~(k <= 1)
                        BY <4>3, <4>4, <5>2
                    <6> QED
                        BY <4>3, <4>4, <6>1
                <5> QED
                    BY <5>1, <5>2
            <4>6. p = mFrameOutputQueue
                BY <2>1, <4>3, <4>4, <4>5, SeqEqual
            <4> QED
                BY <4>1, <4>6 DEF p
        <3>5. RingInv'
            BY <1>1, <2>2, <3>1, <3>4 DEF RingInv
        <3> HIDE DEF f
        <3> QED
            BY <1>1, <2>1, <3>1, <3>2, <3>3, <3>5 DEF HeldInv
    <2> QED
        BY <2>3, <2>4
<1>5. CASE SinkPut
    <2>1. held \in Frames /\ held # NoFrame /\ mFrameOutputQueue \in Seq(Frames)
        BY <1>5 DEF SinkPut, HeldInv
    <2>2. /\ held' = NoFrame /\ callback' = "none" /\ sentUpTo' = Last(content[held])
          /\ content' = [content EXCEPT ![held] = <<>>]
          /\ mFrameInputQueue' = Append(mFrameInputQueue, held)
          /\ mFrameOutputQueue' = mFrameOutputQueue
        BY <1>5 DEF SinkPut
    <2>3. ToSend = <<held>> \o mFrameOutputQueue /\ <<held>> \in Seq(Frames)
        BY <2>1 DEF ToSend, Held
    <2>4. ToSend # <<>> /\ Head(ToSend) = held /\ Tail(ToSend) = mFrameOutputQueue
        <3>1. /\ ToSend \in Seq(Frames) /\ Len(ToSend) = 1 + Len(mFrameOutputQueue)
              /\ Len(<<held>>) = 1 /\ <<held>>[1] = held /\ Len(mFrameOutputQueue) \in Nat
              /\ \A k \in 1..1 + Len(mFrameOutputQueue) :
                    ToSend[k] = IF k <= 1 THEN <<held>>[k] ELSE mFrameOutputQueue[k - 1]
            BY <2>1, <2>3, ConcatProperties, LenProperties
        <3>2. ToSend # <<>>
            BY <3>1, EmptySeq
        <3>3. /\ Tail(ToSend) \in Seq(Frames) /\ Len(Tail(ToSend)) = Len(mFrameOutputQueue)
              /\ Head(ToSend) = ToSend[1]
              /\ \A k \in 1..Len(ToSend) - 1 : Tail(ToSend)[k] = ToSend[k + 1]
            BY <3>1, <3>2, TailFacts
        <3>4. Head(ToSend) = held
            BY <3>1, <3>3
        <3>5. ASSUME NEW k \in 1..Len(Tail(ToSend)) PROVE Tail(ToSend)[k] = mFrameOutputQueue[k]
            <4>1. k + 1 \in 1..1 + Len(mFrameOutputQueue) /\ ~(k + 1 <= 1) /\ (k + 1) - 1 = k
                BY <3>1, <3>3
            <4>2. Tail(ToSend)[k] = ToSend[k + 1]
                BY <3>1, <3>3
            <4> QED
                BY <3>1, <4>1, <4>2
        <3>6. Tail(ToSend) = mFrameOutputQueue
            BY <2>1, <3>3, <3>5, SeqEqual
        <3> QED
            BY <3>2, <3>4, <3>6
    <2>5. ToSend' = Tail(ToSend)
        BY <2>1, <2>2, <2>4, EmptySeq, ConcatEmptySeq DEF ToSend, Held
    <2>6. RingInv'
        BY <1>1, <2>2, <2>4, <2>5, SendKeeps DEF RingInv
    <2> QED
        BY <1>1, <2>1, <2>2, <2>6 DEF HeldInv
<1>6. CASE SinkHandle
    <2>1. /\ UNCHANGED <<frameVars, held, sentUpTo, firing>>
          /\ callback = "handle" /\ callback' = "put"
        BY <1>6 DEF SinkHandle
    <2>2. ToSend' = ToSend
        BY <2>1 DEF ToSend, Held
    <2>3. RingInv'
        BY <1>1, <2>1, <2>2 DEF RingInv
    <2> QED
        BY <1>1, <2>1, <2>3 DEF HeldInv
<1> QED
    BY <1>2, <1>3, <1>4, <1>5, <1>6 DEF Callback

LEMMA OwnerRing == ASSUME RingInv, HeldInv, Calls \/ Exit PROVE RingInv' /\ HeldInv'
<1> USE DEF captureVars, encoderVars, frameVars, sinkVars, timerVars, ownerVars
<1>1. CASE ExitDrain
    <2>1. WriteSample /\ UNCHANGED <<captureVars, sinkVars, timerVars>>
        BY <1>1 DEF ExitDrain
    <2>2. Bound' = Bound
        BY <2>1 DEF Bound
    <2> QED
        BY <2>1, <2>2, WriteKeeps
<1>2. CASE SinkStart \/ SinkStop \/ SinkDestroy \/ SinkUnregister
    <2>1. UNCHANGED <<captureVars, encoderVars, frameVars, sinkVars, firing>>
        BY <1>2 DEF SinkStart, SinkStop, SinkDestroy, SinkUnregister, RemoveTimer, Service!Add,
                    Service!Remove
    <2>2. Bound' = Bound
        BY <2>1 DEF Bound
    <2> QED
        BY <2>1, <2>2, RingFrame DEF HeldInv
<1>3. CASE StartCapture \/ StopCapture \/ SourceRelease \/ TimerRelease
    <2>1. UNCHANGED <<worker, taken, encoderVars, frameVars, sinkVars, timerVars>>
        BY <1>3 DEF StartCapture, StopCapture, SourceRelease, TimerRelease
    <2>2. Bound' = Bound
        BY <2>1 DEF Bound
    <2> QED
        BY <2>1, <2>2, RingFrame DEF HeldInv
<1>4. CASE ExitClose \/ ExitLock \/ ExitBreaks \/ ExitEnd \/ TimerClose \/ TimerJoined
    <2>1. UNCHANGED <<worker, taken, inside, frameVars, sinkVars, firing>>
        BY <1>4 DEF ExitClose, ExitLock, ExitBreaks, Breaks, ExitEnd, TimerClose, TimerJoined,
                    Service!Close, Service!Discard
    <2>2. Bound' = Bound
        BY <2>1 DEF Bound
    <2> QED
        BY <2>1, <2>2, RingFrame DEF HeldInv
<1> QED
    BY <1>1, <1>2, <1>3, <1>4 DEF Calls, Exit

LEMMA RingStep == RingInv /\ HeldInv /\ [Next]_vars => RingInv' /\ HeldInv'
<1> SUFFICES ASSUME RingInv, HeldInv, [Next]_vars PROVE RingInv' /\ HeldInv'
    OBVIOUS
<1>1. CASE UNCHANGED vars
    <2>1. UNCHANGED <<frameVars, inside, held, sentUpTo, taken, callback, firing>> /\ Bound' = Bound
        BY <1>1 DEF vars, captureVars, encoderVars, frameVars, sinkVars, timerVars, Bound
    <2> QED
        BY <2>1, RingFrame DEF HeldInv
<1>2. CASE Next
    BY <1>2, CaptureRing, CallbackRing, OwnerRing DEF Next
<1> QED
    BY <1>1, <1>2

LEMMA RingInvariance == Spec => [](RingInv /\ HeldInv)
    BY RingInit, RingStep, PTL DEF Spec
------------------------------------------------------------------------------
\* From the frames and their samples to the property.

Rising(s) == \A k, l \in 1..Len(s) : k < l => s[k] < s[l]
Below(s, t) == \A k \in 1..Len(s), l \in 1..Len(t) : s[k] < t[l]

LEMMA JoinRises ==
    ASSUME NEW s \in Seq(Nat), NEW t \in Seq(Nat), Rising(s), Rising(t), Below(s, t)
    PROVE  s \o t \in Seq(Nat) /\ Rising(s \o t)
<1> DEFINE p == s \o t
<1>1. /\ p \in Seq(Nat) /\ Len(p) = Len(s) + Len(t) /\ Len(s) \in Nat /\ Len(t) \in Nat
      /\ \A k \in 1..Len(s) + Len(t) : p[k] = IF k <= Len(s) THEN s[k] ELSE t[k - Len(s)]
    BY ConcatProperties, LenProperties
<1> HIDE DEF p
<1>2. ASSUME NEW k \in 1..Len(p), NEW l \in 1..Len(p), k < l PROVE p[k] < p[l]
    <2>1. CASE l <= Len(s)
        <3>1. k \in 1..Len(s) /\ l \in 1..Len(s) /\ p[k] = s[k] /\ p[l] = s[l]
            BY <1>1, <1>2, <2>1
        <3> QED
            BY <1>2, <3>1 DEF Rising
    <2>2. CASE k <= Len(s) /\ ~(l <= Len(s))
        <3>1. k \in 1..Len(s) /\ l - Len(s) \in 1..Len(t) /\ p[k] = s[k] /\ p[l] = t[l - Len(s)]
            BY <1>1, <2>2
        <3> QED
            BY <3>1 DEF Below
    <2>3. CASE ~(k <= Len(s)) /\ ~(l <= Len(s))
        <3>1. /\ k - Len(s) \in 1..Len(t) /\ l - Len(s) \in 1..Len(t) /\ k - Len(s) < l - Len(s)
              /\ p[k] = t[k - Len(s)] /\ p[l] = t[l - Len(s)]
            BY <1>1, <1>2, <2>3
        <3> QED
            BY <3>1 DEF Rising
    <2> QED
        BY <1>1, <1>2, <2>1, <2>2, <2>3
<1> QED
    BY <1>1, <1>2 DEF Rising, p

LEMMA JoinBelow ==
    ASSUME NEW s \in Seq(Nat), NEW t \in Seq(Nat), NEW v, Below(s, v), Below(t, v)
    PROVE  Below(s \o t, v)
<1> DEFINE p == s \o t
<1>1. /\ Len(p) = Len(s) + Len(t) /\ Len(s) \in Nat /\ Len(t) \in Nat
      /\ \A k \in 1..Len(s) + Len(t) : p[k] = IF k <= Len(s) THEN s[k] ELSE t[k - Len(s)]
    BY ConcatProperties, LenProperties
<1> HIDE DEF p
<1>2. ASSUME NEW k \in 1..Len(p), NEW l \in 1..Len(v) PROVE p[k] < v[l]
    <2>1. CASE k <= Len(s)
        <3>1. k \in 1..Len(s) /\ p[k] = s[k]
            BY <1>1, <2>1
        <3> QED
            BY <3>1 DEF Below
    <2>2. CASE ~(k <= Len(s))
        <3>1. k - Len(s) \in 1..Len(t) /\ p[k] = t[k - Len(s)]
            BY <1>1, <2>2
        <3> QED
            BY <3>1 DEF Below
    <2> QED
        BY <2>1, <2>2
<1> QED
    BY <1>2 DEF Below, p

\* The order of the samples, in one sequence.
LEMMA LineRises ==
    ASSUME RingInv, HeldInv
    PROVE  /\ <<sentUpTo>> \o Contents \o inside \o InHand \in Seq(Nat)
           /\ Rising(<<sentUpTo>> \o Contents \o inside \o InHand)
<1> DEFINE u == <<sentUpTo>>
           n == Len(ToSend)
           c == Contents
<1>1. /\ Queues(ToSend, mFrameInputQueue, content, sentUpTo, inside, Bound)
      /\ Filled(ToSend, mFrameInputQueue, content)
      /\ Ordered(ToSend, content, sentUpTo, inside, Bound)
    BY DEF RingInv, Ring
<1>2. n \in Nat /\ DOMAIN ToSend = 1..n
    BY <1>1, LenProperties DEF Queues
<1>3. ASSUME NEW k \in 1..n PROVE Last(content[ToSend[k]]) \in Nat
    <2> DEFINE q == content[ToSend[k]]
    <2>1. ToSend[k] \in Frames
        BY <1>1, <1>3, ElementOfSeq DEF Queues
    <2>2. q \in Seq(Nat) /\ Len(q) = 1
        BY <1>1, <2>1 DEF Queues, Filled
    <2> HIDE DEF q
    <2>3. 1 \in 1..Len(q)
        BY <2>2
    <2>4. q[1] \in Nat
        BY <2>2, <2>3, ElementOfSeq
    <2> QED
        BY <2>2, <2>4 DEF Last, q
<1>4. c = [k \in 1..n |-> Last(content[ToSend[k]])]
    BY <1>2 DEF Contents
<1> HIDE DEF n, c
<1>5. c \in Seq(Nat) /\ Len(c) = n /\ \A k \in 1..n : c[k] = Last(content[ToSend[k]])
    BY <1>2, <1>3, <1>4
<1>6. u \in Seq(Nat) /\ Len(u) = 1 /\ u[1] = sentUpTo
    BY <1>1 DEF Queues
<1> HIDE DEF u
<1>7. inside \in Seq(Nat) /\ Bound \in Nat
    BY <1>1 DEF Queues
<1>8. Rising(u) /\ Rising(c) /\ Rising(inside)
    <2>1. Rising(u)
        BY <1>6 DEF Rising
    <2>2. Rising(c)
        BY <1>1, <1>5 DEF Ordered, Rising, n
    <2>3. Rising(inside)
        BY <1>1 DEF Ordered, Rising
    <2> QED
        BY <2>1, <2>2, <2>3
<1>9. Below(u, c) /\ Below(u, inside) /\ Below(c, inside)
    <2>1. \A k \in 1..n : sentUpTo < Last(content[ToSend[k]])
        BY <1>1 DEF Ordered, n
    <2>2. Below(u, c)
        BY <1>5, <1>6, <2>1 DEF Below
    <2>3. \A l \in 1..Len(inside) : sentUpTo < inside[l]
        BY <1>1 DEF Ordered
    <2>4. Below(u, inside)
        BY <1>6, <2>3 DEF Below
    <2>5. \A k \in 1..n, l \in 1..Len(inside) : Last(content[ToSend[k]]) < inside[l]
        BY <1>1 DEF Ordered, n
    <2>6. Below(c, inside)
        BY <1>5, <2>5 DEF Below
    <2> QED
        BY <2>2, <2>4, <2>6
<1>10. u \o c \in Seq(Nat) /\ Rising(u \o c) /\ Below(u \o c, inside)
    BY <1>5, <1>6, <1>8, <1>9, JoinRises, JoinBelow
<1>11. u \o c \o inside \in Seq(Nat) /\ Rising(u \o c \o inside)
    BY <1>7, <1>8, <1>10, JoinRises
<1>12. /\ InHand \in Seq(Nat) /\ Rising(InHand)
       /\ Below(u, InHand) /\ Below(c, InHand) /\ Below(inside, InHand)
    <2>1. CASE worker \in {"lock", "input"}
        <3>1. Bound = taken /\ InHand = <<taken>>
            BY <2>1 DEF Bound, InHand
        <3>2. <<taken>> \in Seq(Nat) /\ Len(<<taken>>) = 1 /\ <<taken>>[1] = taken
            BY DEF HeldInv
        <3>3. /\ sentUpTo < taken
              /\ \A k \in 1..n : Last(content[ToSend[k]]) < taken
              /\ \A l \in 1..Len(inside) : inside[l] < taken
            BY <1>1, <3>1 DEF Ordered, n
        <3>4. Below(u, <<taken>>) /\ Below(c, <<taken>>) /\ Below(inside, <<taken>>)
            BY <1>5, <1>6, <3>2, <3>3 DEF Below
        <3> QED
            BY <3>1, <3>2, <3>4 DEF Rising
    <2>2. CASE worker \notin {"lock", "input"}
        <3>1. InHand = <<>>
            BY <2>2 DEF InHand
        <3> QED
            BY <3>1, EmptySeq DEF Rising, Below
    <2> QED
        BY <2>1, <2>2
<1>13. Below(u \o c \o inside, InHand)
    BY <1>5, <1>6, <1>7, <1>10, <1>12, JoinBelow
<1> QED
    BY <1>11, <1>12, <1>13, JoinRises DEF u, c

LEMMA RingMeans == RingInv /\ HeldInv => SamplesInOrder
<1> SUFFICES ASSUME RingInv, HeldInv PROVE SamplesInOrder
    OBVIOUS
<1> DEFINE T    == ToSend
           Q    == mFrameInputQueue
           all  == T \o Q
           line == <<sentUpTo>> \o Contents \o inside \o InHand
<1>1. /\ T \in Seq(Frames) /\ Q \in Seq(Frames)
      /\ Round(T, Q) /\ Filled(T, Q, content)
    BY DEF RingInv, Ring, Queues
<1>2. line \in Seq(Nat) /\ Rising(line)
    BY LineRises
<1>3. /\ Len(T) \in Nat /\ DOMAIN T = 1..Len(T)
      /\ Len(Q) \in Nat /\ DOMAIN Q = 1..Len(Q)
    BY <1>1, LenProperties
<1>4. /\ all \in Seq(Frames) /\ Len(all) = Len(T) + Len(Q) /\ DOMAIN all = 1..Len(all)
      /\ \A k \in 1..Len(T) + Len(Q) : all[k] = IF k <= Len(T) THEN T[k] ELSE Q[k - Len(T)]
    BY <1>1, ConcatProperties, LenProperties
<1> HIDE DEF T, Q, all, line
<1>5. ToSet(all) \subseteq Frames
    BY <1>4, ElementOfSeq DEF ToSet
<1>6. ASSUME NEW f \in Frames PROVE f \in ToSet(all)
    <2>1. CASE \E k \in 1..Len(T) : f = T[k]
        <3>1. PICK k \in 1..Len(T) : f = T[k]
            BY <2>1
        <3>2. k \in 1..Len(all) /\ all[k] = f
            BY <1>3, <1>4, <3>1
        <3> QED
            BY <1>4, <3>2 DEF ToSet
    <2>2. CASE \E l \in 1..Len(Q) : f = Q[l]
        <3>1. PICK l \in 1..Len(Q) : f = Q[l]
            BY <2>2
        <3>2. /\ Len(T) + l \in 1..Len(all) /\ ~(Len(T) + l <= Len(T))
              /\ (Len(T) + l) - Len(T) = l
            BY <1>3, <1>4
        <3>3. all[Len(T) + l] = f
            BY <1>4, <3>1, <3>2
        <3> QED
            BY <1>4, <3>2, <3>3 DEF ToSet
    <2> QED
        BY <1>1, <2>1, <2>2 DEF Round
<1>7. ToSet(all) = Frames /\ Len(all) = DEFAULT_FRAME_NUM
    BY <1>1, <1>4, <1>5, <1>6 DEF Round
<1>8. \A f \in ToSet(T) : Len(content[f]) = 1
    BY <1>1, <1>3 DEF ToSet, Filled
<1>9. \A f \in ToSet(Q) : content[f] = <<>>
    BY <1>1, <1>3 DEF ToSet, Filled
<1>10. ASSUME NEW j \in 2..Len(line) PROVE line[j - 1] < line[j]
    <2>1. j - 1 \in 1..Len(line) /\ j \in 1..Len(line) /\ j - 1 < j
        BY <1>2, LenProperties
    <2> QED
        BY <1>2, <2>1 DEF Rising
<1> QED
    BY <1>7, <1>8, <1>9, <1>10 DEF SamplesInOrder, T, Q, all, line

\* However the capture's thread, the timer thread and the owner in videoExit
\* interleave: no frame of the Windows stream is lost or in two places, each that
\* waits to be sent holds one sample, and the samples are sent in the order in
\* which the screen frames came, for any number of frames, samples and starts.
THEOREM SamplesKeepOrder == Spec => []SamplesInOrder
    BY RingInvariance, RingMeans, PTL
==============================================================================
