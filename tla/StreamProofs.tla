----------------------------- MODULE StreamProofs -----------------------------
(***************************************************************************)
(* The stream on its way from the device to the packets.                   *)
(*                                                                         *)
(* First FramePipeline, for any number of pool threads, devices, frames    *)
(* and commands, and for every choice of the calls that may fail.  Then    *)
(* NaluParser and RtpPacketizer, for every stream the encoder may write    *)
(* and all limits and widths: the loops of the parsers are followed round  *)
(* by round, and a theorem says what they return.  The two models share    *)
(* no variable.                                                            *)
(***************************************************************************)
EXTENDS FramePipeline, RtpPacketizer, SequenceTheorems, FunctionTheorems,
        FiniteSetTheorems, WellFoundedInduction, TLAPS

\* What init leaves behind at each of its steps, as long as no init has failed
\* and none of a new device has overlapped with another: the init of a new device
\* is alone, and each of its steps finds what the step before has left.
Orderly == ~initFailed /\ overlap # "new"

OrderInv ==
    /\ \A c, e \in Clients : Opening(c) /\ InInit(e) => c = e
    /\ \A c \in Clients :
          /\ cmd[c] \in {"mmap", "select", "emplaceFd", "emplaceTable"} => mV4l2Buf = cmdDev[c]
          /\ cmd[c] \in {"kill", "open", "reqbufs"} => cmdDev[c] \notin devFdMap
    /\ \A d \in DOMAIN mFdV4l2BufMap : mFdV4l2BufMap[d] = d
    /\ \A d \in devFdMap :
          \/ d \in DOMAIN mFdV4l2BufMap
          \/ \E c \in Clients : cmd[c] = "emplaceTable" /\ cmdDev[c] = d
    /\ \A d \in opened :
          \/ d \in devFdMap
          \/ \E c \in Clients :
                cmd[c] \in {"reqbufs", "mmap", "select", "emplaceFd"} /\ cmdDev[c] = d

\* An init of a known device that is alone has selected the device it reopens.
ReopenInv ==
    overlap = "none" =>
        \A c \in Clients : cmd[c] = "reopen" =>
            /\ mFd \in {None, cmdDev[c]}
            /\ \A e \in Clients : InInit(e) => e = c

DeviceInv ==
    /\ \A c \in Clients : cmd[c] # "idle" => cmdDev[c] \in Devs
    /\ \A c \in Clients : cmd[c] = "reopen" => cmdDev[c] \in devFdMap
    /\ Orderly => OrderInv /\ ReopenInv
    /\ TableMatchesFd
    /\ KillNeeds

IInv ==
    /\ TypeOK
    /\ FrameOwnership
    /\ OneReader
    /\ DeviceInv
    /\ TasksCoverFrames
------------------------------------------------------------------------------
\* Sequences without repetition as queues.

LEMMA TailFacts ==
    ASSUME NEW S, NEW q \in Seq(S), q # <<>>, IsInjective(q)
    PROVE  /\ Tail(q) \in Seq(S)
           /\ IsInjective(Tail(q))
           /\ Head(q) \in Range(q)
           /\ Head(q) \in S
           /\ Range(Tail(q)) = Range(q) \ {Head(q)}
           /\ Len(Tail(q)) = Len(q) - 1
<1>1. /\ Head(q) \in S /\ Tail(q) \in Seq(S) /\ Len(Tail(q)) = Len(q) - 1
      /\ \A k \in 1..Len(Tail(q)) : Tail(q)[k] = q[k + 1]
    BY HeadTailProperties
<1>2. Len(q) \in Nat \ {0} /\ Head(q) = q[1] /\ DOMAIN q = 1..Len(q)
    BY EmptySeq, LenProperties
<1>3. DOMAIN Tail(q) = 1..(Len(q) - 1)
    BY <1>1, LenProperties
<1>4. IsInjective(Tail(q))
    BY <1>1, <1>2, <1>3 DEF IsInjective
<1>5. Head(q) \in Range(q)
    BY <1>2 DEF Range
<1>6. ASSUME NEW x \in Range(Tail(q))
      PROVE  x \in Range(q) \ {Head(q)}
    <2>1. PICK k \in 1..(Len(q) - 1) : x = Tail(q)[k]
        BY <1>3, <1>6 DEF Range
    <2>2. x = q[k + 1] /\ k + 1 \in DOMAIN q /\ k + 1 # 1 /\ 1 \in DOMAIN q
        BY <2>1, <1>1, <1>2
    <2> QED BY <2>2, <1>2 DEF Range, IsInjective
<1>7. ASSUME NEW x \in Range(q) \ {Head(q)}
      PROVE  x \in Range(Tail(q))
    <2>1. PICK k \in 1..Len(q) : x = q[k]
        BY <1>2 DEF Range
    <2>2. k # 1 /\ k - 1 \in 1..(Len(q) - 1)
        BY <2>1, <1>2
    <2>3. Tail(q)[k - 1] = x
        BY <2>1, <2>2, <1>1, <1>2
    <2> QED BY <2>2, <2>3, <1>3 DEF Range
<1> QED BY <1>1, <1>4, <1>5, <1>6, <1>7

LEMMA AppendFacts ==
    ASSUME NEW S, NEW q \in Seq(S), NEW e \in S, IsInjective(q), e \notin Range(q)
    PROVE  /\ Append(q, e) \in Seq(S)
           /\ IsInjective(Append(q, e))
           /\ Append(q, e) # <<>>
           /\ q # <<>> => Head(Append(q, e)) = Head(q)
           /\ Range(Append(q, e)) = Range(q) \cup {e}
           /\ Len(Append(q, e)) = Len(q) + 1
<1> DEFINE p == Append(q, e)
           n == Len(q)
<1>1. /\ p \in Seq(S) /\ p # <<>> /\ Len(p) = n + 1 /\ n \in Nat
      /\ \A k \in 1..n : p[k] = q[k]
      /\ p[n + 1] = e
    BY AppendProperties, LenProperties
<1>2. DOMAIN p = 1..(n + 1) /\ DOMAIN q = 1..n
    BY <1>1, LenProperties
<1>3. q # <<>> => Head(p) = Head(q)
    BY HeadTailAppend
<1>4. \A k \in 1..n : q[k] # e
    BY <1>2 DEF Range
<1> HIDE DEF p, n
<1>5. IsInjective(p)
    <2> SUFFICES ASSUME NEW k \in 1..(n + 1), NEW j \in 1..(n + 1), p[k] = p[j]
                 PROVE  k = j
        BY <1>2 DEF IsInjective
    <2>1. (k \in 1..n \/ k = n + 1) /\ (j \in 1..n \/ j = n + 1)
        BY <1>1
    <2> QED BY <2>1, <1>1, <1>2, <1>4 DEF IsInjective
<1>6. Range(p) = Range(q) \cup {e}
    <2>1. ASSUME NEW x \in Range(p) PROVE x \in Range(q) \cup {e}
        <3>1. PICK k \in 1..(n + 1) : x = p[k]
            BY <1>2 DEF Range
        <3>2. k \in 1..n \/ k = n + 1
            BY <1>1
        <3> QED BY <3>1, <3>2, <1>1, <1>2 DEF Range
    <2>2. ASSUME NEW x \in Range(q) PROVE x \in Range(p)
        <3>1. PICK k \in 1..n : x = q[k]
            BY <1>2 DEF Range
        <3>2. k \in 1..(n + 1)
            BY <1>1
        <3> QED BY <3>1, <3>2, <1>1, <1>2 DEF Range
    <2>3. n + 1 \in 1..(n + 1)
        BY <1>1
    <2>4. e \in Range(p)
        BY <2>3, <1>1, <1>2 DEF Range
    <2> QED BY <2>1, <2>2, <2>4
<1> QED BY <1>1, <1>3, <1>5, <1>6 DEF p, n

\* Frames do not repeat in a queue, so no queue is longer than there are frames.
LEMMA LenBound ==
    ASSUME NEW n \in Nat, NEW q \in Seq(1..n), IsInjective(q)
    PROVE  Len(q) \in 0..n
<1>1. Len(q) \in Nat /\ q \in [1..Len(q) -> 1..n]
    BY LenProperties
<1>2. ExistsInjection(1..Len(q), 1..n)
    BY <1>1 DEF ExistsInjection, Injection
<1> QED BY <1>1, <1>2, Fun_NatInjLeq
------------------------------------------------------------------------------
\* Counting the threads that execute a task.

LEMMA ActiveFacts ==
    ASSUME TypeOK
    PROVE  IsFiniteSet(Active) /\ Cardinality(Active) \in Nat
BY FS_Subset, FS_CardinalityType, PipelineAssumption DEF Active, TypeOK, ReadTypes

LEMMA ActiveStays ==
    ASSUME TypeOK, NEW r \in Readers, NEW to \in {"ready", "poll", "dqbuf", "qbuf"},
           Move(r, to), reader[r] # "idle"
    PROVE  Active' = Active
BY DEF Active, Move, TypeOK, ReadTypes

LEMMA ActiveGrows ==
    ASSUME TypeOK, NEW r \in Readers, Move(r, "ready"), reader[r] = "idle"
    PROVE  Cardinality(Active') = Cardinality(Active) + 1
<1>1. Active' = Active \cup {r} /\ r \notin Active
    BY DEF Active, Move, TypeOK, ReadTypes
<1> QED BY <1>1, ActiveFacts, FS_AddElement

LEMMA ActiveShrinks ==
    ASSUME TypeOK, NEW r \in Readers, Move(r, "idle"), reader[r] # "idle"
    PROVE  /\ Cardinality(Active') = Cardinality(Active) - 1
           /\ Cardinality(Active) \in Nat \ {0}
<1>1. Active' = Active \ {r} /\ r \in Active
    BY DEF Active, Move, TypeOK, ReadTypes
<1>2. Cardinality(Active) # 0
    BY <1>1, ActiveFacts, FS_EmptySet
<1> QED BY <1>1, <1>2, ActiveFacts, FS_RemoveElement
------------------------------------------------------------------------------
\* Counting the addTask calls that inits still have to make.

LEMMA CallsFinite == IsFiniteSet(Clients \X Frames) /\ ToAdd \subseteq Clients \X Frames
<1>1. IsFiniteSet(Frames)
    BY FS_Interval, PipelineAssumption DEF Frames
<1> QED BY <1>1, FS_Product, PipelineAssumption DEF ToAdd

LEMMA ToAddFacts ==
    /\ IsFiniteSet(ToAdd) /\ Cardinality(ToAdd) \in Nat
    /\ IsFiniteSet(ToAdd') /\ Cardinality(ToAdd') \in Nat
<1>1. ToAdd' \subseteq Clients \X Frames
    BY DEF ToAdd
<1> QED BY <1>1, CallsFinite, FS_Subset, FS_CardinalityType

LEMMA ToAddStays == ASSUME toAdd' = toAdd PROVE ToAdd' = ToAdd
BY DEF ToAdd

LEMMA ToAddShrinks ==
    ASSUME TypeOK, NEW c \in Clients, toAdd[c] > 0, toAdd' = [toAdd EXCEPT ![c] = @ - 1]
    PROVE  Cardinality(ToAdd') = Cardinality(ToAdd) - 1
<1>1. toAdd \in [Clients -> 0..DEFAULT_FRAME_NUM] /\ DEFAULT_FRAME_NUM \in Nat
    BY PipelineAssumption DEF TypeOK, CmdTypes
<1>2. toAdd[c] \in 0..DEFAULT_FRAME_NUM
    BY <1>1
<1>3. <<c, toAdd[c]>> \in ToAdd
    BY <1>1, <1>2 DEF ToAdd, Frames
<1>4. ASSUME NEW call \in Clients \X Frames
      PROVE  call \in ToAdd' <=> call \in ToAdd /\ call # <<c, toAdd[c]>>
    <2>1. PICK e \in Clients, k \in Frames : call = <<e, k>>
        OBVIOUS
    <2>2. k \in Nat /\ toAdd[e] \in 0..DEFAULT_FRAME_NUM
        BY <1>1 DEF Frames
    <2>3. toAdd'[e] = IF e = c THEN toAdd[c] - 1 ELSE toAdd[e]
        BY <1>1
    <2>4. call[1] = e /\ call[2] = k
        BY <2>1
    <2>5. call \in ToAdd <=> k <= toAdd[e]
        BY <2>4 DEF ToAdd
    <2>6. call \in ToAdd' <=> k <= toAdd'[e]
        BY <2>4 DEF ToAdd
    <2>7. call # <<c, toAdd[c]>> <=> e # c \/ k # toAdd[c]
        BY <2>1
    <2> HIDE DEF ToAdd
    <2> QED BY <1>1, <1>2, <2>2, <2>3, <2>5, <2>6, <2>7
<1>5. ToAdd' = ToAdd \ {<<c, toAdd[c]>>}
    <2>1. ToAdd \subseteq Clients \X Frames /\ ToAdd' \subseteq Clients \X Frames
        BY DEF ToAdd
    <2> HIDE DEF ToAdd
    <2> QED BY <1>4, <2>1
<1> QED BY <1>3, <1>5, ToAddFacts, FS_RemoveElement

LEMMA ToAddFull ==
    ASSUME TypeOK, NEW c \in Clients, toAdd' = [toAdd EXCEPT ![c] = DEFAULT_FRAME_NUM]
    PROVE  DEFAULT_FRAME_NUM <= Cardinality(ToAdd')
<1>1. IsFiniteSet(Frames) /\ Cardinality(Frames) = DEFAULT_FRAME_NUM
    BY FS_Interval, PipelineAssumption DEF Frames
<1>2. IsFiniteSet({c}) /\ Cardinality({c}) = 1
    BY FS_Singleton
<1>3. Cardinality({c} \X Frames) = 1 * Cardinality(Frames)
    BY <1>1, <1>2, FS_Product
<1>4. toAdd'[c] = DEFAULT_FRAME_NUM
    BY DEF TypeOK, CmdTypes
<1>5. {c} \X Frames \in SUBSET ToAdd'
    BY <1>4, PipelineAssumption DEF ToAdd, Frames
<1> QED BY <1>1, <1>3, <1>5, ToAddFacts, FS_Subset, PipelineAssumption
------------------------------------------------------------------------------
\* Types.

LEMMA QueueTypesStep == TypeOK /\ OneReader /\ [Next]_vars => QueueTypes'
<1> SUFFICES ASSUME TypeOK, OneReader, [Next]_vars
             PROVE  QueueTypes'
    OBVIOUS
<1> USE DEF TypeOK, QueueTypes
<1>1. ASSUME NEW r \in Readers, DequeueAndEncode(r)
      PROVE  QueueTypes'
    <2>1. r \in InReader
        BY <1>1 DEF DequeueAndEncode, InReader
    <2>2. Head(mFrameInputQueue) \in Frames
        BY <2>1, HeadTailProperties DEF OneReader
    <2>3. PICK k \in 0..MaxNalu : sizes' = [sizes EXCEPT ![Head(mFrameInputQueue)] = @ + k]
        BY <1>1 DEF DequeueAndEncode
    <2>4. sizes' \in [Frames -> Nat]
        BY <2>2, <2>3
    <2>5. UNCHANGED <<mFrameInputQueue, mFrameOutputQueue, held>>
        BY <1>1 DEF DequeueAndEncode
    <2> QED BY <2>4, <2>5
<1>2. ASSUME NEW r \in Readers, RequeueAndPush(r)
      PROVE  QueueTypes'
    <2>1. r \in InReader
        BY <1>2 DEF RequeueAndPush, InReader
    <2>2. /\ Head(mFrameInputQueue) \in Frames
          /\ Tail(mFrameInputQueue) \in Seq(Frames)
        BY <2>1, HeadTailProperties DEF OneReader
    <2>3. /\ mFrameInputQueue' \in Seq(Frames)
          /\ mFrameOutputQueue' \in Seq(Frames)
        BY <1>2, <2>2, AppendProperties DEF RequeueAndPush, PopHead
    <2>4. UNCHANGED <<sizes, held>>
        BY <1>2 DEF RequeueAndPush
    <2> QED BY <2>3, <2>4
<1>3. CASE SinkGet
    <2>1. held' \in Frames /\ mFrameOutputQueue' \in Seq(Frames)
        BY <1>3, HeadTailProperties DEF SinkGet
    <2>2. UNCHANGED <<mFrameInputQueue, sizes>>
        BY <1>3 DEF SinkGet
    <2> QED BY <2>1, <2>2
<1>4. CASE SinkPut
    <2>1. held \in Frames
        BY <1>4 DEF SinkPut
    <2>2. mFrameInputQueue' \in Seq(Frames)
        BY <1>4, <2>1, AppendProperties DEF SinkPut
    <2>3. sizes' \in [Frames -> Nat]
        BY <1>4, <2>1 DEF SinkPut, Cleared
    <2>4. held' = NoFrame /\ mFrameOutputQueue' = mFrameOutputQueue
        BY <1>4 DEF SinkPut
    <2> QED BY <2>2, <2>3, <2>4
<1>5. CASE UNCHANGED queueVars
    BY <1>5 DEF queueVars
<1>6. ASSUME NEW r \in Readers,
             TakeTask(r) \/ ReadReturn(r) \/ ReadLock(r) \/ PollReady(r) \/ ReadFails(r)
                 \/ ReadCrash(r)
      PROVE  UNCHANGED queueVars
    BY <1>6 DEF TakeTask, ReadReturn, ReadLock, PollReady, ReadFails, ReadCrash
<1>7. ASSUME NEW c \in Clients, Command(c)
      PROVE  UNCHANGED queueVars
    BY <1>7 DEF Command, InitGoesOn, ShowKnown, ShowNew, ReopenTable, KillUsers, OpenDevice, RequestBuffers,
           MapAndStream, InitFails, SelectNew, EmplaceFd, EmplaceTable, InitAddTask, InitCrash, Stop
<1>8. CASE UNCHANGED vars
    BY <1>5, <1>8 DEF vars
<1> QED BY <1>1, <1>2, <1>3, <1>4, <1>5, <1>6, <1>7, <1>8 DEF Next, Read, ReadGoesOn

LEMMA ReadTypesStep == TypeOK /\ [Next]_vars => ReadTypes'
<1> SUFFICES ASSUME TypeOK, [Next]_vars
             PROVE  ReadTypes'
    OBVIOUS
<1> USE DEF TypeOK, ReadTypes
<1>1. ASSUME NEW r \in Readers, Read(r)
      PROVE  ReadTypes'
    <2>1. \/ reader' = reader
          \/ \E to \in {"idle", "ready", "poll", "dqbuf", "qbuf"} :
                reader' = [reader EXCEPT ![r] = to]
        BY <1>1 DEF Read, ReadGoesOn, TakeTask, ReadReturn, ReadLock, PollReady, ReadFails,
                    DequeueAndEncode, RequeueAndPush, ReadCrash, Move, readVars
    <2>2. reader' \in [Readers -> {"idle", "ready", "poll", "dqbuf", "qbuf"}]
        BY <2>1
    <2>3. mMutex' \in Readers \cup {None}
        BY <1>1 DEF Read, ReadGoesOn, TakeTask, ReadReturn, ReadLock, PollReady, ReadFails,
                    DequeueAndEncode, RequeueAndPush, ReadCrash, readVars
    <2>4. pending' \in Nat /\ lost' \in Nat
        BY <1>1 DEF Read, ReadGoesOn, TakeTask, ReadReturn, ReadLock, PollReady, ReadFails,
                    DequeueAndEncode, RequeueAndPush, ReadCrash, readVars
    <2> QED BY <2>2, <2>3, <2>4
<1>2. CASE SinkGet
    BY <1>2 DEF SinkGet, readVars
<1>3. CASE SinkPut
    BY <1>3 DEF SinkPut, OneMoreTask
<1>4. ASSUME NEW c \in Clients, InitAddTask(c)
      PROVE  ReadTypes'
    BY <1>4 DEF InitAddTask
<1>5. ASSUME NEW c \in Clients, NEW d, Select(c, d), UNCHANGED <<pending, reader, mMutex>>
      PROVE  ReadTypes'
    BY <1>5 DEF Select
<1>6. ASSUME NEW c \in Clients, NEW d \in Devs, ShowKnown(c, d)
      PROVE  ReadTypes'
    BY <1>5, <1>6 DEF ShowKnown
<1>7. ASSUME NEW c \in Clients, SelectNew(c)
      PROVE  ReadTypes'
    BY <1>5, <1>7 DEF SelectNew
<1>8. CASE UNCHANGED readVars
    BY <1>8 DEF readVars
<1>9. ASSUME NEW c \in Clients,
             \/ \E d \in Devs : ShowNew(c, d)
             \/ ReopenTable(c) \/ KillUsers(c) \/ OpenDevice(c) \/ RequestBuffers(c)
             \/ MapAndStream(c) \/ InitFails(c) \/ EmplaceFd(c) \/ EmplaceTable(c)
             \/ InitCrash(c) \/ Stop(c)
      PROVE  UNCHANGED readVars
    BY <1>9 DEF ShowNew, ReopenTable, KillUsers, OpenDevice, RequestBuffers, MapAndStream,
                InitFails, EmplaceFd, EmplaceTable, InitCrash, Stop
<1>10. UNCHANGED vars => UNCHANGED readVars
    BY DEF vars
<1> QED BY <1>1, <1>2, <1>3, <1>4, <1>6, <1>7, <1>8, <1>9, <1>10 DEF Next, Command, InitGoesOn

\* The steps of the pool threads and of the timer thread touch no device.
LEMMA ThreadFrame ==
    /\ \A r \in Readers : Read(r) => UNCHANGED <<deviceVars, cmdVars>>
    /\ SinkGet \/ SinkPut => UNCHANGED <<deviceVars, cmdVars, proc>>
BY DEF Read, ReadGoesOn, TakeTask, ReadReturn, ReadLock, PollReady, ReadFails,
       DequeueAndEncode, RequeueAndPush, ReadCrash, SinkGet, SinkPut

LEMMA DeviceTypesStep == TypeOK /\ DeviceInv /\ [Next]_vars => DeviceTypes' /\ CmdTypes'
<1> DEFINE At == {"idle", "reopen", "kill", "open", "reqbufs", "mmap", "select",
                  "emplaceFd", "emplaceTable", "addTasks"}
<1> SUFFICES ASSUME TypeOK, DeviceInv, [Next]_vars
             PROVE  DeviceTypes' /\ CmdTypes'
    OBVIOUS
<1>0. /\ cmd \in [Clients -> At] /\ cmdDev \in [Clients -> Devs \cup {None}]
      /\ toAdd \in [Clients -> 0..DEFAULT_FRAME_NUM] /\ shows \in 0..MaxShows
      /\ DEFAULT_FRAME_NUM \in Nat \ {0} /\ MaxShows \in Nat
      /\ \A c \in Clients : cmd[c] # "idle" => cmdDev[c] \in Devs
    BY PipelineAssumption DEF TypeOK, CmdTypes, DeviceInv
<1>1. ASSUME NEW c \in Clients, NEW to \in At, Go(c, to)
      PROVE  cmd' \in [Clients -> At]
    BY <1>0, <1>1 DEF Go
<1>2. ASSUME NEW d \in Devs, NEW table \in Devs \cup {None}
      PROVE  /\ DOMAIN Emplaced(d, table) \subseteq Devs
             /\ Emplaced(d, table) \in [DOMAIN Emplaced(d, table) -> Devs \cup {None}]
    BY DEF Emplaced, TypeOK, DeviceTypes
<1>3. ASSUME NEW c \in Clients, NEW d \in Devs, Select(c, d)
      PROVE  mFd' \in Devs /\ toAdd' \in [Clients -> 0..DEFAULT_FRAME_NUM]
    BY <1>0, <1>3 DEF Select, TasksOfInit
<1> HIDE DEF At
<1>4. ASSUME UNCHANGED <<mFd, mV4l2Buf, devFdMap, mFdV4l2BufMap, opened, mapped>>
      PROVE  DeviceTypes'
    BY <1>4 DEF TypeOK, DeviceTypes
<1>5. ASSUME cmd' \in [Clients -> At], UNCHANGED <<cmdDev, toAdd, shows>>,
             initFailed' \in BOOLEAN, overlap' \in {"none", "known", "new"}
      PROVE  CmdTypes'
    BY <1>0, <1>5 DEF CmdTypes, At
<1>6. initFailed \in BOOLEAN /\ overlap \in {"none", "known", "new"}
    BY DEF TypeOK, CmdTypes
<1>11. ASSUME NEW c \in Clients, NEW d \in Devs, ShowKnown(c, d)
       PROVE  DeviceTypes' /\ CmdTypes'
    <2>1. cmd' \in [Clients -> At]
        BY <1>1, <1>11 DEF ShowKnown, At
    <2>2. mFd' \in Devs /\ toAdd' \in [Clients -> 0..DEFAULT_FRAME_NUM]
        BY <1>3, <1>11 DEF ShowKnown
    <2>3. UNCHANGED <<mV4l2Buf, devFdMap, mFdV4l2BufMap, opened, mapped, initFailed>>
        BY <1>11 DEF ShowKnown
    <2>4. shows' \in 0..MaxShows
        BY <1>0, <1>11 DEF ShowKnown, MayShow
    <2>5. cmdDev' \in [Clients -> Devs \cup {None}]
        BY <1>0, <1>11 DEF ShowKnown
    <2>6. overlap' \in {"none", "known", "new"}
        BY <1>11 DEF ShowKnown
    <2>7. DeviceTypes'
        BY <2>2, <2>3 DEF TypeOK, DeviceTypes
    <2>8. CmdTypes'
        BY <1>6, <2>1, <2>2, <2>3, <2>4, <2>5, <2>6 DEF CmdTypes, At
    <2> QED BY <2>7, <2>8
<1>12. ASSUME NEW c \in Clients, NEW d \in Devs, ShowNew(c, d)
       PROVE  DeviceTypes' /\ CmdTypes'
    <2>1. cmd' \in [Clients -> At]
        BY <1>1, <1>12 DEF ShowNew, At
    <2>2. UNCHANGED deviceVars /\ UNCHANGED <<toAdd, initFailed>>
        BY <1>12 DEF ShowNew
    <2>3. shows' \in 0..MaxShows
        BY <1>0, <1>12 DEF ShowNew, MayShow
    <2>4. cmdDev' \in [Clients -> Devs \cup {None}]
        BY <1>0, <1>12 DEF ShowNew
    <2>5. overlap' \in {"none", "known", "new"}
        BY <1>6, <1>12 DEF ShowNew
    <2>6. CmdTypes'
        BY <1>0, <1>6, <2>1, <2>2, <2>3, <2>4, <2>5 DEF CmdTypes, At
    <2> QED BY <1>4, <2>2, <2>6 DEF deviceVars
<1>13. ASSUME NEW c \in Clients, ReopenTable(c)
       PROVE  DeviceTypes' /\ CmdTypes'
    <2>1. cmdDev[c] \in Devs
        BY <1>0, <1>13 DEF ReopenTable
    <2>2. mV4l2Buf' \in Devs \cup {None}
        BY <1>13, <2>1 DEF ReopenTable, TableOf, TypeOK, DeviceTypes
    <2>3. /\ DOMAIN mFdV4l2BufMap' \subseteq Devs
          /\ mFdV4l2BufMap' \in [DOMAIN mFdV4l2BufMap' -> Devs \cup {None}]
        BY <1>2, <1>13, <2>1 DEF ReopenTable
    <2>4. UNCHANGED <<mFd, devFdMap, opened, mapped, cmdDev, toAdd, initFailed, overlap, shows>>
        BY <1>13 DEF ReopenTable
    <2>5. cmd' \in [Clients -> At]
        BY <1>1, <1>13 DEF ReopenTable, At
    <2>6. DeviceTypes'
        BY <2>2, <2>3, <2>4 DEF TypeOK, DeviceTypes
    <2> QED BY <1>5, <1>6, <2>4, <2>5, <2>6
<1>14. ASSUME NEW c \in Clients, KillUsers(c)
       PROVE  DeviceTypes' /\ CmdTypes'
    <2>1. UNCHANGED deviceVars /\ UNCHANGED <<cmdDev, toAdd, initFailed, overlap, shows>>
        BY <1>14 DEF KillUsers
    <2>2. cmd' \in [Clients -> At]
        BY <1>0, <1>1, <1>14 DEF KillUsers, At
    <2> QED BY <1>4, <1>5, <1>6, <2>1, <2>2 DEF deviceVars
<1>15. ASSUME NEW c \in Clients, OpenDevice(c) \/ RequestBuffers(c) \/ MapAndStream(c)
       PROVE  DeviceTypes' /\ CmdTypes'
    <2>1. cmdDev[c] \in Devs
        BY <1>0, <1>15 DEF OpenDevice, RequestBuffers, MapAndStream
    <2>2. UNCHANGED <<mFd, devFdMap, mFdV4l2BufMap, cmdDev, toAdd, initFailed, overlap, shows>>
        BY <1>15 DEF OpenDevice, RequestBuffers, MapAndStream
    <2>3. cmd' \in [Clients -> At]
        BY <1>1, <1>15 DEF OpenDevice, RequestBuffers, MapAndStream, At
    <2>4. TablesAtHand(c) \subseteq Devs
        BY <2>1 DEF TablesAtHand, TypeOK, DeviceTypes
    <2>5. /\ mV4l2Buf' \in Devs \cup {None}
          /\ opened' \in SUBSET Devs
          /\ mapped' \in SUBSET Devs
        BY <1>15, <2>1, <2>4 DEF OpenDevice, RequestBuffers, MapAndStream, TypeOK, DeviceTypes
    <2>6. DeviceTypes'
        BY <2>2, <2>5 DEF TypeOK, DeviceTypes
    <2> QED BY <1>5, <1>6, <2>2, <2>3, <2>6
<1>16. ASSUME NEW c \in Clients, InitFails(c)
       PROVE  DeviceTypes' /\ CmdTypes'
    <2>1. cmdDev[c] \in Devs
        BY <1>0, <1>16 DEF InitFails
    <2>2. UNCHANGED <<mFd, devFdMap, mFdV4l2BufMap, cmdDev, toAdd, overlap, shows>>
        BY <1>16 DEF InitFails
    <2>3. cmd' \in [Clients -> At]
        BY <1>1, <1>16 DEF InitFails, At
    <2>4. TablesAtHand(c) \subseteq Devs
        BY <2>1 DEF TablesAtHand, TypeOK, DeviceTypes
    <2>5. mV4l2Buf' \in Devs \cup {None} /\ opened' \in SUBSET Devs
        BY <1>16, <2>1 DEF InitFails, TypeOK, DeviceTypes
    <2>6. mapped' \in SUBSET Devs
        BY <1>16, <2>4 DEF InitFails, TypeOK, DeviceTypes
    <2>7. initFailed' \in BOOLEAN
        BY <1>16 DEF InitFails
    <2>8. DeviceTypes'
        BY <2>2, <2>5, <2>6 DEF TypeOK, DeviceTypes
    <2> QED BY <1>5, <1>6, <2>2, <2>3, <2>7, <2>8
<1>17. ASSUME NEW c \in Clients, SelectNew(c)
       PROVE  DeviceTypes' /\ CmdTypes'
    <2>1. cmdDev[c] \in Devs
        BY <1>0, <1>17 DEF SelectNew
    <2>2. mFd' \in Devs /\ toAdd' \in [Clients -> 0..DEFAULT_FRAME_NUM]
        BY <1>3, <1>17, <2>1 DEF SelectNew
    <2>3. UNCHANGED <<mV4l2Buf, devFdMap, mFdV4l2BufMap, opened, mapped, cmdDev, initFailed,
                      shows>>
        BY <1>17 DEF SelectNew
    <2>4. cmd' \in [Clients -> At]
        BY <1>1, <1>17 DEF SelectNew, At
    <2>5. overlap' \in {"none", "known", "new"}
        BY <1>17 DEF SelectNew
    <2>6. DeviceTypes'
        BY <2>2, <2>3 DEF TypeOK, DeviceTypes
    <2>7. CmdTypes'
        BY <1>0, <1>6, <2>2, <2>3, <2>4, <2>5 DEF CmdTypes, At
    <2> QED BY <2>6, <2>7
<1>18. ASSUME NEW c \in Clients, EmplaceFd(c) \/ EmplaceTable(c)
       PROVE  DeviceTypes' /\ CmdTypes'
    <2>1. cmdDev[c] \in Devs
        BY <1>0, <1>18 DEF EmplaceFd, EmplaceTable
    <2>2. UNCHANGED <<mFd, mV4l2Buf, opened, mapped, cmdDev, toAdd, initFailed, overlap, shows>>
        BY <1>18 DEF EmplaceFd, EmplaceTable
    <2>3. cmd' \in [Clients -> At]
        BY <1>1, <1>18 DEF EmplaceFd, EmplaceTable, At
    <2>4. devFdMap' \in SUBSET Devs
        BY <1>18, <2>1 DEF EmplaceFd, EmplaceTable, TypeOK, DeviceTypes
    <2>5. mV4l2Buf \in Devs \cup {None}
        BY DEF TypeOK, DeviceTypes
    <2>6. /\ DOMAIN mFdV4l2BufMap' \subseteq Devs
          /\ mFdV4l2BufMap' \in [DOMAIN mFdV4l2BufMap' -> Devs \cup {None}]
        <3>1. CASE EmplaceFd(c)
            BY <3>1 DEF EmplaceFd, TypeOK, DeviceTypes
        <3>2. CASE EmplaceTable(c)
            BY <1>2, <2>1, <2>5, <3>2 DEF EmplaceTable
        <3> QED BY <1>18, <3>1, <3>2
    <2>7. DeviceTypes'
        BY <2>2, <2>4, <2>6 DEF TypeOK, DeviceTypes
    <2> QED BY <1>5, <1>6, <2>2, <2>3, <2>7
<1>19. ASSUME NEW c \in Clients, InitAddTask(c)
       PROVE  DeviceTypes' /\ CmdTypes'
    <2>1. UNCHANGED deviceVars /\ UNCHANGED <<cmdDev, initFailed, overlap, shows>>
        BY <1>19 DEF InitAddTask
    <2>2. cmd' \in [Clients -> At]
        BY <1>1, <1>19 DEF InitAddTask, At
    <2>3. toAdd[c] > 0 /\ toAdd' = [toAdd EXCEPT ![c] = toAdd[c] - 1]
        BY <1>19 DEF InitAddTask
    <2>4. toAdd[c] - 1 \in 0..DEFAULT_FRAME_NUM
        BY <1>0, <2>3
    <2>5. toAdd' \in [Clients -> 0..DEFAULT_FRAME_NUM]
        BY <1>0, <2>3, <2>4
    <2>6. CmdTypes'
        BY <1>0, <1>6, <2>1, <2>2, <2>5 DEF CmdTypes, At
    <2> QED BY <1>4, <2>1, <2>6 DEF deviceVars
<1>20. ASSUME NEW c \in Clients, InitCrash(c)
       PROVE  DeviceTypes' /\ CmdTypes'
    BY <1>0, <1>4, <1>5, <1>6, <1>20 DEF InitCrash, deviceVars
<1>21. ASSUME NEW c \in Clients, Stop(c)
       PROVE  DeviceTypes' /\ CmdTypes'
    <2>1. mFd' = None /\ UNCHANGED <<mV4l2Buf, devFdMap, mFdV4l2BufMap, opened, mapped>>
        BY <1>21 DEF Stop
    <2>2. UNCHANGED cmdVars
        BY <1>21 DEF Stop
    <2>3. DeviceTypes'
        BY <2>1 DEF TypeOK, DeviceTypes
    <2> QED BY <1>0, <1>5, <1>6, <2>2, <2>3 DEF cmdVars
<1>22. CASE UNCHANGED <<deviceVars, cmdVars>>
    BY <1>0, <1>4, <1>5, <1>6, <1>22 DEF deviceVars, cmdVars
<1>23. UNCHANGED vars => UNCHANGED <<deviceVars, cmdVars>>
    BY DEF vars
<1> QED BY <1>11, <1>12, <1>13, <1>14, <1>15, <1>16, <1>17, <1>18, <1>19, <1>20, <1>21, <1>22,
           <1>23, ThreadFrame DEF Next, Command, InitGoesOn

LEMMA TypeStep == TypeOK /\ OneReader /\ DeviceInv /\ [Next]_vars => TypeOK'
<1> SUFFICES ASSUME TypeOK, OneReader, DeviceInv, [Next]_vars
             PROVE  TypeOK'
    OBVIOUS
<1>1. QueueTypes' /\ ReadTypes' /\ DeviceTypes' /\ CmdTypes'
    BY QueueTypesStep, ReadTypesStep, DeviceTypesStep
<1>2. ASSUME NEW r \in Readers, Read(r)
      PROVE  proc' = proc \/ proc' = "crashed"
    BY <1>2 DEF Read, ReadGoesOn, TakeTask, ReadReturn, ReadLock, PollReady, ReadFails,
                DequeueAndEncode, RequeueAndPush, ReadCrash
<1>3. ASSUME NEW c \in Clients, Command(c)
      PROVE  proc' = proc \/ proc' = "crashed" \/ proc' = "killed"
    BY <1>3 DEF Command, InitGoesOn, ShowKnown, ShowNew, ReopenTable, KillUsers, OpenDevice,
                RequestBuffers, MapAndStream, InitFails, SelectNew, EmplaceFd, EmplaceTable,
                InitAddTask, InitCrash, Stop
<1>4. SinkGet \/ SinkPut \/ UNCHANGED vars => proc' = proc
    BY DEF SinkGet, SinkPut, vars
<1> QED BY <1>1, <1>2, <1>3, <1>4 DEF Next, TypeOK
------------------------------------------------------------------------------
\* The lock.

LEMMA OneReaderStep == TypeOK /\ OneReader /\ [Next]_vars => OneReader'
<1> SUFFICES ASSUME TypeOK, OneReader, [Next]_vars
             PROVE  OneReader'
    OBVIOUS
<1> USE DEF OneReader, InReader
<1>0. /\ reader \in [Readers -> {"idle", "ready", "poll", "dqbuf", "qbuf"}]
      /\ mFrameInputQueue \in Seq(Frames)
      /\ None \notin Readers
    BY PipelineAssumption DEF TypeOK, ReadTypes, QueueTypes
<1>1. ASSUME NEW r \in Readers, ReadLock(r)
      PROVE  OneReader'
    <2>1. InReader = {}
        BY <1>0, <1>1 DEF ReadLock, MutexFree
    <2>2. InReader' = {r} /\ mMutex' = r /\ mFrameInputQueue' # <<>>
        BY <1>0, <1>1, <2>1 DEF ReadLock, Move, NothingToRead, queueVars
    <2> QED BY <2>2
<1>2. ASSUME NEW r \in Readers, TakeTask(r) \/ ReadReturn(r)
      PROVE  OneReader'
    <2>1. /\ InReader' \subseteq InReader
          /\ UNCHANGED <<mMutex, mFrameInputQueue>>
        BY <1>0, <1>2 DEF TakeTask, ReadReturn, Move, queueVars
    <2> QED BY <2>1
<1>3. ASSUME NEW r \in Readers, PollReady(r) \/ DequeueAndEncode(r)
      PROVE  OneReader'
    <2>1. r \in InReader
        BY <1>3 DEF PollReady, DequeueAndEncode
    <2>2. /\ InReader' \subseteq InReader \cup {r}
          /\ UNCHANGED <<mMutex, mFrameInputQueue>>
        BY <1>0, <1>3 DEF PollReady, DequeueAndEncode, Move, queueVars
    <2> QED BY <2>1, <2>2
<1>4. ASSUME NEW r \in Readers, ReadFails(r) \/ RequeueAndPush(r)
      PROVE  OneReader'
    <2>1. r \in InReader
        BY <1>4 DEF ReadFails, RequeueAndPush
    <2>2. InReader = {r}
        BY <2>1
    <2>3. reader' = [reader EXCEPT ![r] = "idle"]
        BY <1>4 DEF ReadFails, RequeueAndPush, Move
    <2>4. InReader' = {}
        BY <1>0, <2>2, <2>3
    <2> QED BY <2>4
<1>5. CASE SinkPut
    <2>1. InReader = {}
        BY <1>0, <1>5 DEF SinkPut, MutexFree
    <2>2. UNCHANGED reader
        BY <1>5 DEF SinkPut
    <2> QED BY <2>1, <2>2
<1>6. CASE UNCHANGED <<mFrameInputQueue, reader, mMutex>>
    BY <1>6
<1>7. /\ SinkGet => UNCHANGED <<mFrameInputQueue, reader, mMutex>>
      /\ \A r \in Readers : ReadCrash(r) => UNCHANGED <<mFrameInputQueue, reader, mMutex>>
      /\ \A c \in Clients : Command(c) => UNCHANGED <<mFrameInputQueue, reader, mMutex>>
      /\ UNCHANGED vars => UNCHANGED <<mFrameInputQueue, reader, mMutex>>
    BY DEF SinkGet, ReadCrash, vars, queueVars, readVars, Command, InitGoesOn, ShowKnown, ShowNew, ReopenTable, KillUsers, OpenDevice, RequestBuffers,
           MapAndStream, InitFails, SelectNew, EmplaceFd, EmplaceTable, InitAddTask, InitCrash, Stop
<1> QED BY <1>1, <1>2, <1>3, <1>4, <1>5, <1>6, <1>7 DEF Next, Read, ReadGoesOn
------------------------------------------------------------------------------
\* The frames.

LEMMA FrameOwnershipStep ==
    TypeOK /\ FrameOwnership /\ OneReader /\ [Next]_vars => FrameOwnership'
<1> SUFFICES ASSUME TypeOK, FrameOwnership, OneReader, [Next]_vars
             PROVE  FrameOwnership'
    OBVIOUS
<1> USE DEF FrameOwnership, ToFill, ToSend
<1>0. /\ mFrameInputQueue \in Seq(Frames)
      /\ mFrameOutputQueue \in Seq(Frames)
      /\ held \in Frames \cup {NoFrame}
      /\ NoFrame \notin Frames
    BY DEF TypeOK, QueueTypes, Frames, NoFrame
<1>1. ASSUME NEW r \in Readers, RequeueAndPush(r)
      PROVE  FrameOwnership'
    <2> DEFINE f == Head(mFrameInputQueue)
    <2>1. mFrameInputQueue # <<>>
        BY <1>1 DEF RequeueAndPush, OneReader, InReader
    <2>2. /\ IsInjective(Tail(mFrameInputQueue))
          /\ Range(Tail(mFrameInputQueue)) = ToFill \ {f}
          /\ f \in ToFill /\ f \in Frames
        BY <1>0, <2>1, TailFacts
    <2>3. /\ IsInjective(Append(mFrameOutputQueue, f))
          /\ Range(Append(mFrameOutputQueue, f)) = ToSend \cup {f}
        BY <1>0, <2>2, AppendFacts
    <2>4. /\ mFrameInputQueue' = Tail(mFrameInputQueue)
          /\ mFrameOutputQueue' = Append(mFrameOutputQueue, f)
          /\ held' = held
        BY <1>1 DEF RequeueAndPush, PopHead
    <2> HIDE DEF f
    <2> QED BY <2>2, <2>3, <2>4
<1>2. CASE SinkGet
    <2> DEFINE f == Head(mFrameOutputQueue)
    <2>1. /\ IsInjective(Tail(mFrameOutputQueue))
          /\ Range(Tail(mFrameOutputQueue)) = ToSend \ {f}
          /\ f \in ToSend /\ f \in Frames
        BY <1>0, <1>2, TailFacts DEF SinkGet
    <2>2. /\ mFrameOutputQueue' = Tail(mFrameOutputQueue)
          /\ mFrameInputQueue' = mFrameInputQueue
          /\ held' = f /\ held = NoFrame
        BY <1>2 DEF SinkGet
    <2> HIDE DEF f
    <2> QED BY <1>0, <2>1, <2>2
<1>3. CASE SinkPut
    <2>1. held \in Frames /\ held \notin ToFill
        BY <1>0, <1>3 DEF SinkPut
    <2>2. /\ IsInjective(Append(mFrameInputQueue, held))
          /\ Range(Append(mFrameInputQueue, held)) = ToFill \cup {held}
        BY <1>0, <2>1, AppendFacts
    <2>3. /\ mFrameInputQueue' = Append(mFrameInputQueue, held)
          /\ mFrameOutputQueue' = mFrameOutputQueue
          /\ held' = NoFrame
        BY <1>3 DEF SinkPut
    <2> QED BY <1>0, <2>1, <2>2, <2>3
<1>4. CASE UNCHANGED <<mFrameInputQueue, mFrameOutputQueue, held>>
    BY <1>4
<1>5. ASSUME NEW r \in Readers,
             TakeTask(r) \/ ReadReturn(r) \/ ReadLock(r) \/ PollReady(r) \/ ReadFails(r)
                 \/ DequeueAndEncode(r) \/ ReadCrash(r)
      PROVE  UNCHANGED <<mFrameInputQueue, mFrameOutputQueue, held>>
    BY <1>5 DEF TakeTask, ReadReturn, ReadLock, PollReady, ReadFails, DequeueAndEncode,
                ReadCrash, queueVars
<1>6. /\ \A c \in Clients :
             Command(c) => UNCHANGED <<mFrameInputQueue, mFrameOutputQueue, held>>
      /\ UNCHANGED vars => UNCHANGED <<mFrameInputQueue, mFrameOutputQueue, held>>
    BY DEF vars, queueVars, Command, InitGoesOn, ShowKnown, ShowNew, ReopenTable, KillUsers, OpenDevice, RequestBuffers,
           MapAndStream, InitFails, SelectNew, EmplaceFd, EmplaceTable, InitAddTask, InitCrash, Stop
<1> QED BY <1>1, <1>2, <1>3, <1>4, <1>5, <1>6 DEF Next, Read, ReadGoesOn

LEMMA FewFrames == TypeOK /\ FrameOwnership => Len(mFrameInputQueue) \in 0..DEFAULT_FRAME_NUM
BY LenBound, PipelineAssumption DEF TypeOK, QueueTypes, FrameOwnership, Frames

LEMMA TasksStep ==
    TypeOK /\ TypeOK' /\ FrameOwnership /\ OneReader /\ TasksCoverFrames /\ [Next]_vars
        => TasksCoverFrames'
<1> SUFFICES ASSUME TypeOK, TypeOK', FrameOwnership, OneReader, TasksCoverFrames,
                    [Next]_vars
             PROVE  TasksCoverFrames'
    OBVIOUS
<1> USE DEF TasksCoverFrames
<1>0. /\ Len(mFrameInputQueue) \in Nat /\ Len(mFrameInputQueue') \in Nat
      /\ Cardinality(Active) \in Nat
      /\ pending \in Nat /\ lost \in Nat /\ Cardinality(ToAdd) \in Nat
      /\ mFrameInputQueue \in Seq(Frames)
    BY ActiveFacts, ToAddFacts, LenProperties DEF TypeOK, QueueTypes, ReadTypes
<1>1. ASSUME NEW r \in Readers, TakeTask(r)
      PROVE  TasksCoverFrames'
    <2>1. Cardinality(Active') = Cardinality(Active) + 1 /\ pending' = pending - 1
        BY <1>1, ActiveGrows DEF TakeTask
    <2>2. UNCHANGED <<mFrameInputQueue, mFd, toAdd, lost>>
        BY <1>1 DEF TakeTask, queueVars, deviceVars, cmdVars
    <2> QED BY <1>0, <2>1, <2>2, ToAddStays
<1>2. ASSUME NEW r \in Readers, ReadReturn(r)
      PROVE  TasksCoverFrames'
    <2>1. Cardinality(Active') = Cardinality(Active) - 1 /\ Cardinality(Active) \in Nat \ {0}
        BY <1>2, ActiveShrinks DEF ReadReturn
    <2>2. Len(<<>>) = 0
        OBVIOUS
    <2>3. mFd' # None => Len(mFrameInputQueue') = 0
        BY <1>2, <2>2 DEF ReadReturn, NothingToRead, queueVars, deviceVars
    <2>4. UNCHANGED <<pending, toAdd, lost>>
        BY <1>2 DEF ReadReturn, cmdVars
    <2> QED BY <1>0, <2>1, <2>3, <2>4, ToAddStays
<1>3. ASSUME NEW r \in Readers, ReadLock(r) \/ PollReady(r) \/ DequeueAndEncode(r)
      PROVE  TasksCoverFrames'
    <2>1. Active' = Active
        BY <1>3, ActiveStays DEF ReadLock, PollReady, DequeueAndEncode
    <2>2. UNCHANGED <<mFrameInputQueue, mFd, pending, toAdd, lost>>
        BY <1>3 DEF ReadLock, PollReady, DequeueAndEncode, queueVars, deviceVars, cmdVars
    <2> QED BY <2>1, <2>2, ToAddStays
<1>4. ASSUME NEW r \in Readers, ReadFails(r)
      PROVE  TasksCoverFrames'
    <2>1. Cardinality(Active') = Cardinality(Active) - 1 /\ lost' = lost + 1
        BY <1>4, ActiveShrinks DEF ReadFails
    <2>2. UNCHANGED <<mFrameInputQueue, mFd, pending, toAdd>>
        BY <1>4 DEF ReadFails, queueVars, deviceVars, cmdVars
    <2> QED BY <1>0, <2>1, <2>2, ToAddStays
<1>5. ASSUME NEW r \in Readers, RequeueAndPush(r)
      PROVE  TasksCoverFrames'
    <2>1. mFrameInputQueue # <<>>
        BY <1>5 DEF RequeueAndPush, OneReader, InReader
    <2>2. Len(mFrameInputQueue') = Len(mFrameInputQueue) - 1
        BY <1>0, <1>5, <2>1, HeadTailProperties DEF RequeueAndPush, PopHead
    <2>3. Cardinality(Active') = Cardinality(Active) - 1
        BY <1>5, ActiveShrinks DEF RequeueAndPush
    <2>4. UNCHANGED <<mFd, pending, toAdd, lost>>
        BY <1>5 DEF RequeueAndPush, deviceVars, cmdVars
    <2> QED BY <1>0, <2>2, <2>3, <2>4, ToAddStays
<1>6. CASE SinkPut
    <2>1. held \in Frames
        BY <1>6 DEF SinkPut, TypeOK, QueueTypes
    <2>2. Len(mFrameInputQueue') = Len(mFrameInputQueue) + 1
        BY <1>0, <1>6, <2>1, AppendProperties DEF SinkPut
    <2>3. pending' = pending + 1
        BY <1>6 DEF SinkPut, OneMoreTask
    <2>4. Active' = Active /\ UNCHANGED <<mFd, toAdd, lost>>
        BY <1>6 DEF SinkPut, Active, deviceVars, cmdVars
    <2> QED BY <1>0, <2>2, <2>3, <2>4, ToAddStays
<1>7. ASSUME NEW c \in Clients, NEW d, Select(c, d),
             UNCHANGED <<mFrameInputQueue, pending, reader>>
      PROVE  TasksCoverFrames'
    <2>1. lost' = 0 /\ Active' = Active
        BY <1>7 DEF Select, Active
    <2>2. DEFAULT_FRAME_NUM <= Cardinality(ToAdd') /\ Cardinality(ToAdd') \in Nat
        BY <1>7, ToAddFull, ToAddFacts DEF Select, TasksOfInit
    <2>3. Len(mFrameInputQueue') <= DEFAULT_FRAME_NUM
        BY <1>7, FewFrames, <1>0
    <2>4. DEFAULT_FRAME_NUM \in Nat
        BY PipelineAssumption
    <2> QED BY <1>0, <1>7, <2>1, <2>2, <2>3, <2>4
<1>8. ASSUME NEW c \in Clients, NEW d \in Devs, ShowKnown(c, d)
      PROVE  TasksCoverFrames'
    BY <1>7, <1>8 DEF ShowKnown, queueVars
<1>9. ASSUME NEW c \in Clients, SelectNew(c)
      PROVE  TasksCoverFrames'
    BY <1>7, <1>9 DEF SelectNew, queueVars
<1>10. ASSUME NEW c \in Clients, InitAddTask(c)
       PROVE  TasksCoverFrames'
    <2>1. pending' = pending + 1 /\ Cardinality(ToAdd') = Cardinality(ToAdd) - 1
        BY <1>10, ToAddShrinks DEF InitAddTask
    <2>2. Active' = Active /\ UNCHANGED <<mFrameInputQueue, mFd, lost>>
        BY <1>10 DEF InitAddTask, Active, queueVars, deviceVars
    <2> QED BY <1>0, <2>1, <2>2
<1>11. ASSUME NEW c \in Clients, Stop(c)
       PROVE  TasksCoverFrames'
    BY <1>11 DEF Stop
<1>12. CASE UNCHANGED <<mFrameInputQueue, reader, mFd, pending, toAdd, lost>>
    <2>1. Active' = Active
        BY <1>12 DEF Active
    <2> QED BY <1>12, <2>1, ToAddStays
<1>13. ASSUME NEW c \in Clients,
              \/ \E d \in Devs : ShowNew(c, d)
              \/ ReopenTable(c) \/ KillUsers(c) \/ OpenDevice(c) \/ RequestBuffers(c)
              \/ MapAndStream(c) \/ InitFails(c) \/ EmplaceFd(c) \/ EmplaceTable(c)
              \/ InitCrash(c)
       PROVE  UNCHANGED <<mFrameInputQueue, reader, mFd, pending, toAdd, lost>>
    BY <1>13 DEF ShowNew, ReopenTable, KillUsers, OpenDevice, RequestBuffers, MapAndStream,
                 InitFails, EmplaceFd, EmplaceTable, InitCrash, queueVars, readVars, deviceVars
<1>14. /\ SinkGet => UNCHANGED <<mFrameInputQueue, reader, mFd, pending, toAdd, lost>>
       /\ \A r \in Readers :
             ReadCrash(r) => UNCHANGED <<mFrameInputQueue, reader, mFd, pending, toAdd, lost>>
       /\ UNCHANGED vars => UNCHANGED <<mFrameInputQueue, reader, mFd, pending, toAdd, lost>>
    BY DEF SinkGet, ReadCrash, vars, queueVars, readVars, deviceVars, cmdVars
<1> QED BY <1>1, <1>2, <1>3, <1>4, <1>5, <1>6, <1>8, <1>9, <1>10, <1>11, <1>12, <1>13, <1>14
        DEF Next, Read, ReadGoesOn, Command, InitGoesOn
------------------------------------------------------------------------------
\* The devices.

LEMMA Moved ==
    ASSUME TypeOK, NEW c \in Clients, NEW to, Go(c, to)
    PROVE  \A e \in Clients : cmd'[e] = IF e = c THEN to ELSE cmd[e]
BY DEF Go, TypeOK, CmdTypes

\* For an init in order, the known devices have their own tables.
LEMMA OrderedTables ==
    ASSUME OrderInv, NEW c \in Clients, cmd[c] = "reopen", cmdDev[c] \in devFdMap
    PROVE  /\ cmdDev[c] \in DOMAIN mFdV4l2BufMap
           /\ TableOf(cmdDev[c]) = cmdDev[c]
           /\ Emplaced(cmdDev[c], None) = mFdV4l2BufMap
BY DEF OrderInv, Opening, InInit, TableOf, Emplaced

LEMMA ShowKnownStep ==
    ASSUME TypeOK, DeviceInv, NEW c \in Clients, NEW d \in Devs, ShowKnown(c, d)
    PROVE  DeviceInv'
<1>1. \A e \in Clients : cmd'[e] = IF e = c THEN "reopen" ELSE cmd[e]
    BY Moved DEF ShowKnown
<1>2. \A e \in Clients : cmdDev'[e] = IF e = c THEN d ELSE cmdDev[e]
    BY DEF ShowKnown, TypeOK, CmdTypes
<1>3. /\ cmd[c] = "idle" /\ d \in devFdMap /\ mFd' = d
      /\ UNCHANGED <<mV4l2Buf, devFdMap, mFdV4l2BufMap, opened, initFailed, proc>>
      /\ proc = "up"
    BY DEF ShowKnown, MayShow, Up, Select
<1>4. overlap' = IF overlap = "new" \/ \E e \in Others(c) : Opening(e) THEN "new"
                 ELSE IF Others(c) = {} THEN "none" ELSE "known"
    BY DEF ShowKnown
<1>5. ASSUME Orderly'
      PROVE  OrderInv' /\ ReopenInv'
    <2>1. Orderly /\ OrderInv
        BY <1>3, <1>4, <1>5 DEF Orderly, DeviceInv
    <2>2. \A e \in Clients : ~Opening(e)
        BY <1>3, <1>4, <1>5 DEF Orderly, Others, Opening, InInit
    <2>3. \A e \in Clients : ~Opening(e)'
        BY <1>1, <2>2 DEF Opening, InInit
    <2>4. OrderInv'
        <3>1. \A e \in Clients : cmd[e] \in {"idle", "addTasks", "reopen"}
                                 /\ cmd'[e] \in {"idle", "addTasks", "reopen"}
            BY <2>2, <2>3 DEF Opening, InInit
        <3> QED BY <1>3, <2>1, <2>3, <3>1 DEF OrderInv
    <2>5. ReopenInv'
        <3>1. overlap' = "none" => \A e \in Clients \ {c} : ~InInit(e)
            BY <1>4, <2>1, <2>2 DEF Others, Orderly
        <3>2. overlap' = "none" => \A e \in Clients \ {c} : ~InInit(e)' /\ cmd'[e] # "reopen"
            BY <1>1, <3>1 DEF InInit
        <3> QED BY <1>2, <1>3, <3>2 DEF ReopenInv
    <2> QED BY <2>4, <2>5
<1>6. TableMatchesFd'
    BY <1>1 DEF TableMatchesFd, InAssignment
<1>7. KillNeeds'
    BY <1>3 DEF KillNeeds
<1> QED BY <1>1, <1>2, <1>3, <1>5, <1>6, <1>7 DEF DeviceInv

LEMMA ShowNewStep ==
    ASSUME TypeOK, DeviceInv, NEW c \in Clients, NEW d \in Devs, ShowNew(c, d)
    PROVE  DeviceInv'
<1>1. \A e \in Clients : cmd'[e] = IF e = c THEN "kill" ELSE cmd[e]
    BY Moved DEF ShowNew
<1>2. \A e \in Clients : cmdDev'[e] = IF e = c THEN d ELSE cmdDev[e]
    BY DEF ShowNew, TypeOK, CmdTypes
<1>3. /\ cmd[c] = "idle" /\ d \notin devFdMap
      /\ UNCHANGED <<mFd, mV4l2Buf, devFdMap, mFdV4l2BufMap, opened, initFailed, proc>>
      /\ proc = "up"
      /\ overlap' = IF Others(c) = {} THEN overlap ELSE "new"
    BY DEF ShowNew, MayShow, Up, deviceVars
<1>4. ASSUME Orderly'
      PROVE  OrderInv' /\ ReopenInv'
    <2>1. Orderly /\ OrderInv
        BY <1>3, <1>4 DEF Orderly, DeviceInv
    <2>2. \A e \in Clients : ~InInit(e)
        BY <1>3, <1>4 DEF Orderly, Others, InInit
    <2>3. \A e \in Clients : cmd[e] \in {"idle", "addTasks"}
        BY <2>2 DEF InInit
    <2>4. \A e \in Clients : cmd'[e] \in {"idle", "addTasks"} \/ e = c
        BY <1>1, <2>3
    <2>5. OrderInv'
        BY <1>1, <1>2, <1>3, <2>1, <2>3, <2>4 DEF OrderInv, Opening, InInit
    <2>6. ReopenInv'
        BY <1>1, <2>4 DEF ReopenInv
    <2> QED BY <2>5, <2>6
<1>5. TableMatchesFd'
    <2>1. ~initFailed' /\ overlap' = "none" /\ mFd' # None =>
             ~initFailed /\ overlap = "none" /\ mFd # None
        BY <1>3
    <2>2. \A e \in Clients : InAssignment(e) => InAssignment(e)'
        BY <1>1, <1>3 DEF InAssignment
    <2> QED BY <1>3, <2>1, <2>2 DEF TableMatchesFd, DeviceInv
<1>6. KillNeeds'
    BY <1>3 DEF KillNeeds
<1> QED BY <1>1, <1>2, <1>3, <1>4, <1>5, <1>6 DEF DeviceInv

LEMMA ReopenStep ==
    ASSUME TypeOK, DeviceInv, NEW c \in Clients, ReopenTable(c)
    PROVE  DeviceInv'
<1>1. \A e \in Clients : cmd'[e] = IF e = c THEN "addTasks" ELSE cmd[e]
    BY Moved DEF ReopenTable
<1>2. /\ cmd[c] = "reopen" /\ cmdDev[c] \in devFdMap /\ cmdDev[c] \in Devs
      /\ mV4l2Buf' = TableOf(cmdDev[c])
      /\ mFdV4l2BufMap' = Emplaced(cmdDev[c], None)
      /\ UNCHANGED <<mFd, devFdMap, opened, cmdDev, initFailed, overlap, proc>>
    BY DEF ReopenTable, DeviceInv
<1>3. ASSUME Orderly
      PROVE  /\ OrderInv' /\ ReopenInv'
             /\ mV4l2Buf' = cmdDev[c]
    <2>1. OrderInv /\ ReopenInv
        BY <1>3 DEF DeviceInv
    <2>2. mV4l2Buf' = cmdDev[c] /\ mFdV4l2BufMap' = mFdV4l2BufMap
        BY <1>2, <2>1, OrderedTables
    <2>3. \A e \in Clients : cmd[e] \in {"idle", "addTasks", "reopen"}
        BY <1>2, <2>1 DEF OrderInv, Opening, InInit
    <2>4. \A e \in Clients : cmd'[e] \in {"idle", "addTasks", "reopen"}
        BY <1>1, <2>3
    <2>5. OrderInv'
        BY <1>2, <2>1, <2>2, <2>3, <2>4 DEF OrderInv, Opening, InInit
    <2>6. ReopenInv'
        BY <1>1, <1>2, <2>1 DEF ReopenInv, InInit
    <2> QED BY <2>2, <2>5, <2>6
<1>4. Orderly' => Orderly
    BY <1>2 DEF Orderly
<1>5. TableMatchesFd'
    <2>1. SUFFICES ASSUME ~initFailed, overlap = "none", mFd # None
                   PROVE  mV4l2Buf' = mFd
        BY <1>2 DEF TableMatchesFd
    <2>2. Orderly
        BY <2>1 DEF Orderly
    <2>3. mFd = cmdDev[c]
        BY <1>2, <2>1, <2>2 DEF DeviceInv, ReopenInv
    <2> QED BY <1>3, <2>2, <2>3
<1>6. KillNeeds'
    BY <1>2 DEF KillNeeds, DeviceInv
<1>7. \A e \in Clients : /\ cmd'[e] # "idle" => cmdDev'[e] \in Devs
                         /\ cmd'[e] = "reopen" => cmdDev'[e] \in devFdMap'
    BY <1>1, <1>2 DEF DeviceInv
<1> QED BY <1>3, <1>4, <1>5, <1>6, <1>7 DEF DeviceInv

\* The steps in which the init of a new device goes on: in order it is alone.
LEMMA OpeningStep ==
    ASSUME TypeOK, DeviceInv, NEW c \in Clients, NEW to, Go(c, to),
           Opening(c), Opening(c)' \/ to \in {"addTasks", "idle"},
           UNCHANGED <<cmdDev, initFailed, proc>>,
           overlap = "new" => overlap' = "new",
           devFdMap \subseteq devFdMap',
           ASSUME OrderInv
           PROVE  /\ to \in {"mmap", "select", "emplaceFd", "emplaceTable"}
                        => mV4l2Buf' = cmdDev[c]
                  /\ to \in {"kill", "open", "reqbufs"} => cmdDev[c] \notin devFdMap'
                  /\ \A d \in DOMAIN mFdV4l2BufMap' : mFdV4l2BufMap'[d] = d
                  /\ \A d \in devFdMap' :
                        d \in DOMAIN mFdV4l2BufMap' \/ (to = "emplaceTable" /\ cmdDev[c] = d)
                  /\ \A d \in opened' :
                        \/ d \in devFdMap'
                        \/ to \in {"reqbufs", "mmap", "select", "emplaceFd"} /\ cmdDev[c] = d,
           TableMatchesFd'
    PROVE  DeviceInv'
<1>1. \A e \in Clients : cmd'[e] = IF e = c THEN to ELSE cmd[e]
    BY Moved
<1>2. cmd[c] # "idle" /\ to # "reopen"
    BY <1>1 DEF Opening, InInit
<1>3. \A e \in Clients : /\ cmd'[e] # "idle" => cmdDev'[e] \in Devs
                         /\ cmd'[e] = "reopen" => cmdDev'[e] \in devFdMap'
    BY <1>1, <1>2 DEF DeviceInv
<1>4. ASSUME Orderly'
      PROVE  OrderInv' /\ ReopenInv'
    <2>1. OrderInv
        BY <1>4 DEF Orderly, DeviceInv
    <2>2. \A e \in Clients : e # c => cmd[e] \in {"idle", "addTasks"}
        BY <2>1 DEF OrderInv, Opening, InInit
    <2>3. \A e \in Clients : e # c => cmd'[e] \in {"idle", "addTasks"}
        BY <1>1, <2>2
    <2>4. cmd'[c] = to
        BY <1>1
    <2>5. \A e, x \in Clients : Opening(e)' /\ InInit(x)' => e = x
        BY <2>3 DEF Opening, InInit
    <2>6. OrderInv'
        BY <2>1, <2>3, <2>4, <2>5 DEF OrderInv
    <2>7. ReopenInv'
        BY <1>2, <2>3, <2>4 DEF ReopenInv
    <2> QED BY <2>6, <2>7
<1>5. KillNeeds'
    BY DEF KillNeeds, DeviceInv
<1> QED BY <1>3, <1>4, <1>5 DEF DeviceInv

LEMMA NewDeviceStep ==
    ASSUME TypeOK, DeviceInv, NEW c \in Clients,
           \/ OpenDevice(c) \/ RequestBuffers(c) \/ MapAndStream(c) \/ SelectNew(c)
           \/ EmplaceFd(c) \/ EmplaceTable(c)
    PROVE  DeviceInv'
<1>1. ASSUME UNCHANGED <<mFd, mV4l2Buf, initFailed, overlap>>, NEW to, Go(c, to),
             InAssignment(c) => to \in {"reopen", "mmap", "select"}
      PROVE  TableMatchesFd'
    <2>1. \A e \in Clients : InAssignment(e) => InAssignment(e)'
        BY <1>1, Moved DEF InAssignment
    <2> QED BY <1>1, <2>1 DEF TableMatchesFd, DeviceInv
<1>2. CASE OpenDevice(c)
    <2>1. Go(c, "reqbufs") /\ cmd[c] = "open" /\ cmd'[c] = "reqbufs"
        BY <1>2, Moved DEF OpenDevice
    <2>2. /\ UNCHANGED <<mFd, mV4l2Buf, devFdMap, mFdV4l2BufMap, cmdDev, initFailed, overlap, proc>>
          /\ opened' = opened \cup {cmdDev[c]}
        BY <1>2 DEF OpenDevice
    <2>3. Opening(c) /\ Opening(c)'
        BY <2>1 DEF Opening, InInit
    <2>4. TableMatchesFd'
        BY <1>1, <2>1, <2>2 DEF InAssignment
    <2>5. ASSUME OrderInv
          PROVE  /\ cmdDev[c] \notin devFdMap'
                 /\ \A d \in DOMAIN mFdV4l2BufMap' : mFdV4l2BufMap'[d] = d
                 /\ \A d \in devFdMap' : d \in DOMAIN mFdV4l2BufMap'
                 /\ \A d \in opened' : d \in devFdMap' \/ cmdDev[c] = d
        BY <2>1, <2>2, <2>5 DEF OrderInv, Opening, InInit
    <2> QED BY <2>1, <2>2, <2>3, <2>4, <2>5, OpeningStep
<1>3. CASE RequestBuffers(c)
    <2>1. Go(c, "mmap") /\ cmd[c] = "reqbufs" /\ cmd'[c] = "mmap"
        BY <1>3, Moved DEF RequestBuffers
    <2>2. /\ UNCHANGED <<mFd, devFdMap, mFdV4l2BufMap, opened, cmdDev, initFailed, overlap, proc>>
          /\ mV4l2Buf' = cmdDev[c]
        BY <1>3 DEF RequestBuffers
    <2>3. Opening(c) /\ Opening(c)'
        BY <2>1 DEF Opening, InInit
    <2>4. TableMatchesFd'
        BY <2>1 DEF TableMatchesFd, InAssignment
    <2>5. ASSUME OrderInv
          PROVE  /\ \A d \in DOMAIN mFdV4l2BufMap' : mFdV4l2BufMap'[d] = d
                 /\ \A d \in devFdMap' : d \in DOMAIN mFdV4l2BufMap'
                 /\ \A d \in opened' : d \in devFdMap' \/ cmdDev[c] = d
        BY <2>1, <2>2, <2>5 DEF OrderInv, Opening, InInit
    <2> QED BY <2>1, <2>2, <2>3, <2>4, <2>5, OpeningStep
<1>4. CASE MapAndStream(c)
    <2>1. Go(c, "select") /\ cmd[c] = "mmap" /\ cmd'[c] = "select"
        BY <1>4, Moved DEF MapAndStream
    <2>2. UNCHANGED <<mFd, mV4l2Buf, devFdMap, mFdV4l2BufMap, opened, cmdDev, initFailed,
                      overlap, proc>>
        BY <1>4 DEF MapAndStream
    <2>3. Opening(c) /\ Opening(c)'
        BY <2>1 DEF Opening, InInit
    <2>4. TableMatchesFd'
        BY <1>1, <2>1, <2>2
    <2>5. ASSUME OrderInv
          PROVE  /\ mV4l2Buf' = cmdDev[c]
                 /\ \A d \in DOMAIN mFdV4l2BufMap' : mFdV4l2BufMap'[d] = d
                 /\ \A d \in devFdMap' : d \in DOMAIN mFdV4l2BufMap'
                 /\ \A d \in opened' : d \in devFdMap' \/ cmdDev[c] = d
        BY <2>1, <2>2, <2>5 DEF OrderInv, Opening, InInit
    <2> QED BY <2>1, <2>2, <2>3, <2>4, <2>5, OpeningStep
<1>5. CASE SelectNew(c)
    <2>1. Go(c, "emplaceFd") /\ cmd[c] = "select" /\ cmd'[c] = "emplaceFd"
        BY <1>5, Moved DEF SelectNew
    <2>2. /\ UNCHANGED <<mV4l2Buf, devFdMap, mFdV4l2BufMap, opened, cmdDev, initFailed, proc>>
          /\ mFd' = cmdDev[c]
          /\ overlap' = IF overlap = "new" THEN "new" ELSE "none"
        BY <1>5 DEF SelectNew, Select
    <2>3. Opening(c) /\ Opening(c)'
        BY <2>1 DEF Opening, InInit
    <2>4. ASSUME OrderInv
          PROVE  /\ mV4l2Buf' = cmdDev[c]
                 /\ \A d \in DOMAIN mFdV4l2BufMap' : mFdV4l2BufMap'[d] = d
                 /\ \A d \in devFdMap' : d \in DOMAIN mFdV4l2BufMap'
                 /\ \A d \in opened' : d \in devFdMap' \/ cmdDev[c] = d
        BY <2>1, <2>2, <2>4 DEF OrderInv, Opening, InInit
    <2>5. TableMatchesFd'
        <3>1. ~initFailed' /\ overlap' = "none" => OrderInv
            BY <2>2 DEF DeviceInv, Orderly
        <3> QED BY <2>2, <2>4, <3>1 DEF TableMatchesFd
    <2> QED BY <2>1, <2>2, <2>3, <2>4, <2>5, OpeningStep
<1>6. CASE EmplaceFd(c)
    <2>1. Go(c, "emplaceTable") /\ cmd[c] = "emplaceFd" /\ cmd'[c] = "emplaceTable"
        BY <1>6, Moved DEF EmplaceFd
    <2>2. /\ UNCHANGED <<mFd, mV4l2Buf, mFdV4l2BufMap, opened, cmdDev, initFailed, overlap, proc>>
          /\ devFdMap' = devFdMap \cup {cmdDev[c]}
        BY <1>6 DEF EmplaceFd
    <2>3. Opening(c) /\ Opening(c)'
        BY <2>1 DEF Opening, InInit
    <2>4. TableMatchesFd'
        BY <1>1, <2>1, <2>2 DEF InAssignment
    <2>5. ASSUME OrderInv
          PROVE  /\ mV4l2Buf' = cmdDev[c]
                 /\ \A d \in DOMAIN mFdV4l2BufMap' : mFdV4l2BufMap'[d] = d
                 /\ \A d \in devFdMap' : d \in DOMAIN mFdV4l2BufMap' \/ cmdDev[c] = d
                 /\ \A d \in opened' : d \in devFdMap'
        BY <2>1, <2>2, <2>5 DEF OrderInv, Opening, InInit
    <2> QED BY <2>1, <2>2, <2>3, <2>4, <2>5, OpeningStep
<1>7. CASE EmplaceTable(c)
    <2>1. Go(c, "addTasks") /\ cmd[c] = "emplaceTable" /\ cmd'[c] = "addTasks"
        BY <1>7, Moved DEF EmplaceTable
    <2>2. /\ UNCHANGED <<mFd, mV4l2Buf, devFdMap, opened, cmdDev, initFailed, overlap, proc>>
          /\ mFdV4l2BufMap' = Emplaced(cmdDev[c], mV4l2Buf)
        BY <1>7 DEF EmplaceTable
    <2>3. Opening(c)
        BY <2>1 DEF Opening, InInit
    <2>4. TableMatchesFd'
        BY <1>1, <2>1, <2>2 DEF InAssignment
    <2>5. ASSUME OrderInv
          PROVE  /\ \A d \in DOMAIN mFdV4l2BufMap' : mFdV4l2BufMap'[d] = d
                 /\ \A d \in devFdMap' : d \in DOMAIN mFdV4l2BufMap'
                 /\ \A d \in opened' : d \in devFdMap'
        <3>1. mV4l2Buf = cmdDev[c] /\ \A d \in DOMAIN mFdV4l2BufMap : mFdV4l2BufMap[d] = d
            BY <2>1, <2>5 DEF OrderInv
        <3>2. DOMAIN mFdV4l2BufMap' = DOMAIN mFdV4l2BufMap \cup {cmdDev[c]}
            BY <2>2 DEF Emplaced
        <3>3. \A d \in DOMAIN mFdV4l2BufMap' : mFdV4l2BufMap'[d] = d
            BY <2>2, <3>1 DEF Emplaced
        <3>4. \A e \in Clients : cmd[e] \in {"emplaceTable", "reqbufs", "mmap", "select",
                                             "emplaceFd"} => e = c
            BY <2>1, <2>5 DEF OrderInv, Opening, InInit
        <3> QED BY <2>1, <2>2, <2>5, <3>2, <3>3, <3>4 DEF OrderInv
    <2> QED BY <2>1, <2>2, <2>3, <2>4, <2>5, OpeningStep
<1> QED BY <1>2, <1>3, <1>4, <1>5, <1>6, <1>7

LEMMA KillStep ==
    ASSUME TypeOK, DeviceInv, NEW c \in Clients, KillUsers(c)
    PROVE  DeviceInv' /\ (Orderly => proc' = "up")
<1>0. /\ UNCHANGED <<mFd, mV4l2Buf, devFdMap, mFdV4l2BufMap, opened, cmdDev, initFailed, overlap>>
      /\ cmd[c] = "kill" /\ Opening(c) /\ proc = "up"
    BY DEF KillUsers, deviceVars, Opening, InInit, Up
<1>1. Orderly => cmdDev[c] \notin opened
    BY <1>0 DEF DeviceInv, OrderInv, Opening, InInit
<1>2. CASE cmdDev[c] \in opened
    <2>1. cmd' = cmd /\ proc' = "killed" /\ ~Orderly
        BY <1>1, <1>2 DEF KillUsers
    <2>2. KillNeeds' /\ ~Orderly'
        BY <1>0, <2>1 DEF KillNeeds, Orderly, TypeOK, CmdTypes
    <2>3. TableMatchesFd'
        BY <1>0, <2>1 DEF TableMatchesFd, InAssignment, DeviceInv
    <2> QED BY <1>0, <2>1, <2>2, <2>3 DEF DeviceInv
<1>3. CASE cmdDev[c] \notin opened
    <2>1. Go(c, "open") /\ proc' = proc /\ cmd'[c] = "open"
        BY <1>3, Moved DEF KillUsers
    <2>2. Opening(c)'
        BY <2>1 DEF Opening, InInit
    <2>3. TableMatchesFd'
        <3>1. \A e \in Clients : InAssignment(e) => InAssignment(e)'
            BY <1>0, <2>1, Moved DEF InAssignment
        <3> QED BY <1>0, <3>1 DEF TableMatchesFd, DeviceInv
    <2>4. ASSUME OrderInv
          PROVE  /\ cmdDev[c] \notin devFdMap'
                 /\ \A d \in DOMAIN mFdV4l2BufMap' : mFdV4l2BufMap'[d] = d
                 /\ \A d \in devFdMap' : d \in DOMAIN mFdV4l2BufMap'
                 /\ \A d \in opened' : d \in devFdMap'
        BY <1>0, <2>4 DEF OrderInv, Opening, InInit
    <2>5. DeviceInv'
        BY <1>0, <2>1, <2>2, <2>3, <2>4, OpeningStep
    <2> QED BY <1>0, <2>1, <2>5
<1> QED BY <1>2, <1>3

LEMMA DeviceInvStep == TypeOK /\ DeviceInv /\ [Next]_vars => DeviceInv'
<1> SUFFICES ASSUME TypeOK, DeviceInv, [Next]_vars
             PROVE  DeviceInv'
    OBVIOUS
<1>1. ASSUME NEW c \in Clients, InitFails(c)
      PROVE  DeviceInv'
    <2>1. \A e \in Clients : cmd'[e] = IF e = c THEN "idle" ELSE cmd[e]
        BY <1>1, Moved DEF InitFails
    <2>2. initFailed' = TRUE /\ UNCHANGED <<devFdMap, cmdDev>>
        BY <1>1 DEF InitFails
    <2>3. TableMatchesFd' /\ KillNeeds' /\ ~Orderly'
        BY <2>2 DEF TableMatchesFd, KillNeeds, Orderly
    <2> QED BY <2>1, <2>2, <2>3 DEF DeviceInv
<1>2. ASSUME NEW c \in Clients, InitAddTask(c)
      PROVE  DeviceInv'
    <2> DEFINE to == IF toAdd[c] = 1 THEN "idle" ELSE "addTasks"
    <2>1. /\ Go(c, to) /\ cmd[c] = "addTasks" /\ proc = "up" /\ proc' = proc
          /\ UNCHANGED <<deviceVars, cmdDev, initFailed, overlap>>
        BY <1>2 DEF InitAddTask, Up
    <2>2. to \in {"idle", "addTasks"}
        OBVIOUS
    <2> HIDE DEF to
    <2>3. \A e \in Clients : cmd'[e] = IF e = c THEN to ELSE cmd[e]
        BY <2>1, Moved
    <2>4. \A e \in Clients :
             /\ Opening(e)' <=> Opening(e)
             /\ InInit(e)' <=> InInit(e)
             /\ \A p \in {"reopen", "kill", "open", "reqbufs", "mmap", "select", "emplaceFd",
                          "emplaceTable"} : cmd'[e] = p <=> cmd[e] = p
        BY <2>1, <2>2, <2>3 DEF Opening, InInit
    <2>5. UNCHANGED <<mFd, mV4l2Buf, devFdMap, mFdV4l2BufMap, opened, mapped>>
        BY <2>1 DEF deviceVars
    <2>6. Orderly' => OrderInv' /\ ReopenInv'
        <3>1. Orderly' => OrderInv /\ ReopenInv
            BY <2>1 DEF Orderly, DeviceInv
        <3>2. OrderInv => OrderInv'
            BY <2>1, <2>4, <2>5 DEF OrderInv
        <3>3. ReopenInv => ReopenInv'
            BY <2>1, <2>4, <2>5 DEF ReopenInv
        <3> QED BY <3>1, <3>2, <3>3
    <2>7. TableMatchesFd'
        BY <2>1, <2>4, <2>5 DEF TableMatchesFd, InAssignment, DeviceInv
    <2>8. KillNeeds'
        BY <2>1 DEF KillNeeds
    <2>9. \A e \in Clients : /\ cmd'[e] # "idle" => cmdDev'[e] \in Devs
                             /\ cmd'[e] = "reopen" => cmdDev'[e] \in devFdMap'
        BY <2>1, <2>2, <2>3, <2>5 DEF DeviceInv
    <2> QED BY <2>6, <2>7, <2>8, <2>9 DEF DeviceInv
<1>3. ASSUME UNCHANGED <<mV4l2Buf, devFdMap, mFdV4l2BufMap, opened, cmd, cmdDev, initFailed>>,
             mFd' = mFd \/ mFd' = None, overlap' = overlap \/ overlap' = "new",
             proc' = proc \/ proc' = "crashed"
      PROVE  DeviceInv'
    <2>1. Orderly' => OrderInv' /\ ReopenInv'
        <3>1. Orderly' => OrderInv /\ ReopenInv
            BY <1>3 DEF Orderly, DeviceInv
        <3>2. OrderInv => OrderInv'
            BY <1>3 DEF OrderInv, Opening, InInit
        <3>3. Orderly' /\ ReopenInv => ReopenInv'
            BY <1>3 DEF ReopenInv, InInit, Orderly
        <3> QED BY <3>1, <3>2, <3>3
    <2>2. TableMatchesFd'
        BY <1>3 DEF TableMatchesFd, InAssignment, DeviceInv
    <2>3. KillNeeds'
        BY <1>3 DEF KillNeeds, DeviceInv
    <2> QED BY <1>3, <2>1, <2>2, <2>3 DEF DeviceInv
<1>4. ASSUME NEW c \in Clients, InitCrash(c)
      PROVE  DeviceInv'
    BY <1>3, <1>4 DEF InitCrash, deviceVars
<1>5. ASSUME NEW c \in Clients, Stop(c)
      PROVE  DeviceInv'
    BY <1>3, <1>5 DEF Stop, cmdVars
<1>6. ASSUME UNCHANGED <<deviceVars, cmdVars>>, proc' = proc \/ proc' = "crashed"
      PROVE  DeviceInv'
    BY <1>3, <1>6 DEF deviceVars, cmdVars
<1>7. /\ \A r \in Readers : Read(r) => proc' = proc \/ proc' = "crashed"
      /\ UNCHANGED vars => UNCHANGED <<deviceVars, cmdVars, proc>>
    BY DEF Read, ReadGoesOn, TakeTask, ReadReturn, ReadLock, PollReady, ReadFails,
           DequeueAndEncode, RequeueAndPush, ReadCrash, vars
<1> QED BY <1>1, <1>2, <1>4, <1>5, <1>6, <1>7, ThreadFrame, ShowKnownStep, ShowNewStep, ReopenStep,
           NewDeviceStep, KillStep DEF Next, Command, InitGoesOn
------------------------------------------------------------------------------
LEMMA InitIInv == Init => IInv
<1> SUFFICES ASSUME Init
             PROVE  IInv
    OBVIOUS
<1> USE PipelineAssumption DEF Init
<1> DEFINE q == [k \in Frames |-> k]
<1>1. q \in Seq(Frames) /\ DOMAIN q = Frames /\ Range(q) = Frames /\ IsInjective(q)
    <2>1. q \in [1..DEFAULT_FRAME_NUM -> Frames]
        BY DEF Frames
    <2> QED BY <2>1, SeqDef DEF Frames, Range, IsInjective
<1>2. Range(<<>>) = {} /\ IsInjective(<<>>) /\ <<>> \in Seq(Frames)
    BY EmptySeq DEF Range, IsInjective
<1>3. TypeOK
    <2>1. QueueTypes
        BY <1>1, <1>2 DEF QueueTypes
    <2>2. ReadTypes
        BY DEF ReadTypes
    <2>3. DeviceTypes
        BY DEF DeviceTypes
    <2>4. CmdTypes
        <3>1. 0 \in 0..DEFAULT_FRAME_NUM /\ 0 \in 0..MaxShows
            OBVIOUS
        <3> QED BY <3>1 DEF CmdTypes
    <2> QED BY <2>1, <2>2, <2>3, <2>4 DEF TypeOK
<1>4. FrameOwnership
    BY <1>1, <1>2 DEF FrameOwnership, ToFill, ToSend, NoFrame, Frames
<1>5. OneReader
    BY DEF OneReader, InReader
<1>6. OrderInv /\ ReopenInv
    BY DEF OrderInv, ReopenInv, Opening, InInit
<1>7. DeviceInv /\ TasksCoverFrames
    BY <1>6 DEF DeviceInv, TasksCoverFrames, TableMatchesFd, KillNeeds
<1> QED BY <1>3, <1>4, <1>5, <1>7 DEF IInv

LEMMA NextIInv == IInv /\ [Next]_vars => IInv'
BY TypeStep, FrameOwnershipStep, OneReaderStep, DeviceInvStep, TasksStep DEF IInv

LEMMA AlwaysIInv == Spec => []IInv
BY InitIInv, NextIInv, PTL DEF Spec

\* Every variable stays in its type: no task, size or queue leaves its range.
THEOREM PipelineTypes == Spec => []TypeOK
<1>1. IInv => TypeOK
    BY DEF IInv
<1> QED BY <1>1, AlwaysIInv, PTL

\* No frame is lost or duplicated between readFrame, timeoutCallback and putFrame.
THEOREM FramesAreOwnedOnce == Spec => []FrameOwnership
<1>1. IInv => FrameOwnership
    BY DEF IInv
<1> QED BY <1>1, AlwaysIInv, PTL

\* mMutex admits one reader, and the front of its queue is there until it pops it.
THEOREM ReadersExclude == Spec => []OneReader
<1>1. IInv => OneReader
    BY DEF IInv
<1> QED BY <1>1, AlwaysIInv, PTL

\* A selected device runs out of tasks only through reads that failed (129-145).
THEOREM TasksSuffice == Spec => []TasksCoverFrames
<1>1. IInv => TasksCoverFrames
    BY DEF IInv
<1> QED BY <1>1, AlwaysIInv, PTL

\* Without a failed init, the table in use is that of the device that is read, and
\* when inits of known devices overlap, the next one that is alone repairs it (40-41).
THEOREM TablesMatch == Spec => []TableMatchesFd
<1>1. IInv => TableMatchesFd
    BY DEF IInv, DeviceInv
<1> QED BY <1>1, AlwaysIInv, PTL

\* killProcessUsingDevice never hits this process before some init has failed or
\* the init of a new device has overlapped with another.
THEOREM NoSuicide == Spec => []KillNeeds
<1>1. IInv => KillNeeds
    BY DEF IInv, DeviceInv
<1> QED BY <1>1, AlwaysIInv, PTL
------------------------------------------------------------------------------
\* A device is shown only when none is selected, and no init fails.

Calm == StopFirst /\ "init" \notin Faults

CalmInv ==
    overlap # "new" =>
        /\ proc = "up"
        /\ ~initFailed
        /\ InReader # {} => mFd # None
        /\ mFd # None => \A c \in Clients :
              cmd[c] \in {"idle", "reopen", "emplaceFd", "emplaceTable", "addTasks"}
        /\ mFd # None \/ devFdMap # {} =>
              mV4l2Buf \in mapped \/ \E c \in Clients : cmd[c] \in {"mmap", "select"}
        /\ devFdMap \subseteq mapped
        /\ \A c \in Clients :
              cmd[c] \in {"select", "emplaceFd", "emplaceTable"} => cmdDev[c] \in mapped

LEMMA CalmReaders ==
    ASSUME IInv, CalmInv, overlap # "new", NEW r \in Readers, reader[r] \in {"dqbuf", "qbuf"}
    PROVE  mV4l2Buf \in mapped /\ mV4l2Buf # None
<1>1. mFd # None
    BY DEF CalmInv, InReader
<1>2. mV4l2Buf \in mapped /\ mapped \subseteq Devs
    BY <1>1 DEF CalmInv, IInv, TypeOK, DeviceTypes
<1> QED BY <1>2, PipelineAssumption

LEMMA CalmRead ==
    ASSUME IInv, CalmInv, overlap # "new", NEW r \in Readers, Read(r)
    PROVE  CalmInv'
<1> USE DEF CalmInv
<1>1. ~ReadCrash(r)
    BY CalmReaders DEF ReadCrash, TableMapped
<1>2. UNCHANGED <<deviceVars, cmdVars, proc>>
    BY <1>1 DEF Read, ReadGoesOn, TakeTask, ReadReturn, ReadLock, PollReady, ReadFails,
                DequeueAndEncode, RequeueAndPush
<1>3. InReader' # {} => mFd # None
    <2>0. reader \in [Readers -> {"idle", "ready", "poll", "dqbuf", "qbuf"}]
        BY DEF IInv, TypeOK, ReadTypes
    <2>1. CASE ReadLock(r)
        BY <2>1 DEF ReadLock, NothingToRead
    <2>2. CASE ~ReadLock(r)
        <3>1. InReader' \subseteq InReader
            BY <1>1, <2>0, <2>2
               DEF Read, ReadGoesOn, TakeTask, ReadReturn, PollReady, ReadFails,
                   DequeueAndEncode, RequeueAndPush, Move, InReader
        <3> QED BY <3>1
    <2> QED BY <2>1, <2>2
<1> QED BY <1>2, <1>3 DEF deviceVars, cmdVars

\* The init of a new device is alone, and no device is selected until it has
\* mapped its table.
LEMMA CalmOpening ==
    ASSUME Calm, IInv, CalmInv, overlap # "new", NEW c \in Clients,
           \/ OpenDevice(c) \/ RequestBuffers(c) \/ MapAndStream(c) \/ SelectNew(c)
           \/ EmplaceFd(c) \/ EmplaceTable(c)
    PROVE  CalmInv'
<1>0. /\ TypeOK /\ OrderInv /\ cmdDev[c] \in Devs /\ cmdDev[c] # None
      /\ ~initFailed
    BY PipelineAssumption DEF CalmInv, IInv, DeviceInv, Orderly, OpenDevice, RequestBuffers,
                              MapAndStream, SelectNew, EmplaceFd, EmplaceTable
<1>1. Opening(c)
    BY DEF Opening, InInit, OpenDevice, RequestBuffers, MapAndStream, SelectNew, EmplaceFd,
           EmplaceTable
<1>2. \A e \in Clients : e # c => cmd[e] \in {"idle", "addTasks"}
    BY <1>0, <1>1 DEF OrderInv, Opening, InInit
<1>3. ASSUME NEW to, Go(c, to)
      PROVE  cmd'[c] = to /\ \A e \in Clients : e # c => cmd'[e] \in {"idle", "addTasks"}
    BY <1>0, <1>2, <1>3, Moved
<1>4. InReader' = InReader /\ UNCHANGED <<proc, initFailed, cmdDev>>
    BY DEF OpenDevice, RequestBuffers, MapAndStream, SelectNew, EmplaceFd, EmplaceTable, readVars,
           InReader
<1>5. CASE OpenDevice(c)
    BY <1>0, <1>2, <1>3, <1>4, <1>5 DEF OpenDevice, CalmInv
<1>6. CASE RequestBuffers(c)
    <2>1. mFd = None /\ cmdDev[c] \notin devFdMap
        BY <1>0, <1>6 DEF RequestBuffers, CalmInv, OrderInv
    <2> QED BY <1>0, <1>2, <1>3, <1>4, <1>6, <2>1 DEF RequestBuffers, CalmInv
<1>7. CASE MapAndStream(c)
    <2>1. mV4l2Buf = cmdDev[c] /\ mapped' = mapped \cup {cmdDev[c]}
        BY <1>0, <1>7 DEF MapAndStream, TablesAtHand, OrderInv
    <2> QED BY <1>0, <1>2, <1>3, <1>4, <1>7, <2>1 DEF MapAndStream, CalmInv
<1>8. CASE SelectNew(c)
    <2>1. mV4l2Buf = cmdDev[c] /\ cmdDev[c] \in mapped
        BY <1>0, <1>8 DEF SelectNew, OrderInv, CalmInv
    <2> QED BY <1>0, <1>2, <1>3, <1>4, <1>8, <2>1 DEF SelectNew, Select, CalmInv
<1>9. CASE EmplaceFd(c)
    <2>1. mV4l2Buf = cmdDev[c] /\ cmdDev[c] \in mapped
        BY <1>0, <1>9 DEF EmplaceFd, OrderInv, CalmInv
    <2> QED BY <1>0, <1>2, <1>3, <1>4, <1>9, <2>1 DEF EmplaceFd, CalmInv
<1>10. CASE EmplaceTable(c)
    <2>1. mV4l2Buf = cmdDev[c] /\ cmdDev[c] \in mapped
        BY <1>0, <1>10 DEF EmplaceTable, OrderInv, CalmInv
    <2> QED BY <1>0, <1>2, <1>3, <1>4, <1>10, <2>1 DEF EmplaceTable, CalmInv
<1> QED BY <1>5, <1>6, <1>7, <1>8, <1>9, <1>10

LEMMA CalmStep ==
    ASSUME Calm, IInv, CalmInv, [Next]_vars
    PROVE  CalmInv'
<1> SUFFICES ASSUME overlap' # "new"
             PROVE  CalmInv'
    BY DEF CalmInv
<1>0. overlap # "new"
    BY DEF Next, Read, ReadGoesOn, Command, InitGoesOn, TakeTask, ReadReturn, ReadLock, PollReady,
           ReadFails, DequeueAndEncode, RequeueAndPush, ReadCrash, SinkGet, SinkPut, ShowKnown,
           ShowNew, ReopenTable, KillUsers, OpenDevice, RequestBuffers, MapAndStream, InitFails,
           SelectNew, EmplaceFd, EmplaceTable, InitAddTask, InitCrash, Stop, vars, cmdVars
<1>1. TypeOK /\ DeviceInv /\ Orderly /\ OrderInv
    BY <1>0 DEF CalmInv, IInv, DeviceInv, Orderly
<1>2. ASSUME UNCHANGED <<deviceVars, cmdVars, proc, reader>>
      PROVE  CalmInv'
    BY <1>2 DEF deviceVars, cmdVars, InReader, CalmInv
<1>3. SinkGet \/ SinkPut \/ UNCHANGED vars => UNCHANGED <<deviceVars, cmdVars, proc, reader>>
    BY DEF SinkGet, SinkPut, vars, readVars
<1>4. ASSUME NEW c \in Clients, NEW d \in Devs, ShowKnown(c, d)
      PROVE  CalmInv'
    <2>1. \A e \in Clients : cmd'[e] = IF e = c THEN "reopen" ELSE cmd[e]
        BY <1>1, <1>4, Moved DEF ShowKnown
    <2>2. \A e \in Clients \ {c} : ~(InInit(e) /\ Opening(e))
        BY <1>4 DEF ShowKnown, Others
    <2>3. \A e \in Clients : cmd[e] \in {"idle", "addTasks", "reopen"}
        BY <1>4, <2>2 DEF ShowKnown, MayShow, Opening, InInit
    <2>4. \A e \in Clients : cmd'[e] \in {"idle", "addTasks", "reopen"}
        BY <2>1, <2>3
    <2>5. /\ UNCHANGED <<mV4l2Buf, devFdMap, mapped, proc, initFailed, reader>>
          /\ d \in devFdMap /\ mFd' = d /\ d # None
        BY <1>4, PipelineAssumption DEF ShowKnown, Select
    <2> QED BY <1>0, <2>3, <2>4, <2>5 DEF CalmInv, InReader
<1>5. ASSUME NEW c \in Clients, NEW d \in Devs, ShowNew(c, d)
      PROVE  CalmInv'
    <2>1. \A e \in Clients : cmd'[e] = IF e = c THEN "kill" ELSE cmd[e]
        BY <1>1, <1>5, Moved DEF ShowNew
    <2>2. \A e \in Clients : cmd[e] \in {"idle", "addTasks"}
        BY <1>5 DEF ShowNew, MayShow, Others, InInit
    <2>3. /\ UNCHANGED <<mFd, mV4l2Buf, devFdMap, mapped, proc, initFailed, reader>>
          /\ mFd = None
        BY <1>5 DEF ShowNew, MayShow, Calm, deviceVars, readVars
    <2> QED BY <1>0, <2>1, <2>2, <2>3 DEF CalmInv, InReader
<1>6. ASSUME NEW c \in Clients, ReopenTable(c)
      PROVE  CalmInv'
    <2>1. \A e \in Clients : cmd'[e] = IF e = c THEN "addTasks" ELSE cmd[e]
        BY <1>1, <1>6, Moved DEF ReopenTable
    <2>2. cmd[c] = "reopen" /\ cmdDev[c] \in devFdMap
        BY <1>1, <1>6 DEF ReopenTable, DeviceInv
    <2>3. mV4l2Buf' = cmdDev[c]
        BY <1>1, <1>6, <2>2, OrderedTables DEF ReopenTable
    <2>4. UNCHANGED <<mFd, devFdMap, mapped, cmdDev, proc, initFailed, reader>>
        BY <1>6 DEF ReopenTable, readVars
    <2> QED BY <1>0, <2>1, <2>2, <2>3, <2>4 DEF CalmInv, InReader
<1>7. ASSUME NEW c \in Clients, KillUsers(c)
      PROVE  CalmInv'
    <2>1. proc' = "up"
        BY <1>1, <1>7, KillStep
    <2>2. \A e \in Clients : cmd'[e] = IF e = c THEN "open" ELSE cmd[e]
        BY <1>1, <1>7, <2>1, Moved DEF KillUsers
    <2>3. UNCHANGED <<mFd, mV4l2Buf, devFdMap, mapped, cmdDev, initFailed, reader>>
        BY <1>7 DEF KillUsers, deviceVars, readVars
    <2>4. cmd[c] = "kill"
        BY <1>7 DEF KillUsers
    <2> QED BY <1>0, <2>1, <2>2, <2>3, <2>4 DEF CalmInv, InReader
<1>8. ASSUME NEW c \in Clients
      PROVE  ~InitFails(c)
    BY <1>0 DEF InitFails, Calm
<1>9. ASSUME NEW c \in Clients
      PROVE  ~InitCrash(c)
    <2>1. cmd[c] = "mmap" => mV4l2Buf # None
        BY <1>1, PipelineAssumption DEF OrderInv, DeviceInv
    <2> QED BY <2>1 DEF InitCrash
<1>10. ASSUME NEW c \in Clients, InitAddTask(c)
       PROVE  CalmInv'
    <2>1. /\ Go(c, IF toAdd[c] = 1 THEN "idle" ELSE "addTasks") /\ cmd[c] = "addTasks"
          /\ UNCHANGED <<mFd, mV4l2Buf, devFdMap, mapped, cmdDev, proc, initFailed, reader>>
        BY <1>10 DEF InitAddTask, deviceVars
    <2>2. \A e \in Clients : cmd'[e] = cmd[e] \/ cmd'[e] \in {"idle", "addTasks"}
        BY <1>1, <2>1, Moved
    <2>3. \A e \in Clients : cmd[e] \in {"mmap", "select"} => cmd'[e] = cmd[e]
        BY <1>1, <2>1, Moved
    <2> QED BY <1>0, <2>1, <2>2, <2>3 DEF CalmInv, InReader
<1>11. ASSUME NEW c \in Clients, Stop(c)
       PROVE  CalmInv'
    <2>1. InReader = {}
        BY <1>11, PipelineAssumption DEF Stop, MutexFree, IInv, OneReader, InReader
    <2>2. InReader' = {}
        BY <1>11, <2>1 DEF Stop, readVars, InReader
    <2>3. mFd' = None /\ UNCHANGED <<mV4l2Buf, devFdMap, mapped, cmd, cmdDev, proc, initFailed>>
        BY <1>11 DEF Stop, cmdVars
    <2> QED BY <1>0, <2>2, <2>3 DEF CalmInv
<1> QED BY <1>0, <1>2, <1>3, <1>4, <1>5, <1>6, <1>7, <1>8, <1>9, <1>10, <1>11, CalmRead, CalmOpening
        DEF Next, Command, InitGoesOn

\* When a device is shown only when none is selected and no init fails, no reader
\* meets a missing table and the process is not killed, unless the init of a new
\* device overlaps with another: the tasks left over from the last device do no harm
\* while init opens the next, and neither do inits of known devices that overlap.
THEOREM NeverCrashesAlone ==
    ASSUME Calm
    PROVE  Spec => []OnlyOverlapsCrash
<1>1. Init => CalmInv
    BY DEF Init, CalmInv, InReader
<1>2. IInv /\ CalmInv /\ [Next]_vars => CalmInv'
    BY CalmStep
<1>3. CalmInv => OnlyOverlapsCrash
    BY DEF CalmInv, OnlyOverlapsCrash
<1> QED BY <1>1, <1>2, <1>3, AlwaysIInv, PTL DEF Spec
------------------------------------------------------------------------------
\* The sizes of a frame.

LEMMA FreshStep ==
    ASSUME "qbuf" \notin Faults, IInv, FreshSizes, [Next]_vars
    PROVE  FreshSizes'
<1> USE DEF FreshSizes, ToFill
<1>0. /\ mFrameInputQueue \in Seq(Frames)
      /\ sizes \in [Frames -> Nat]
      /\ reader \in [Readers -> {"idle", "ready", "poll", "dqbuf", "qbuf"}]
      /\ IsInjective(mFrameInputQueue)
      /\ MaxNalu \in Nat
    BY PipelineAssumption DEF IInv, TypeOK, QueueTypes, ReadTypes, FrameOwnership
<1>1. ASSUME NEW r \in Readers, DequeueAndEncode(r)
      PROVE  FreshSizes'
    <2> DEFINE h == Head(mFrameInputQueue)
    <2>1. mFrameInputQueue # <<>> /\ \A s \in Readers : reader[s] # "qbuf"
        BY <1>1 DEF DequeueAndEncode, IInv, OneReader, InReader
    <2>2. h \in Range(mFrameInputQueue) /\ h \in Frames
        BY <1>0, <2>1, TailFacts
    <2>3. \A f \in Range(mFrameInputQueue) : sizes[f] = 0
        BY <1>0, <2>1, RangeOfSeq
    <2>4. PICK k \in 0..MaxNalu : sizes' = [sizes EXCEPT ![h] = @ + k]
        BY <1>1 DEF DequeueAndEncode
    <2> HIDE DEF h
    <2>5. \A f \in Frames : sizes'[f] = IF f = h THEN k ELSE sizes[f]
        BY <1>0, <2>2, <2>3, <2>4
    <2>6. UNCHANGED mFrameInputQueue /\ reader'[r] = "qbuf"
        BY <1>0, <1>1 DEF DequeueAndEncode, Move
    <2>7. \A f \in Frames : sizes'[f] <= MaxNalu
        BY <1>0, <2>5
    <2>8. \A f \in Range(mFrameInputQueue) : f \in Frames
        BY <1>0, RangeOfSeq
    <2>9. \A f \in Range(mFrameInputQueue)' : sizes'[f] > 0 => f = Head(mFrameInputQueue)'
        BY <2>3, <2>5, <2>6, <2>8 DEF h
    <2> QED BY <2>6, <2>7, <2>9
<1>2. ASSUME NEW r \in Readers, RequeueAndPush(r)
      PROVE  FreshSizes'
    <2>1. mFrameInputQueue # <<>>
        BY <1>2 DEF RequeueAndPush, IInv, OneReader, InReader
    <2>2. Range(Tail(mFrameInputQueue)) = Range(mFrameInputQueue) \ {Head(mFrameInputQueue)}
        BY <1>0, <2>1, TailFacts
    <2>3. mFrameInputQueue' = Tail(mFrameInputQueue) /\ sizes' = sizes
        BY <1>2 DEF RequeueAndPush, PopHead
    <2> QED BY <2>2, <2>3
<1>3. CASE SinkPut
    <2>1. held \in Frames /\ held \notin Range(mFrameInputQueue)
        BY <1>3 DEF SinkPut, IInv, TypeOK, QueueTypes, FrameOwnership
    <2>2. /\ mFrameInputQueue # <<>> =>
                Head(Append(mFrameInputQueue, held)) = Head(mFrameInputQueue)
          /\ Range(Append(mFrameInputQueue, held)) = Range(mFrameInputQueue) \cup {held}
        BY <1>0, <2>1, AppendFacts
    <2>3. mFrameInputQueue = <<>> => Range(mFrameInputQueue) = {}
        BY DEF Range
    <2>4. \A f \in Frames : sizes'[f] = IF f = held THEN 0 ELSE sizes[f]
        BY <1>0, <1>3, <2>1 DEF SinkPut, Cleared
    <2>5. mFrameInputQueue' = Append(mFrameInputQueue, held) /\ UNCHANGED reader
        BY <1>3 DEF SinkPut
    <2>6. Range(mFrameInputQueue) \subseteq Frames
        BY <1>0, RangeOfSeq
    <2>7. \A f \in Frames : sizes'[f] <= MaxNalu
        BY <1>0, <2>4
    <2>8. ASSUME NEW f \in Range(mFrameInputQueue)', sizes'[f] > 0
          PROVE  /\ f = Head(mFrameInputQueue)'
                 /\ \E s \in Readers : reader'[s] = "qbuf"
        <3>1. f \in Range(mFrameInputQueue) /\ sizes[f] > 0
            BY <2>1, <2>2, <2>4, <2>5, <2>6, <2>8
        <3> QED BY <3>1, <2>2, <2>3, <2>5
    <2> QED BY <2>7, <2>8
<1>4. ASSUME NEW r \in Readers,
             TakeTask(r) \/ ReadReturn(r) \/ ReadLock(r) \/ PollReady(r) \/ ReadFails(r)
                 \/ ReadCrash(r)
      PROVE  FreshSizes'
    <2>1. UNCHANGED <<mFrameInputQueue, sizes>>
        BY <1>4 DEF TakeTask, ReadReturn, ReadLock, PollReady, ReadFails, ReadCrash, queueVars
    <2>2. \A s \in Readers : reader[s] = "qbuf" => reader'[s] = "qbuf"
        BY <1>0, <1>4 DEF TakeTask, ReadReturn, ReadLock, PollReady, ReadFails, ReadCrash, Move,
                          readVars
    <2> QED BY <2>1, <2>2
<1>5. CASE UNCHANGED <<mFrameInputQueue, sizes, reader>>
    BY <1>5
<1>6. /\ SinkGet \/ UNCHANGED vars => UNCHANGED <<mFrameInputQueue, sizes, reader>>
      /\ \A c \in Clients : Command(c) => UNCHANGED <<mFrameInputQueue, sizes, reader>>
    BY DEF SinkGet, vars, queueVars, readVars, Command, InitGoesOn, ShowKnown, ShowNew, ReopenTable, KillUsers, OpenDevice, RequestBuffers,
           MapAndStream, InitFails, SelectNew, EmplaceFd, EmplaceTable, InitAddTask, InitCrash, Stop
<1> QED BY <1>1, <1>2, <1>3, <1>4, <1>5, <1>6 DEF Next, Read, ReadGoesOn

\* When no v4l2_qbuf fails, the entries of mSizeArr are those of the frame that is
\* being read, and there are never more than the encoder appends for one frame.
THEOREM SizesAreFresh ==
    ASSUME "qbuf" \notin Faults
    PROVE  Spec => []FreshSizes
<1>1. Init => FreshSizes
    BY PipelineAssumption DEF Init, FreshSizes, ToFill, Range
<1>2. IInv /\ FreshSizes /\ [Next]_vars => FreshSizes'
    BY FreshStep
<1> QED BY <1>1, <1>2, AlwaysIInv, PTL DEF Spec
------------------------------------------------------------------------------
\* Induction and recursion over numbers.

\* A set of numbers has a least one.
LEMMA NatMin == ASSUME NEW T \in SUBSET Nat, T # {} PROVE \E x \in T : \A y \in T : x <= y
<1> DEFINE R == OpToRel(<, Nat)
<1>1. \A x, y \in Nat : <<x, y>> \in R <=> x < y
    BY DEF OpToRel
<1>2. IsWellFoundedOn(R, Nat)
    BY NatLessThanWellFounded
<1> HIDE DEF R
<1>3. PICK x \in T : \A y \in T : ~(<<y, x>> \in R)
    BY <1>2, WFMin
<1>4. \A y \in T : y \in Nat /\ x \in Nat
    OBVIOUS
<1>5. \A y \in T : ~(y < x)
    BY <1>1, <1>3, <1>4
<1> QED
    BY <1>4, <1>5

\* Induction as a fact about sets of numbers.
LEMMA NatSet ==
    ASSUME NEW T, 0 \in T, \A n \in Nat : n \in T => n + 1 \in T
    PROVE  \A n \in Nat : n \in T
<1> DEFINE Out == {n \in Nat : n \notin T}
<1>1. ASSUME Out # {} PROVE FALSE
    <2>1. PICK m \in Out : \A n \in Out : m <= n
        BY <1>1, NatMin
    <2>2. m \in Nat /\ m # 0 /\ m \notin T
        OBVIOUS
    <2>3. m - 1 \in Nat /\ m = (m - 1) + 1 /\ ~(m <= m - 1)
        BY <2>2
    <2>4. m - 1 \in T
        BY <2>1, <2>3
    <2> QED
        BY <2>2, <2>3, <2>4
<1> QED
    BY <1>1

\* f is defined by recursion: from x0, by F of each argument and the value before.
Recursive(f, n, x0, F) == \A k \in 0..n : f[k] = IF k = 0 THEN x0 ELSE F[<<k, f[k - 1]>>]

\* Such a function exists.
LEMMA Recursion ==
    ASSUME NEW D, NEW x0 \in D, NEW F \in [Nat \X D -> D], NEW n \in Nat
    PROVE  \E f \in [0..n -> D] : Recursive(f, n, x0, F)
<1> USE DEF Recursive
<1> DEFINE Upto(m, f) == Recursive(f, m, x0, F)
           T == {m \in Nat : \E f \in [0..m -> D] : Upto(m, f)}
<1>1. 0 \in T
    <2>1. [k \in 0..0 |-> x0] \in [0..0 -> D] /\ Upto(0, [k \in 0..0 |-> x0])
        OBVIOUS
    <2> QED
        BY <2>1
<1>2. ASSUME NEW m \in Nat, m \in T PROVE m + 1 \in T
    <2>1. PICK f \in [0..m -> D] : Upto(m, f)
        BY <1>2
    <2> DEFINE g == [k \in 0..(m + 1) |-> IF k = m + 1 THEN F[<<m + 1, f[m]>>] ELSE f[k]]
    <2>2. f[m] \in D /\ F[<<m + 1, f[m]>>] \in D
        OBVIOUS
    <2>3. g \in [0..(m + 1) -> D]
        BY <2>2
    <2>4. ASSUME NEW k \in 0..(m + 1) PROVE g[k] = IF k = 0 THEN x0 ELSE F[<<k, g[k - 1]>>]
        <3>1. CASE k = m + 1
            <4>1. g[k] = F[<<m + 1, f[m]>>] /\ g[k - 1] = f[m] /\ k # 0
                BY <3>1
            <4> QED
                BY <3>1, <4>1
        <3>2. CASE k # m + 1
            <4>1. /\ k \in 0..m
                  /\ g[k] = f[k]
                  /\ (k # 0 => k - 1 \in 0..(m + 1) /\ g[k - 1] = f[k - 1])
                BY <3>2
            <4> QED
                BY <2>1, <4>1
        <3> QED
            BY <3>1, <3>2
    <2> HIDE DEF g
    <2> QED
        BY <2>3, <2>4
<1> HIDE DEF T
<1>3. n \in T
    BY <1>1, <1>2, NatSet
<1> QED
    BY <1>3 DEF T
------------------------------------------------------------------------------
\* What mSizeArr may hold, and the state of a parser's loop.
Nalus == {q \in Seq([from : Nat, size : Nat \ {0}]) : Len(q) <= MaxNaluNum}
Loop == [i : Nat, before : Nat, nalus : Nalus]

\* No frame gets more NALUs than mBufferArr has room for, nor an empty one.
LEMMA TakeType ==
    ASSUME NEW q \in Nalus, NEW first \in Nat, NEW size \in Int, NEW limit \in Nat
    PROVE  Take(q, first, size, limit) \in Nalus
<1>1. CASE size > 0 /\ size <= limit /\ Len(q) < MaxNaluNum
    <2> DEFINE n == [from |-> first, size |-> size]
    <2>1. n \in [from : Nat, size : Nat \ {0}]
        BY <1>1
    <2> HIDE DEF n
    <2>2. /\ Append(q, n) \in Seq([from : Nat, size : Nat \ {0}])
          /\ Len(Append(q, n)) = Len(q) + 1
          /\ Len(q) \in Nat
        BY <2>1, AppendProperties, LenProperties DEF Nalus
    <2> QED
        BY <1>1, <2>2, ParserAssumption DEF Take, Nalus, n
<1>2. CASE ~(size > 0 /\ size <= limit /\ Len(q) < MaxNaluNum)
    BY <1>2 DEF Take
<1> QED
    BY <1>1, <1>2

\* The types of the loops, at their start and from round to round.
LEMMA BeginType == Begin \in Loop
<1>1. <<>> \in Seq([from : Nat, size : Nat \ {0}]) /\ Len(<<>>) = 0
    BY EmptySeq
<1> QED
    BY <1>1, ParserAssumption DEF Begin, Loop, Nalus

LEMMA UtilsStepType ==
    ASSUME NEW data \in Seq(Nat), NEW s \in Loop
    PROVE  UtilsStep(data, s) \in Loop
<1>1. /\ s.i \in Nat
      /\ s.before \in Nat
      /\ s.nalus \in Nalus
      /\ mNaluOffset = 4
      /\ MaxNaluSize \in Nat
    BY ParserAssumption DEF Loop
<1>2. Take(s.nalus, s.before + mNaluOffset, s.i - s.before - mNaluOffset, MaxNaluSize) \in Nalus
    BY <1>1, TakeType
<1>3. Advance(data, s.i) \in 1..4
    BY DEF Advance
<1>4. [s EXCEPT !.i = s.i + Advance(data, s.i)] = [i |-> s.i + Advance(data, s.i), before |-> s.before, nalus |-> s.nalus]
    BY DEF Loop
<1> QED
    BY <1>1, <1>2, <1>3, <1>4 DEF UtilsStep, Loop

LEMMA CaptureStepType ==
    ASSUME NEW data \in Seq(Nat), NEW offset \in Nat, NEW s \in Loop
    PROVE  CaptureStep(data, offset, s) \in Loop
<1>1. s.i \in Nat /\ s.before \in Nat /\ s.nalus \in Nalus /\ MaxNaluSize \in Nat
    BY ParserAssumption DEF Loop
<1>2. Take(s.nalus, s.before + offset, s.i - s.before - offset, MaxNaluSize) \in Nalus
    BY <1>1, TakeType
<1>4. [s EXCEPT !.i = s.i + 1] = [i |-> s.i + 1, before |-> s.before, nalus |-> s.nalus]
    BY DEF Loop
<1> QED
    BY <1>1, <1>2, <1>4 DEF CaptureStep, Loop

\* The loop of Utils, round by round.
LEMMA UtilsRounds ==
    ASSUME NEW data \in Seq(Nat)
    PROVE  \A k \in 0..Len(data) :
              /\ UtilsScan(data)[k] \in Loop
              /\ UtilsScan(data)[k] = IF k = 0 THEN Begin ELSE UtilsStep(data, UtilsScan(data)[k - 1])
<1> DEFINE n == Len(data)
           F == [x \in Nat \X Loop |-> UtilsStep(data, x[2])]
           Is(f) == f = [k \in 0..n |-> IF k = 0 THEN Begin ELSE UtilsStep(data, f[k - 1])]
<1>1. n \in Nat
    BY LenProperties
<1>2. F \in [Nat \X Loop -> Loop]
    BY UtilsStepType
<1>3. \A k \in Nat, s \in Loop : F[<<k, s>>] = UtilsStep(data, s)
    OBVIOUS
<1> HIDE DEF F, n
<1>4. PICK f \in [0..n -> Loop] : Recursive(f, n, Begin, F)
    BY <1>1, <1>2, BeginType, Recursion
<1>5. \A k \in 0..n : f[k] = IF k = 0 THEN Begin ELSE UtilsStep(data, f[k - 1])
    <2> TAKE k \in 0..n
    <2>1. k # 0 => k \in Nat /\ k - 1 \in 0..n /\ f[k - 1] \in Loop
        BY <1>1, <1>4
    <2> QED
        BY <1>3, <1>4, <2>1 DEF Recursive
<1>6. Is(f)
    BY <1>5
<1>7. Is(UtilsScan(data))
    BY <1>6 DEF UtilsScan, n
<1> DEFINE T == {k \in Nat : k <= n => UtilsScan(data)[k] \in Loop}
<1>8. \A k \in 0..n : UtilsScan(data)[k] = IF k = 0 THEN Begin ELSE UtilsStep(data, UtilsScan(data)[k - 1])
    BY <1>7
<1>9. 0 \in T
    BY <1>1, <1>8, BeginType
<1>10. ASSUME NEW k \in Nat, k \in T PROVE k + 1 \in T
    <2>1. CASE k + 1 <= n
        <3>1. k + 1 \in 0..n /\ k + 1 # 0 /\ (k + 1) - 1 = k /\ k <= n
            BY <1>1, <2>1
        <3>2. UtilsScan(data)[k + 1] = UtilsStep(data, UtilsScan(data)[k])
            BY <1>8, <3>1
        <3> QED
            BY <1>10, <3>1, <3>2, UtilsStepType
    <2>2. CASE ~(k + 1 <= n)
        BY <2>2
    <2> QED
        BY <2>1, <2>2
<1> HIDE DEF T
<1>11. \A k \in Nat : k \in T
    BY <1>9, <1>10, NatSet
<1>12. \A k \in 0..n : UtilsScan(data)[k] \in Loop
    BY <1>1, <1>11 DEF T
<1> QED
    BY <1>8, <1>12 DEF n
\* The loop of the capture.
LEMMA CaptureRounds ==
    ASSUME NEW data \in Seq(Nat), NEW offset \in Nat
    PROVE  \A k \in 0..(Len(data) + 1) :
              /\ CaptureScan(data, offset)[k] \in Loop
              /\ CaptureScan(data, offset)[k] = IF k = 0 THEN Begin ELSE CaptureStep(data, offset, CaptureScan(data, offset)[k - 1])
<1> DEFINE n == Len(data) + 1
           F == [x \in Nat \X Loop |-> CaptureStep(data, offset, x[2])]
           Is(f) == f = [k \in 0..n |-> IF k = 0 THEN Begin ELSE CaptureStep(data, offset, f[k - 1])]
<1>1. n \in Nat
    BY LenProperties
<1>2. F \in [Nat \X Loop -> Loop]
    BY CaptureStepType
<1>3. \A k \in Nat, s \in Loop : F[<<k, s>>] = CaptureStep(data, offset, s)
    OBVIOUS
<1> HIDE DEF F, n
<1>4. PICK f \in [0..n -> Loop] : Recursive(f, n, Begin, F)
    BY <1>1, <1>2, BeginType, Recursion
<1>5. \A k \in 0..n : f[k] = IF k = 0 THEN Begin ELSE CaptureStep(data, offset, f[k - 1])
    <2> TAKE k \in 0..n
    <2>1. k # 0 => k \in Nat /\ k - 1 \in 0..n /\ f[k - 1] \in Loop
        BY <1>1, <1>4
    <2> QED
        BY <1>3, <1>4, <2>1 DEF Recursive
<1>6. Is(f)
    BY <1>5
<1>7. Is(CaptureScan(data, offset))
    BY <1>6 DEF CaptureScan, n
<1> DEFINE T == {k \in Nat : k <= n => CaptureScan(data, offset)[k] \in Loop}
<1>8. \A k \in 0..n : CaptureScan(data, offset)[k] = IF k = 0 THEN Begin ELSE CaptureStep(data, offset, CaptureScan(data, offset)[k - 1])
    BY <1>7
<1>9. 0 \in T
    BY <1>1, <1>8, BeginType
<1>10. ASSUME NEW k \in Nat, k \in T PROVE k + 1 \in T
    <2>1. CASE k + 1 <= n
        <3>1. k + 1 \in 0..n /\ k + 1 # 0 /\ (k + 1) - 1 = k /\ k <= n
            BY <1>1, <2>1
        <3>2. CaptureScan(data, offset)[k + 1] = CaptureStep(data, offset, CaptureScan(data, offset)[k])
            BY <1>8, <3>1
        <3> QED
            BY <1>10, <3>1, <3>2, CaptureStepType
    <2>2. CASE ~(k + 1 <= n)
        BY <2>2
    <2> QED
        BY <2>1, <2>2
<1> HIDE DEF T
<1>11. \A k \in Nat : k \in T
    BY <1>9, <1>10, NatSet
<1>12. \A k \in 0..n : CaptureScan(data, offset)[k] \in Loop
    BY <1>1, <1>11 DEF T
<1> QED
    BY <1>8, <1>12 DEF n

\* What an encoder may write: some NALUs.
\* A NALU of the stream, as an encoder writes it.
Written == [code : {3, 4}, bytes : Seq(Nat)]

\* A start code is zeros and a one.
LEMMA StartCodeFacts ==
    ASSUME NEW length \in {3, 4}
    PROVE  /\ StartCode(length) \in Seq(Nat)
           /\ Len(StartCode(length)) = length
           /\ \A k \in 1..length : StartCode(length)[k] = IF k = length THEN 1 ELSE 0
<1>1. StartCode(length) \in [1..length -> Nat] /\ length \in Nat
    BY DEF StartCode
<1>2. StartCode(length) \in Seq(Nat)
    BY <1>1, SeqDef
<1>3. /\ DOMAIN StartCode(length) = 1..length
      /\ DOMAIN StartCode(length) = 1..Len(StartCode(length))
      /\ Len(StartCode(length)) \in Nat
    BY <1>1, <1>2, LenProperties
<1>4. Len(StartCode(length)) = length
    BY <1>3
<1> QED
    BY <1>2, <1>4 DEF StartCode

\* A NALU behind its start code is bytes.
LEMMA PieceType ==
    ASSUME NEW nalus \in Seq(Written), NEW j \in 1..Len(nalus)
    PROVE  /\ nalus[j].code \in {3, 4} /\ nalus[j].bytes \in Seq(Nat)
           /\ StartCode(nalus[j].code) \o nalus[j].bytes \in Seq(Nat)
<1>1. nalus[j] \in Written
    BY ElementOfSeq
<1>2. nalus[j].code \in {3, 4} /\ nalus[j].bytes \in Seq(Nat)
    BY <1>1 DEF Written
<1> QED
    BY <1>2, StartCodeFacts, ConcatProperties

\* The stream, NALU by NALU.
LEMMA StreamRounds ==
    ASSUME NEW nalus \in Seq(Written)
    PROVE  /\ \A j \in 0..Len(nalus) : Streams(nalus)[j] \in Seq(Nat)
           /\ Streams(nalus)[0] = <<>>
           /\ \A j \in 1..Len(nalus) :
                 Streams(nalus)[j] = Streams(nalus)[j - 1] \o (StartCode(nalus[j].code) \o nalus[j].bytes)
<1> DEFINE n == Len(nalus)
           Piece(j) == StartCode(nalus[j].code) \o nalus[j].bytes
           F == [x \in Nat \X Seq(Nat) |-> IF x[1] \in 1..n THEN x[2] \o Piece(x[1]) ELSE <<>>]
           Is(f) == f = [j \in 0..n |-> IF j = 0 THEN <<>> ELSE f[j - 1] \o Piece(j)]
<1>1. n \in Nat /\ <<>> \in Seq(Nat)
    BY LenProperties, EmptySeq
<1>2. \A j \in Nat, q \in Seq(Nat) : j \in 1..n => q \o Piece(j) \in Seq(Nat)
    BY PieceType, ConcatProperties
<1> HIDE DEF Piece
<1>3. F \in [Nat \X Seq(Nat) -> Seq(Nat)]
    BY <1>1, <1>2
<1> HIDE DEF n
<1>4. \A j \in 1..n, q \in Seq(Nat) : F[<<j, q>>] = q \o Piece(j)
    <2> TAKE j \in 1..n, q \in Seq(Nat)
    <2>1. <<j, q>> \in Nat \X Seq(Nat)
        BY <1>1
    <2> QED
        BY <2>1
<1> HIDE DEF F
<1>5. PICK f \in [0..n -> Seq(Nat)] : Recursive(f, n, <<>>, F)
    BY <1>1, <1>3, Recursion
<1>6. \A j \in 0..n : f[j] = IF j = 0 THEN <<>> ELSE f[j - 1] \o Piece(j)
    <2> TAKE j \in 0..n
    <2>1. j # 0 => j \in 1..n /\ j - 1 \in 0..n /\ f[j - 1] \in Seq(Nat)
        BY <1>1, <1>5
    <2> QED
        BY <1>4, <1>5, <2>1 DEF Recursive
<1>7. Is(f)
    BY <1>6
<1>8. Is(Streams(nalus))
    BY <1>7 DEF Streams, n, Piece
<1>9. \A j \in 0..n : Streams(nalus)[j] = IF j = 0 THEN <<>> ELSE Streams(nalus)[j - 1] \o Piece(j)
    BY <1>8
<1> DEFINE T == {j \in Nat : j <= n => Streams(nalus)[j] \in Seq(Nat)}
<1>10. Streams(nalus)[0] = <<>>
    BY <1>1, <1>9
<1>11. \A j \in 1..n : Streams(nalus)[j] = Streams(nalus)[j - 1] \o Piece(j)
    <2> TAKE j \in 1..n
    <2>1. j \in 0..n /\ j # 0
        BY <1>1
    <2> QED
        BY <1>9, <2>1
<1>12. 0 \in T
    <2>1. Streams(nalus)[0] \in Seq(Nat)
        BY <1>1, <1>10
    <2> QED
        BY <2>1
<1>13. ASSUME NEW j \in Nat, j \in T PROVE j + 1 \in T
    <2>1. CASE j + 1 <= n
        <3>1. j + 1 \in 0..n /\ j + 1 # 0 /\ (j + 1) - 1 = j /\ j <= n /\ j + 1 \in 1..n
            BY <1>1, <2>1
        <3>2. Streams(nalus)[j + 1] = Streams(nalus)[j] \o Piece(j + 1)
            BY <1>11, <3>1
        <3>3. Streams(nalus)[j] \in Seq(Nat) /\ j + 1 \in Nat
            BY <1>13, <3>1
        <3>4. Streams(nalus)[j] \o Piece(j + 1) \in Seq(Nat)
            BY <1>2, <3>1, <3>3
        <3>5. Streams(nalus)[j + 1] \in Seq(Nat)
            BY <3>2, <3>4
        <3> QED
            BY <3>3, <3>5
    <2>2. CASE ~(j + 1 <= n)
        BY <2>2
    <2> QED
        BY <2>1, <2>2
<1> HIDE DEF T
<1>14. \A j \in Nat : j \in T
    BY <1>12, <1>13, NatSet
<1>15. \A j \in 0..n : Streams(nalus)[j] \in Seq(Nat)
    BY <1>1, <1>14 DEF T
<1> QED
    BY <1>10, <1>11, <1>15 DEF n, Piece

\* What RtpAssumption says of the encoder.
LEMMA EncodedType ==
    ASSUME NEW nalus \in Encoded
    PROVE  nalus \in Seq(Written) /\ nalus # <<>> /\ AnnexB(nalus) \in Seq(Nat)
<1>1. nalus \in Seq(Written) /\ nalus # <<>>
    BY RtpAssumption DEF Written
<1>2. Len(nalus) \in 0..Len(nalus)
    BY <1>1, LenProperties
<1> QED
    BY <1>1, <1>2, StreamRounds DEF AnnexB

\* Whatever the encoder wrote, a frame has up to MaxNaluNum NALUs that are not empty.
LEMMA ParsedType ==
    ASSUME NEW data \in Seq(Nat), NEW parser
    PROVE  ParseH264(parser, data) \in Nalus
<1>1. Len(data) \in Nat /\ Len(data) \in 0..Len(data) /\ Len(data) + 1 \in 0..(Len(data) + 1)
    BY LenProperties
<1>2. UtilsParseH264(data) \in Nalus
    <2> DEFINE s == UtilsScan(data)[Len(data)]
    <2>1. s \in Loop
        BY <1>1, UtilsRounds
    <2> HIDE DEF s
    <2>2. /\ s.nalus \in Nalus
          /\ s.before + mNaluOffset \in Nat
          /\ Len(data) - s.before - mNaluOffset \in Int
          /\ MaxNaluSize \in Nat
        BY <1>1, <2>1, ParserAssumption DEF Loop
    <2>3. Take(s.nalus, s.before + mNaluOffset, Len(data) - s.before - mNaluOffset, MaxNaluSize) \in Nalus
        BY <2>2, TakeType
    <2> QED
        BY <2>3 DEF UtilsParseH264, s
<1>3. CaptureParseH264(data) \in Nalus
    <2> DEFINE offset == StartCodeLength(data)
               s == CaptureScan(data, offset)[Len(data) + 1]
    <2>1. offset \in Nat
        BY DEF StartCodeLength
    <2> HIDE DEF offset
    <2>2. s \in Loop
        BY <1>1, <2>1, CaptureRounds
    <2> HIDE DEF s
    <2>3. /\ s.nalus \in Nalus
          /\ s.before + offset \in Nat
          /\ s.i - s.before \in Int
          /\ MaxNaluSize + offset \in Nat
        BY <2>1, <2>2, ParserAssumption DEF Loop
    <2>4. Take(s.nalus, s.before + offset, s.i - s.before, MaxNaluSize + offset) \in Nalus
        BY <2>3, TakeType
    <2> QED
        BY <2>4 DEF CaptureParseH264, s, offset
<1> QED
    BY <1>2, <1>3 DEF ParseH264
------------------------------------------------------------------------------
\* The timestamp after t, and what handleFrame keeps of them.
Later(t) == (t + mClockRate \div mFps) % TsWrap

\* Where the packets of a NALU stand after i full fragments.
FragmentInv ==
    /\ pos = 1 + i * RTP_MAX_PKT_SIZE
    /\ i > 0 => /\ InFrame
                /\ frameSize > RTP_MAX_PKT_SIZE
                /\ i <= pktNum
                /\ i = pktNum => remainPktSize > 0
                /\ sent # <<>>
                /\ LET p == Last(sent)
                   IN  ~Ends(p) /\ p.frame = frames /\ p.nalu = nalu /\ p.to = pos - 1
    /\ i = 0 /\ sent # <<>> => Ends(Last(sent))

\* The timestamps of this frame and of the one before.
StampInv ==
    \A p \in ToSet(sent) :
        /\ p.frame <= frames
        /\ p.frame = frames => IF nalu # 0 THEN p.ts = mTimestamp ELSE mTimestamp = Later(p.ts)
        /\ p.frame = frames - 1 /\ nalu # 0 => mTimestamp = Later(p.ts)

\* What \div and % are.
LEMMA Divide ==
    ASSUME NEW a \in Nat, NEW b \in Nat \ {0}
    PROVE  /\ a \div b \in Nat
           /\ a % b \in 0..(b - 1)
           /\ a % b = a - (a \div b) * b
    BY SMT

\* A NALU as full fragments and a rest.
LEMMA SizeFacts ==
    ASSUME RtpTypeOK, InFrame
    PROVE  /\ frame[nalu] \in [from : Nat, size : Nat \ {0}]
           /\ frameSize \in Nat \ {0}
           /\ nalu \in 1..MaxNaluNum
           /\ pktNum \in Nat
           /\ remainPktSize \in 0..(RTP_MAX_PKT_SIZE - 1)
           /\ remainPktSize = frameSize - pktNum * RTP_MAX_PKT_SIZE
           /\ frameSize > RTP_MAX_PKT_SIZE => pktNum >= 1 /\ (remainPktSize = 0 => pktNum >= 2)
<1>1. /\ frame \in Seq([from : Nat, size : Nat \ {0}])
      /\ Len(frame) \in Nat
      /\ Len(frame) <= MaxNaluNum
    BY LenProperties DEF RtpTypeOK
<1>2. frame[nalu] \in [from : Nat, size : Nat \ {0}]
    BY <1>1, ElementOfSeq DEF InFrame
<1>3. frameSize \in Nat \ {0}
    BY <1>2 DEF frameSize
<1>4. nalu \in 1..MaxNaluNum
    BY <1>1, ParserAssumption DEF InFrame
<1>5. /\ pktNum \in Nat
      /\ remainPktSize \in 0..(RTP_MAX_PKT_SIZE - 1)
      /\ remainPktSize = frameSize - pktNum * RTP_MAX_PKT_SIZE
    BY <1>3, Divide, RtpAssumption DEF pktNum, remainPktSize
<1>6. ASSUME frameSize > RTP_MAX_PKT_SIZE
      PROVE  pktNum >= 1 /\ (remainPktSize = 0 => pktNum >= 2)
    <2>1. pktNum # 0
        BY <1>3, <1>5, <1>6, RtpAssumption
    <2>2. remainPktSize = 0 => pktNum # 1
        BY <1>3, <1>5, <1>6, RtpAssumption
    <2> QED
        BY <1>5, <2>1, <2>2
<1> QED
    BY <1>2, <1>3, <1>4, <1>5, <1>6

\* The packet that SendRtpPacket sends.
Packet(kind, first, size) ==
    [frame |-> frames, nalu |-> nalu, length |-> frameSize, kind |-> kind,
     from |-> first, to |-> first + size - 1, seq |-> mSeq, ts |-> mTimestamp]

\* A frame in handleFrame has been counted.
Started == nalu # 0 => frames > 0

\* It is a packet.
LEMMA PacketType ==
    ASSUME RtpTypeOK, Started, InFrame,
           NEW kind \in Kinds, NEW first \in Nat, NEW size \in Nat \ {0}
    PROVE  Packet(kind, first, size) \in Packets
<1>1. nalu \in 1..MaxNaluNum /\ frameSize \in Nat /\ nalu # 0
    BY SizeFacts DEF InFrame
<1>2. frames \in 1..MaxFrames /\ mSeq \in 0..(SeqWrap - 1) /\ mTimestamp \in 0..(TsWrap - 1)
    BY <1>1, RtpAssumption DEF RtpTypeOK, Started
<1>3. first + size - 1 \in Nat
    OBVIOUS
<1> QED
    BY <1>1, <1>2, <1>3 DEF Packet, Packets

\* sent, with one packet more.
LEMMA SentFacts ==
    ASSUME RtpTypeOK, NEW p \in Packets, sent' = Append(sent, p)
    PROVE  /\ sent' \in Seq(Packets)
           /\ Len(sent) \in Nat /\ Len(sent') = Len(sent) + 1
           /\ \A k \in 1..Len(sent) : sent'[k] = sent[k]
           /\ sent'[Len(sent) + 1] = p
           /\ Last(sent') = p
           /\ sent' # <<>>
           /\ ToSet(sent') = ToSet(sent) \cup {p}
<1>1. sent \in Seq(Packets) /\ Len(sent) \in Nat /\ DOMAIN sent = 1..Len(sent)
    BY LenProperties DEF RtpTypeOK
<1>2. /\ sent' \in Seq(Packets) /\ sent' # <<>> /\ Len(sent') = Len(sent) + 1
      /\ \A k \in 1..Len(sent) : sent'[k] = sent[k]
      /\ sent'[Len(sent) + 1] = p
    BY <1>1, AppendProperties
<1>3. DOMAIN sent' = 1..(Len(sent) + 1)
    BY <1>2, LenProperties
<1>4. ToSet(sent') = ToSet(sent) \cup {p}
    <2>1. \A k \in 1..(Len(sent) + 1) : k \in 1..Len(sent) \/ k = Len(sent) + 1
        BY <1>1
    <2>2. 1..Len(sent) \subseteq 1..(Len(sent) + 1) /\ Len(sent) + 1 \in 1..(Len(sent) + 1)
        BY <1>1
    <2> QED
        BY <1>1, <1>2, <1>3, <2>1, <2>2 DEF ToSet
<1> QED
    BY <1>1, <1>2, <1>4 DEF Last

\* What sent consists of.
LEMMA PacketsOf ==
    ASSUME RtpTypeOK
    PROVE  /\ Len(sent) \in Nat /\ DOMAIN sent = 1..Len(sent)
           /\ sent = <<>> <=> Len(sent) = 0
           /\ \A k \in 1..Len(sent) : sent[k] \in Packets
           /\ ToSet(sent) \subseteq Packets
           /\ sent # <<>> => Len(sent) \in 1..Len(sent) /\ Last(sent) = sent[Len(sent)] /\ Last(sent) \in Packets
<1>1. sent \in Seq(Packets)
    BY DEF RtpTypeOK
<1>2. Len(sent) \in Nat /\ DOMAIN sent = 1..Len(sent) /\ (sent = <<>> <=> Len(sent) = 0)
    BY <1>1, LenProperties, EmptySeq
<1>3. \A k \in 1..Len(sent) : sent[k] \in Packets
    BY <1>1, ElementOfSeq
<1>4. sent # <<>> => Len(sent) \in 1..Len(sent)
    BY <1>2
<1> QED
    BY <1>2, <1>3, <1>4 DEF ToSet, Last

\* Two timestamps in a row differ.
LEMMA LaterDiffers ==
    ASSUME NEW t \in 0..(TsWrap - 1)
    PROVE  Later(t) \in 0..(TsWrap - 1) /\ Later(t) # t
<1> DEFINE d == mClockRate \div mFps
<1>1. d \in Nat /\ d >= 1 /\ d < TsWrap
    <2>1. /\ d \in Nat
          /\ mClockRate % mFps \in 0..(mFps - 1)
          /\ mClockRate % mFps = mClockRate - d * mFps
        BY Divide, RtpAssumption
    <2>2. d # 0
        BY <2>1, RtpAssumption
    <2>3. d * mFps >= d
        BY <2>1, RtpAssumption
    <2>4. d <= mClockRate
        BY <2>1, <2>3, RtpAssumption
    <2> QED
        BY <2>1, <2>2, <2>4, RtpAssumption
<1> HIDE DEF d
<1>2. t + d \in Nat /\ TsWrap \in Nat \ {0}
    BY <1>1, RtpAssumption
<1> DEFINE q == (t + d) \div TsWrap
           r == (t + d) % TsWrap
<1>3. q \in Nat /\ r \in 0..(TsWrap - 1) /\ r = (t + d) - q * TsWrap
    BY <1>2, Divide
<1> HIDE DEF q, r
<1>4. ASSUME r = t PROVE FALSE
    <2>1. d = q * TsWrap
        BY <1>1, <1>2, <1>3, <1>4
    <2>2. q # 0
        BY <1>1, <1>2, <2>1
    <2>3. q * TsWrap >= TsWrap
        BY <1>2, <1>3, <2>2
    <2> QED
        BY <1>1, <1>2, <2>1, <2>3
<1> QED
    BY <1>3, <1>4 DEF Later, r, d

\* What one packet more means for the numbers and the timestamps.
LEMMA SendNumbers ==
    ASSUME RtpTypeOK, Numbered, StampInv, nalu # 0,
           NEW p \in Packets, sent' = Append(sent, p), mSeq' = NextSeq,
           p.seq = mSeq, p.ts = mTimestamp, p.frame = frames,
           mTimestamp' = mTimestamp, frames' = frames, nalu' # 0
    PROVE  Numbered' /\ StampInv'
<1>1. /\ sent' \in Seq(Packets)
      /\ Len(sent) \in Nat /\ Len(sent') = Len(sent) + 1
      /\ \A k \in 1..Len(sent) : sent'[k] = sent[k]
      /\ sent'[Len(sent) + 1] = p
      /\ Last(sent') = p
      /\ ToSet(sent') = ToSet(sent) \cup {p}
    BY SentFacts
<1>2. mTimestamp \in 0..(TsWrap - 1) /\ frames \in Nat
    BY DEF RtpTypeOK
<1>3. StampInv'
    <2>1. ASSUME NEW q \in ToSet(sent') PROVE
              /\ q.frame <= frames
              /\ q.frame = frames => q.ts = mTimestamp
              /\ q.frame = frames - 1 => mTimestamp = Later(q.ts)
        <3>1. CASE q \in ToSet(sent)
            BY <3>1 DEF StampInv
        <3>2. CASE q = p
            BY <1>2, <3>2
        <3> QED
            BY <1>1, <3>1, <3>2
    <2> QED
        BY <2>1 DEF StampInv, Later
<1>4. Consecutive'
    <2>1. mSeq' = (p.seq + 1) % SeqWrap
        BY DEF NextSeq
    <2>2. ASSUME NEW k \in 1..Len(sent) PROVE sent'[k + 1].seq = (sent'[k].seq + 1) % SeqWrap
        <3>1. CASE k = Len(sent)
            <4>1. sent # <<>> /\ Last(sent) = sent[k]
                BY <1>1, <3>1, PacketsOf
            <4>2. mSeq = (sent[k].seq + 1) % SeqWrap
                BY <4>1 DEF Numbered, Consecutive
            <4> QED
                BY <1>1, <3>1, <4>2
        <3>2. CASE k # Len(sent)
            <4>1. k \in 1..(Len(sent) - 1) /\ k + 1 \in 1..Len(sent)
                BY <1>1, <3>2
            <4>2. sent[k + 1].seq = (sent[k].seq + 1) % SeqWrap
                BY <4>1 DEF Numbered, Consecutive
            <4> QED
                BY <1>1, <4>1, <4>2
        <3> QED
            BY <3>1, <3>2
    <2>3. Len(sent') - 1 = Len(sent)
        BY <1>1
    <2> QED
        BY <1>1, <2>1, <2>2, <2>3 DEF Consecutive
<1>5. OneTimestampPerFrame'
    <2>1. \A q \in ToSet(sent) : q \in Packets
        BY PacketsOf
    <2>2. ASSUME NEW x \in ToSet(sent'), NEW y \in ToSet(sent')
          PROVE  (x.frame = y.frame => x.ts = y.ts) /\ (x.frame = y.frame + 1 => x.ts # y.ts)
        <3>1. CASE x \in ToSet(sent) /\ y \in ToSet(sent)
            BY <3>1 DEF Numbered, OneTimestampPerFrame
        <3>2. CASE x = p
            <4>1. /\ y.frame <= frames
                  /\ (y.frame = frames => y.ts = mTimestamp)
                  /\ (y.frame = frames - 1 => mTimestamp = Later(y.ts))
                <5>1. CASE y \in ToSet(sent)
                    BY <5>1 DEF StampInv
                <5>2. CASE y = p
                    BY <1>2, <5>2
                <5> QED
                    BY <1>1, <5>1, <5>2
            <4>0. y \in Packets
                BY <1>1, <2>1
            <4>2. y.ts \in 0..(TsWrap - 1) /\ y.frame \in Int
                BY <4>0 DEF Packets
            <4>3. x.frame = y.frame + 1 => y.frame = frames - 1
                BY <1>2, <3>2, <4>2
            <4>4. Later(y.ts) # y.ts
                BY <4>2, LaterDiffers
            <4>5. x.frame = frames /\ x.ts = mTimestamp
                BY <3>2
            <4>6. x.frame = y.frame => x.ts = y.ts
                BY <4>1, <4>5
            <4>7. x.frame = y.frame + 1 => x.ts # y.ts
                BY <4>1, <4>3, <4>4, <4>5
            <4> QED
                BY <4>6, <4>7
        <3>3. CASE x \in ToSet(sent) /\ y = p
            <4>1. /\ x.frame <= frames
                  /\ (x.frame = frames => x.ts = mTimestamp)
                  /\ x.frame \in Int
                <5>1. x \in Packets
                    BY <2>1, <3>3
                <5> QED
                    BY <3>3, <5>1 DEF StampInv, Packets
            <4>2. x.frame # y.frame + 1
                BY <1>2, <3>3, <4>1
            <4> QED
                BY <3>3, <4>1, <4>2
        <3> QED
            BY <1>1, <3>1, <3>2, <3>3
    <2> QED
        BY <2>2 DEF OneTimestampPerFrame
<1> QED
    BY <1>3, <1>4, <1>5 DEF Numbered

\* The packets sent so far can be put together.
\* Each packet goes on where the one before it ended, or begins a NALU behind the
\* end of another.
Assembled ==
    \A j \in 1..Len(sent) : LET p == sent[j] IN
        /\ p.from = CASE p.kind = "single" -> 0
                      [] p.kind = "start" -> 1
                      [] OTHER -> sent[j - 1].to + 1
        /\ Ends(p) => p.to >= p.length - 1
        /\ Begins(p) <=> (j > 1 => Ends(sent[j - 1]))
        /\ ~Begins(p) => /\ p.frame = sent[j - 1].frame
                         /\ p.nalu = sent[j - 1].nalu

\* When a packet fits behind those sent.
Fits(p) ==
    /\ p.from = CASE p.kind = "single" -> 0
                  [] p.kind = "start" -> 1
                  [] OTHER -> Last(sent).to + 1
    /\ Ends(p) => p.to >= p.length - 1
    /\ Begins(p) <=> (sent # <<>> => Ends(Last(sent)))
    /\ ~Begins(p) => /\ p.frame = Last(sent).frame
                     /\ p.nalu = Last(sent).nalu

\* Such a packet keeps the NALUs together.
LEMMA SendAssembles ==
    ASSUME RtpTypeOK, Assembled, NEW p \in Packets, sent' = Append(sent, p), Fits(p)
    PROVE  Assembled'
<1>1. /\ Len(sent) \in Nat /\ Len(sent') = Len(sent) + 1
      /\ \A k \in 1..Len(sent) : sent'[k] = sent[k]
      /\ sent'[Len(sent) + 1] = p
    BY SentFacts
<1>2. sent # <<>> <=> Len(sent) + 1 > 1
    BY <1>1, PacketsOf
<1>3. ASSUME NEW j \in 1..Len(sent')
      PROVE  /\ sent'[j].from = CASE sent'[j].kind = "single" -> 0
                                  [] sent'[j].kind = "start" -> 1
                                  [] OTHER -> sent'[j - 1].to + 1
             /\ Ends(sent'[j]) => sent'[j].to >= sent'[j].length - 1
             /\ Begins(sent'[j]) <=> (j > 1 => Ends(sent'[j - 1]))
             /\ ~Begins(sent'[j]) => /\ sent'[j].frame = sent'[j - 1].frame
                                     /\ sent'[j].nalu = sent'[j - 1].nalu
    <2>1. CASE j = Len(sent) + 1
        <3>1. sent'[j] = p
            BY <1>1, <2>1
        <3>2. CASE sent # <<>>
            <4>1. sent'[j - 1] = Last(sent) /\ j > 1
                BY <1>1, <2>1, <3>2, PacketsOf
            <4> QED
                BY <3>1, <3>2, <4>1 DEF Fits
        <3>3. CASE sent = <<>>
            <4>1. Begins(p) /\ ~(j > 1)
                BY <1>2, <2>1, <3>3 DEF Fits
            <4>2. p.kind \in {"single", "start"}
                BY <4>1 DEF Begins
            <4> QED
                BY <3>1, <4>1, <4>2 DEF Fits
        <3> QED
            BY <3>2, <3>3
    <2>2. CASE j # Len(sent) + 1
        <3>1. j \in 1..Len(sent) /\ sent'[j] = sent[j]
            BY <1>1, <2>2
        <3>2. CASE j = 1
            <4>1. ~(j > 1)
                BY <3>2
            <4>2. /\ Begins(sent[j])
                  /\ sent[j].from = (IF sent[j].kind = "single" THEN 0 ELSE 1)
                  /\ (Ends(sent[j]) => sent[j].to >= sent[j].length - 1)
                <5>1. Begins(sent[j])
                    BY <3>1, <4>1 DEF Assembled
                <5>2. sent[j].kind \in {"single", "start"}
                    BY <5>1 DEF Begins
                <5> QED
                    BY <3>1, <5>1, <5>2 DEF Assembled
            <4>3. sent[j].kind \in {"single", "start"}
                BY <4>2 DEF Begins
            <4> QED
                BY <3>1, <4>1, <4>2, <4>3
        <3>3. CASE j # 1
            <4>1. j - 1 \in 1..Len(sent) /\ sent'[j - 1] = sent[j - 1]
                BY <1>1, <3>1, <3>3
            <4> QED
                BY <3>1, <4>1 DEF Assembled
        <3> QED
            BY <3>2, <3>3
    <2> QED
        BY <2>1, <2>2
<1> QED
    BY <1>3 DEF Assembled, Begins, Ends

\* The inductive invariant: FragmentInv says where the next packet begins, StampInv
\* which timestamps the packets of this frame and of the last one have.
RtpInv ==
    /\ RtpTypeOK
    /\ Started
    /\ FragmentInv
    /\ StampInv
    /\ Numbered
    /\ Assembled

\* It holds before the first frame.
LEMMA InitRtpInv == RtpInit => RtpInv
<1> SUFFICES ASSUME RtpInit PROVE RtpInv
    OBVIOUS
<1>1. /\ <<>> \in Seq([from : Nat, size : Nat \ {0}]) /\ <<>> \in Seq(Packets) /\ Len(<<>>) = 0
      /\ DOMAIN <<>> = {}
    BY EmptySeq
<1>2. RtpTypeOK
    BY <1>1, ParserAssumption, RtpAssumption DEF RtpInit, RtpTypeOK, NoInput
<1>3. FragmentInv /\ Started
    BY RtpAssumption DEF RtpInit, FragmentInv, Started
<1>4. ToSet(sent) = {}
    BY <1>1 DEF RtpInit, ToSet
<1>5. StampInv /\ OneTimestampPerFrame
    BY <1>4 DEF StampInv, OneTimestampPerFrame
<1>6. Len(sent) = 0 /\ sent = <<>> /\ 1..Len(sent) = {} /\ 1..(Len(sent) - 1) = {}
    BY <1>1 DEF RtpInit
<1>7. Consecutive /\ Assembled
    BY <1>6 DEF Consecutive, Assembled
<1> QED
    BY <1>2, <1>3, <1>5, <1>7 DEF RtpInv, Numbered

\* A new frame keeps it.
LEMMA HandleKeeps ==
    ASSUME RtpInv, NEW parser \in {"utils", "capture"}, NEW nalus \in Encoded, HandleFrame(parser, nalus)
    PROVE  RtpInv'
<1> USE DEF RtpInv
<1>1. /\ nalu = 0 /\ nalu' = 1 /\ frames' = frames + 1 /\ frames < MaxFrames
      /\ UNCHANGED <<i, pos, mSeq, mTimestamp, sent>>
      /\ input' = [parser |-> parser, nalus |-> nalus]
      /\ frame' = ParseH264(parser, AnnexB(nalus))
    BY DEF HandleFrame
<1>2. /\ frame' \in Seq([from : Nat, size : Nat \ {0}])
      /\ Len(frame') <= MaxNaluNum
      /\ Len(frame') \in Nat
    BY <1>1, EncodedType, ParsedType, LenProperties DEF Nalus
<1>3. RtpTypeOK'
    <2>1. nalu' \in 0..(Len(frame') + 1)
        BY <1>1, <1>2
    <2>2. frames' \in 0..MaxFrames
        BY <1>1, RtpAssumption DEF RtpTypeOK
    <2>3. input'.parser \in {"none", "utils", "capture"}
        BY <1>1
    <2> QED
        BY <1>1, <1>2, <2>1, <2>2, <2>3 DEF RtpTypeOK
<1>4. i = 0
    BY <1>1 DEF FragmentInv, InFrame, RtpTypeOK
<1>5. FragmentInv' /\ Started'
    BY <1>1, <1>4 DEF FragmentInv, Ends, Started, RtpTypeOK
<1>6. StampInv'
    <2>1. frames \in Nat /\ ToSet(sent) \subseteq Packets
        BY PacketsOf DEF RtpTypeOK
    <2>2. ASSUME NEW p \in ToSet(sent)
          PROVE  /\ p.frame <= frames + 1
                 /\ p.frame # frames + 1
                 /\ p.frame = frames => mTimestamp = Later(p.ts)
        <3>1. p.frame \in Int
            BY <2>1 DEF Packets
        <3>2. p.frame <= frames /\ (p.frame = frames => mTimestamp = Later(p.ts))
            BY <1>1 DEF StampInv
        <3> QED
            BY <2>1, <3>1, <3>2
    <2>3. ASSUME NEW p \in ToSet(sent)
          PROVE  /\ p.frame <= frames'
                 /\ p.frame = frames' => p.ts = mTimestamp'
                 /\ p.frame = frames' - 1 => mTimestamp' = Later(p.ts)
        <3>1. frames' = frames + 1 /\ mTimestamp' = mTimestamp
            BY <1>1
        <3>2. /\ p.frame <= frames + 1
              /\ p.frame # frames + 1
              /\ (p.frame = frames => mTimestamp = Later(p.ts))
            BY <2>2
        <3>3. frames' - 1 = frames
            BY <2>1, <3>1
        <3> QED
            BY <3>1, <3>2, <3>3
    <2>4. ToSet(sent)' = ToSet(sent) /\ nalu' # 0
        BY <1>1
    <2> HIDE DEF RtpInv
    <2> QED
        BY <2>3, <2>4 DEF StampInv, Later
<1>7. Numbered' /\ Assembled'
    BY <1>1 DEF Numbered, Consecutive, OneTimestampPerFrame, Assembled, Begins, Ends
<1> QED
    BY <1>3, <1>5, <1>6, <1>7

\* The end of a frame keeps it.
LEMMA DoneKeeps == ASSUME RtpInv, FrameDone PROVE RtpInv'
<1> USE DEF RtpInv
<1>1. /\ nalu > Len(frame)
      /\ nalu' = 0
      /\ input' = NoInput
      /\ frame' = <<>>
      /\ mTimestamp' = Later(mTimestamp)
      /\ UNCHANGED <<i, pos, mSeq, frames, sent>>
    BY DEF FrameDone, NextTimestamp, Later
<1>2. nalu # 0 /\ Len(frame) \in Nat /\ nalu \in Nat
    BY <1>1, LenProperties DEF RtpTypeOK
<1>3. RtpTypeOK'
    <2>1. <<>> \in Seq([from : Nat, size : Nat \ {0}]) /\ Len(<<>>) = 0
        BY EmptySeq
    <2>2. mTimestamp' \in 0..(TsWrap - 1)
        BY <1>1, LaterDiffers DEF RtpTypeOK
    <2> QED
        BY <1>1, <2>1, <2>2, ParserAssumption DEF RtpTypeOK, NoInput
<1>4. i = 0
    BY <1>1, <1>2 DEF FragmentInv, InFrame, RtpTypeOK
<1>5. FragmentInv' /\ Started'
    BY <1>1, <1>4 DEF FragmentInv, Ends, Started
<1>6. StampInv'
    BY <1>1, <1>2 DEF StampInv, Later
<1>7. Numbered' /\ Assembled'
    BY <1>1 DEF Numbered, Consecutive, OneTimestampPerFrame, Assembled, Begins, Ends
<1> QED
    BY <1>3, <1>5, <1>6, <1>7

\* What the three sending steps have in common.
LEMMA SendKeeps ==
    ASSUME RtpInv, InFrame, NEW kind \in Kinds, NEW first \in Nat, NEW size \in Nat \ {0},
           SendRtpPacket(kind, first, size), Fits(Packet(kind, first, size)),
           i' \in Nat, pos' \in Nat, nalu' \in 1..(Len(frame) + 1),
           UNCHANGED <<input, frame, mTimestamp, frames>>
    PROVE  /\ RtpTypeOK' /\ Started' /\ StampInv' /\ Numbered' /\ Assembled'
           /\ sent' # <<>> /\ Last(sent') = Packet(kind, first, size)
<1> DEFINE p == Packet(kind, first, size)
<1> USE DEF RtpInv
<1>1. p \in Packets
    BY PacketType
<1>2. sent' = Append(sent, p) /\ mSeq' = NextSeq
    BY DEF SendRtpPacket, Packet
<1>3. p.seq = mSeq /\ p.ts = mTimestamp /\ p.frame = frames
    BY DEF Packet
<1>4. nalu # 0 /\ nalu' # 0
    BY DEF InFrame
<1> HIDE DEF p
<1>5. /\ sent' \in Seq(Packets) /\ sent' # <<>> /\ Last(sent') = p
    BY <1>1, <1>2, SentFacts
<1>6. RtpTypeOK'
    <2>1. mSeq' \in 0..(SeqWrap - 1)
        <3>1. mSeq + 1 \in Nat
            BY RtpAssumption DEF RtpTypeOK
        <3> QED
            BY <1>2, <3>1, Divide, RtpAssumption DEF NextSeq
    <2>2. nalu' \in 0..(Len(frame') + 1)
        OBVIOUS
    <2>3. mSeq' \in 0..(SeqWrap - 1) /\ nalu' \in 0..(Len(frame') + 1) /\ sent' \in Seq(Packets)
        BY <1>5, <2>1, <2>2
    <2>4. RtpTypeOK
        OBVIOUS
    <2> HIDE DEF RtpInv
    <2> QED
        BY <2>3, <2>4 DEF RtpTypeOK
<1>7. Numbered' /\ StampInv'
    BY <1>1, <1>2, <1>3, <1>4, SendNumbers
<1>8. Assembled'
    BY <1>1, <1>2, SendAssembles DEF p
<1>9. Started'
    BY <1>4 DEF Started
<1> QED
    BY <1>5, <1>6, <1>7, <1>8, <1>9 DEF p

\* Between two NALUs, and between two fragments of one.
LEMMA NextFragment ==
    ASSUME RtpInv, NEW p, sent' # <<>>, Last(sent') = p,
           \/ NextNalu /\ Ends(p)
           \/ /\ i' = i + 1 /\ pos' = NextPos /\ nalu' = nalu /\ frame' = frame /\ frames' = frames
              /\ InFrame /\ frameSize > RTP_MAX_PKT_SIZE
              /\ i < pktNum /\ (i + 1 = pktNum => remainPktSize > 0)
              /\ ~Ends(p)
              /\ p.frame = frames
              /\ p.nalu = nalu
              /\ p.to = pos + RTP_MAX_PKT_SIZE - 1
    PROVE  FragmentInv'
<1>1. CASE NextNalu /\ Ends(p)
    <2>1. i' = 0 /\ pos' = 1 + 0 * RTP_MAX_PKT_SIZE
        BY <1>1, RtpAssumption DEF NextNalu
    <2> QED
        BY <1>1, <2>1 DEF FragmentInv, Ends
<1>2. CASE /\ i' = i + 1 /\ pos' = NextPos /\ nalu' = nalu /\ frame' = frame /\ frames' = frames
           /\ InFrame /\ frameSize > RTP_MAX_PKT_SIZE
           /\ i < pktNum /\ (i + 1 = pktNum => remainPktSize > 0)
           /\ ~Ends(p) /\ p.frame = frames /\ p.nalu = nalu /\ p.to = pos + RTP_MAX_PKT_SIZE - 1
    <2>1. i \in Nat /\ pos = 1 + i * RTP_MAX_PKT_SIZE /\ RTP_MAX_PKT_SIZE \in Nat
        BY RtpAssumption DEF RtpInv, RtpTypeOK, FragmentInv
    <2>2. pos' = 1 + i' * RTP_MAX_PKT_SIZE /\ pos' - 1 = pos + RTP_MAX_PKT_SIZE - 1 /\ i' # 0
        BY <1>2, <2>1 DEF NextPos
    <2>3. pktNum \in Nat
        BY <1>2, SizeFacts DEF RtpInv
    <2>4. i' <= pktNum /\ (i' = pktNum => remainPktSize > 0)
        BY <1>2, <2>1, <2>3
    <2>5. /\ InFrame'
          /\ frameSize' = frameSize
          /\ pktNum' = pktNum
          /\ remainPktSize' = remainPktSize
        BY <1>2 DEF InFrame, frameSize, pktNum, remainPktSize
    <2>6. Ends(p)' = Ends(p) /\ Last(sent)' = p
        BY DEF Ends
    <2>7. /\ ~Ends(Last(sent))'
          /\ Last(sent).frame' = frames'
          /\ Last(sent).nalu' = nalu'
          /\ Last(sent).to' = pos' - 1
        BY <1>2, <2>2
    <2> QED
        BY <1>2, <2>2, <2>4, <2>5, <2>7 DEF FragmentInv
<1> QED
    BY <1>1, <1>2

\* A NALU in one packet keeps it.
LEMMA SingleKeeps == ASSUME RtpInv, SendSingle PROVE RtpInv'
<1> DEFINE p == Packet("single", 0, frameSize)
<1>1. RtpTypeOK /\ InFrame /\ i \in Nat
    BY DEF RtpInv, SendSingle, RtpTypeOK
<1>2. frameSize \in Nat \ {0} /\ Len(frame) \in Nat /\ nalu \in 1..Len(frame)
    BY <1>1, SizeFacts, LenProperties DEF RtpTypeOK, InFrame
<1>3. i = 0 /\ (sent # <<>> => Ends(Last(sent)))
    <2>1. ~(frameSize > RTP_MAX_PKT_SIZE)
        BY <1>2, RtpAssumption DEF SendSingle
    <2> QED
        BY <1>1, <2>1 DEF RtpInv, FragmentInv
<1>4. Fits(p) /\ Ends(p)
    <2>1. p.kind = "single" /\ p.from = 0 /\ p.to = 0 + frameSize - 1 /\ p.length = frameSize
        BY DEF Packet
    <2> HIDE DEF p
    <2>2. p.to >= p.length - 1
        BY <1>2, <2>1
    <2>3. Ends(p) /\ Begins(p)
        BY <2>1 DEF Ends, Begins
    <2> QED
        BY <1>3, <2>1, <2>2, <2>3 DEF Fits
<1>5. /\ i' = 0 /\ pos' = 1 /\ nalu' = nalu + 1 /\ NextNalu
      /\ SendRtpPacket("single", 0, frameSize)
      /\ UNCHANGED <<input, frame, mTimestamp, frames>>
    BY DEF SendSingle, NextNalu
<1>6. nalu' \in 1..(Len(frame) + 1)
    BY <1>2, <1>5
<1>7. /\ RtpTypeOK' /\ Started' /\ StampInv' /\ Numbered' /\ Assembled'
      /\ sent' # <<>> /\ Last(sent') = p
    <2>1. "single" \in Kinds /\ 0 \in Nat /\ i' \in Nat /\ pos' \in Nat
        BY <1>5 DEF Kinds
    <2> QED
        BY <1>1, <1>2, <1>4, <1>5, <1>6, <2>1, SendKeeps
<1> HIDE DEF p
<1>8. FragmentInv'
    BY <1>4, <1>5, <1>7, NextFragment
<1> QED
    BY <1>7, <1>8 DEF RtpInv

\* The fragment that holds the rest of a NALU keeps it.
LEMMA RestKeeps == ASSUME RtpInv, SendRest PROVE RtpInv'
<1> DEFINE p == Packet("end", pos, remainPktSize)
<1>1. /\ RtpTypeOK /\ InFrame /\ i \in Nat /\ pos \in Nat
      /\ frameSize > RTP_MAX_PKT_SIZE /\ i = pktNum /\ remainPktSize > 0
    BY DEF RtpInv, SendRest, RtpTypeOK
<1>2. /\ frameSize \in Nat \ {0} /\ Len(frame) \in Nat /\ nalu \in 1..Len(frame)
      /\ pktNum \in Nat /\ pktNum >= 1 /\ remainPktSize \in Nat \ {0}
      /\ remainPktSize = frameSize - pktNum * RTP_MAX_PKT_SIZE
    <2>1. remainPktSize \in 0..(RTP_MAX_PKT_SIZE - 1)
        BY <1>1, SizeFacts
    <2> QED
        BY <1>1, <2>1, SizeFacts, LenProperties DEF RtpTypeOK, InFrame
<1>3. /\ pos = 1 + i * RTP_MAX_PKT_SIZE
      /\ sent # <<>> /\ ~Ends(Last(sent)) /\ Last(sent).frame = frames /\ Last(sent).nalu = nalu
      /\ Last(sent).to = pos - 1
    BY <1>1, <1>2 DEF RtpInv, FragmentInv
<1>4. Fits(p) /\ Ends(p)
    <2>1. /\ p.kind = "end"
          /\ p.from = pos
          /\ p.to = pos + remainPktSize - 1
          /\ p.length = frameSize
          /\ p.frame = frames /\ p.nalu = nalu
        BY DEF Packet
    <2> HIDE DEF p
    <2>2. p.to = frameSize
        <3> DEFINE m == pktNum * RTP_MAX_PKT_SIZE
        <3>1. m \in Nat /\ pos = 1 + m /\ remainPktSize = frameSize - m
            BY <1>1, <1>2, <1>3, RtpAssumption
        <3> HIDE DEF m
        <3> QED
            BY <1>2, <2>1, <3>1
    <2>3. Ends(p) /\ ~Begins(p)
        BY <2>1 DEF Ends, Begins
    <2>4. p.from = Last(sent).to + 1
        BY <1>1, <1>3, <2>1
    <2>5. p.to >= p.length - 1
        BY <1>2, <2>1, <2>2
    <2> QED
        BY <1>3, <2>1, <2>3, <2>4, <2>5 DEF Fits
<1>5. /\ i' = 0 /\ pos' = 1 /\ nalu' = nalu + 1 /\ NextNalu
      /\ SendRtpPacket("end", pos, remainPktSize)
      /\ UNCHANGED <<input, frame, mTimestamp, frames>>
    BY DEF SendRest, NextNalu
<1>6. nalu' \in 1..(Len(frame) + 1)
    BY <1>2, <1>5
<1>7. /\ RtpTypeOK' /\ Started' /\ StampInv' /\ Numbered' /\ Assembled'
      /\ sent' # <<>> /\ Last(sent') = p
    <2>1. "end" \in Kinds /\ i' \in Nat /\ pos' \in Nat
        BY <1>5 DEF Kinds
    <2> QED
        BY <1>1, <1>2, <1>4, <1>5, <1>6, <2>1, SendKeeps
<1> HIDE DEF p
<1>8. FragmentInv'
    BY <1>4, <1>5, <1>7, NextFragment
<1> QED
    BY <1>7, <1>8 DEF RtpInv

\* A full fragment keeps it, the last of a NALU too.
LEMMA FullKeeps == ASSUME RtpInv, SendFull PROVE RtpInv'
<1> DEFINE p == Packet(FuHeader, pos, RTP_MAX_PKT_SIZE)
           last == i = pktNum - 1 /\ remainPktSize = 0
<1>1. /\ RtpTypeOK /\ InFrame /\ i \in Nat /\ pos \in Nat
      /\ frameSize > RTP_MAX_PKT_SIZE /\ i < pktNum
      /\ RTP_MAX_PKT_SIZE \in Nat \ {0}
    BY RtpAssumption DEF RtpInv, SendFull, RtpTypeOK
<1>2. /\ frameSize \in Nat \ {0} /\ Len(frame) \in Nat /\ nalu \in 1..Len(frame)
      /\ pktNum \in Nat /\ remainPktSize \in Nat
      /\ remainPktSize = frameSize - pktNum * RTP_MAX_PKT_SIZE
      /\ remainPktSize = 0 => pktNum >= 2
    <2>1. remainPktSize \in 0..(RTP_MAX_PKT_SIZE - 1)
        BY <1>1, SizeFacts
    <2> QED
        BY <1>1, <2>1, SizeFacts, LenProperties DEF RtpTypeOK, InFrame
<1>3. /\ pos = 1 + i * RTP_MAX_PKT_SIZE
      /\ i = 0 => pos = 1 /\ (sent # <<>> => Ends(Last(sent)))
      /\ i # 0 => /\ sent # <<>> /\ ~Ends(Last(sent))
                  /\ Last(sent).frame = frames
                  /\ Last(sent).nalu = nalu
                  /\ Last(sent).to = pos - 1
    <2>1. pos = 1 + i * RTP_MAX_PKT_SIZE
        BY DEF RtpInv, FragmentInv
    <2>2. i = 0 => pos = 1
        BY <1>1, <2>1
    <2> QED
        BY <1>1, <2>1, <2>2 DEF RtpInv, FragmentInv
<1>4. last => i # 0
    BY <1>1, <1>2
<1>5. /\ p.kind = FuHeader
      /\ p.from = pos
      /\ p.to = pos + RTP_MAX_PKT_SIZE - 1
      /\ p.length = frameSize
      /\ p.frame = frames /\ p.nalu = nalu
    BY DEF Packet
<1>6. /\ FuHeader \in Kinds /\ FuHeader # "single"
      /\ FuHeader = "start" <=> i = 0
      /\ FuHeader = "end" <=> last
    BY <1>4 DEF FuHeader, Kinds
<1>7. last => p.to = frameSize
    <2> DEFINE m == pktNum * RTP_MAX_PKT_SIZE
    <2>1. ASSUME last PROVE i * RTP_MAX_PKT_SIZE = m - RTP_MAX_PKT_SIZE
        BY <1>1, <1>2, <2>1
    <2>2. m \in Nat
        BY <1>1, <1>2
    <2>3. last => m = frameSize
        BY <1>2, <2>2
    <2> HIDE DEF m, p
    <2>4. ASSUME last PROVE p.to = 1 + (m - RTP_MAX_PKT_SIZE) + RTP_MAX_PKT_SIZE - 1
        BY <1>3, <1>5, <2>1, <2>4
    <2> QED
        BY <1>1, <2>2, <2>3, <2>4
<1> HIDE DEF p, last
<1>8. (Ends(p) <=> last) /\ (Begins(p) <=> i = 0)
    BY <1>5, <1>6 DEF Ends, Begins
<1>9. Fits(p)
    <2>1. Ends(p) => p.to >= p.length - 1
        BY <1>2, <1>5, <1>7, <1>8
    <2>2. i = 0 => p.from = 1 /\ p.kind = "start"
        BY <1>3, <1>5, <1>6
    <2>3. i # 0 => p.from = Last(sent).to + 1 /\ p.kind # "start" /\ p.kind # "single"
        BY <1>1, <1>3, <1>5, <1>6
    <2>4. Begins(p) <=> (sent # <<>> => Ends(Last(sent)))
        BY <1>3, <1>8
    <2>5. ~Begins(p) => p.frame = Last(sent).frame /\ p.nalu = Last(sent).nalu
        BY <1>3, <1>5, <1>8
    <2> QED
        BY <2>1, <2>2, <2>3, <2>4, <2>5 DEF Fits
<1>10. /\ SendRtpPacket(FuHeader, pos, RTP_MAX_PKT_SIZE)
       /\ UNCHANGED <<input, frame, mTimestamp, frames>>
       /\ \/ last /\ NextNalu
          \/ ~last /\ i' = i + 1 /\ pos' = NextPos /\ nalu' = nalu
    BY DEF SendFull, last
<1>11. i' \in Nat /\ pos' \in Nat /\ nalu' \in 1..(Len(frame) + 1)
    BY <1>1, <1>2, <1>10 DEF NextNalu, NextPos
<1>12. /\ RtpTypeOK' /\ Started' /\ StampInv' /\ Numbered' /\ Assembled'
       /\ sent' # <<>> /\ Last(sent') = p
    BY <1>1, <1>6, <1>9, <1>10, <1>11, SendKeeps DEF p
<1>13. FragmentInv'
    <2>1. CASE last
        BY <1>8, <1>10, <1>12, <2>1, NextFragment
    <2>2. CASE ~last
        <3>1. i + 1 = pktNum => remainPktSize > 0
            BY <1>1, <1>2, <2>2 DEF last
        <3> QED
            BY <1>1, <1>5, <1>8, <1>10, <1>12, <2>2, <3>1, NextFragment
    <2> QED
        BY <2>1, <2>2
<1> QED
    BY <1>12, <1>13 DEF RtpInv

\* Every step keeps it.
LEMMA RtpStep == RtpInv /\ [RtpNext]_rtpVars => RtpInv'
<1> SUFFICES ASSUME RtpInv, [RtpNext]_rtpVars PROVE RtpInv'
    OBVIOUS
<1>1. CASE UNCHANGED rtpVars
    BY <1>1 DEF rtpVars, RtpInv, RtpTypeOK, Started, FragmentInv, InFrame, frameSize, pktNum, remainPktSize,
                StampInv, Numbered, Consecutive, OneTimestampPerFrame, Assembled, Begins, Ends, Later
<1>2. ASSUME NEW parser \in {"utils", "capture"}, NEW nalus \in Encoded, HandleFrame(parser, nalus)
      PROVE  RtpInv'
    BY <1>2, HandleKeeps
<1> QED
    BY <1>1, <1>2, SingleKeeps, FullKeeps, RestKeeps, DoneKeeps DEF RtpNext

\* It always holds.
LEMMA RtpInvariance == RtpSpec => []RtpInv
    BY InitRtpInv, RtpStep, PTL DEF RtpSpec

\* Whatever the encoder writes, both parsers give frames, and handleFrame packets, of
\* their types: at most MaxNaluNum NALUs, none of them empty.
THEOREM PacketTypes == RtpSpec => []RtpTypeOK
<1>1. RtpInv => RtpTypeOK
    BY DEF RtpInv
<1> QED
    BY <1>1, RtpInvariance, PTL

\* mSeq and mTimestamp: consecutive packets have consecutive numbers modulo SeqWrap,
\* those of a frame one timestamp, those of the frame after it another one.
THEOREM PacketsAreNumbered == RtpSpec => []Numbered
<1>1. RtpInv => Numbered
    BY DEF RtpInv
<1> QED
    BY <1>1, RtpInvariance, PTL

\* With the invariant a receiver has whole NALUs.
LEMMA Reassembled == RtpInv => Reassembles
<1> SUFFICES ASSUME RtpInv PROVE Reassembles
    OBVIOUS
<1>1. nalu = 0 => i = 0
    BY DEF RtpInv, FragmentInv, InFrame, RtpTypeOK
<1>2. nalu = 0 /\ sent # <<>> => Ends(Last(sent))
    BY <1>1 DEF RtpInv, FragmentInv
<1>3. Assembled
    BY DEF RtpInv
<1> QED
    BY <1>2, <1>3 DEF Reassembles, Assembled

\* From the packets sent the receiver gets each NALU whole: its fragments begin with a
\* start and end with an end, follow each other without a gap and cover its bytes.
THEOREM NalusReassemble == RtpSpec => []Reassembles
    BY Reassembled, RtpInvariance, PTL

\* How far a packet may reach.
OneLate(p) ==
    /\ IF p.kind = "end" THEN p.to = p.length ELSE p.to < p.length
    /\ p.to - p.from < RTP_MAX_PKT_SIZE

\* Whole fragments up to the k-th are no longer than those up to the n-th.
LEMMA Multiples ==
    ASSUME NEW k \in Nat, NEW n \in Nat, NEW size \in Nat, k <= n
    PROVE  /\ k * size \in Nat /\ n * size \in Nat /\ k * size <= n * size
           /\ (k + 1) * size = k * size + size
<1>1. n = k + (n - k) /\ n - k \in Nat
    OBVIOUS
<1>2. n * size = k * size + (n - k) * size
    BY <1>1
<1>3. k * size \in Nat /\ (n - k) * size \in Nat /\ n * size \in Nat
    BY <1>1
<1>4. k * size <= n * size
    BY <1>2, <1>3
<1> QED
    BY <1>3, <1>4

\* What each of the three calls of sendRtpPacket sends.
LEMMA SentOneLate ==
    ASSUME RtpInv, RtpNext
    PROVE  UNCHANGED sent \/ \E p \in Packets : sent' = Append(sent, p) /\ OneLate(p)
<1>1. RtpTypeOK /\ Started /\ i \in Nat /\ pos \in Nat /\ RTP_MAX_PKT_SIZE \in Nat \ {0}
    BY RtpAssumption DEF RtpInv, RtpTypeOK
<1>2. ASSUME InFrame, NEW kind \in Kinds, NEW first \in Nat, NEW size \in Nat \ {0},
             SendRtpPacket(kind, first, size), size <= RTP_MAX_PKT_SIZE,
             IF kind = "end" THEN first + size - 1 = frameSize ELSE first + size - 1 < frameSize
      PROVE  \E p \in Packets : sent' = Append(sent, p) /\ OneLate(p)
    <2> DEFINE p == Packet(kind, first, size)
    <2>1. p \in Packets /\ sent' = Append(sent, p)
        BY <1>1, <1>2, PacketType DEF SendRtpPacket, Packet
    <2>2. p.kind = kind /\ p.from = first /\ p.to = first + size - 1 /\ p.length = frameSize
        BY DEF Packet
    <2> HIDE DEF p
    <2>3. p.to - p.from < RTP_MAX_PKT_SIZE
        BY <1>1, <1>2, <2>2
    <2> QED
        BY <1>2, <2>1, <2>2, <2>3 DEF OneLate
<1>3. CASE SendSingle
    <2>1. InFrame /\ frameSize <= RTP_MAX_PKT_SIZE /\ SendRtpPacket("single", 0, frameSize)
        BY <1>3 DEF SendSingle
    <2>2. frameSize \in Nat \ {0} /\ "single" \in Kinds /\ 0 + frameSize - 1 < frameSize
        BY <1>1, <2>1, SizeFacts DEF Kinds
    <2> QED
        BY <1>2, <2>1, <2>2
<1>4. CASE SendFull
    <2> DEFINE R == RTP_MAX_PKT_SIZE
    <2>1. /\ InFrame /\ i < pktNum /\ SendRtpPacket(FuHeader, pos, RTP_MAX_PKT_SIZE)
          /\ frameSize > RTP_MAX_PKT_SIZE
        BY <1>4 DEF SendFull
    <2>2. /\ frameSize \in Nat /\ pktNum \in Nat /\ remainPktSize \in Nat
          /\ remainPktSize = frameSize - pktNum * R
          /\ remainPktSize = 0 => pktNum >= 2
        <3>1. remainPktSize \in 0..(RTP_MAX_PKT_SIZE - 1)
            BY <1>1, <2>1, SizeFacts
        <3> QED
            BY <1>1, <2>1, <3>1, SizeFacts
    <2>3. pos = 1 + i * R
        BY DEF RtpInv, FragmentInv
    <2> HIDE DEF R
    <2>4. pos + R - 1 = (i + 1) * R /\ (i + 1) * R \in Nat
        BY <1>1, <2>3 DEF R
    <2>5. FuHeader \in Kinds /\ (FuHeader = "end" <=> remainPktSize = 0 /\ i = pktNum - 1)
        BY <1>1, <2>2 DEF FuHeader, Kinds
    <2>6. CASE remainPktSize = 0 /\ i = pktNum - 1
        <3>1. i + 1 = pktNum /\ (i + 1) * R = pktNum * R /\ pktNum * R = frameSize
            BY <1>1, <2>2, <2>4, <2>6
        <3> QED
            BY <1>1, <1>2, <2>1, <2>4, <2>5, <2>6, <3>1 DEF R
    <2>7. CASE ~(remainPktSize = 0 /\ i = pktNum - 1)
        <3>1. (i + 1) * R < frameSize
            <4> DEFINE a == (i + 1) * R
                       m == pktNum * R
            <4>1. a \in Nat /\ m \in Nat /\ a <= m /\ remainPktSize = frameSize - m
                BY <1>1, <2>1, <2>2, Multiples DEF R
            <4>2. CASE remainPktSize # 0
                <5> HIDE DEF a, m
                <5>1. a < frameSize
                    BY <2>2, <4>1, <4>2
                <5> QED
                    BY <5>1 DEF a
            <4>3. CASE remainPktSize = 0
                <5> DEFINE b == ((i + 1) + 1) * R
                <5>1. i + 1 \in Nat /\ (i + 1) + 1 \in Nat /\ (i + 1) + 1 <= pktNum
                    BY <1>1, <2>1, <2>2, <2>7, <4>3
                <5>2. b \in Nat /\ b <= m
                    BY <1>1, <2>2, <5>1, Multiples DEF R
                <5>3. b = a + R /\ R \in Nat \ {0}
                    BY <1>1, <2>2, <5>1, Multiples DEF R
                <5> HIDE DEF a, b, m
                <5>4. a < frameSize
                    BY <2>2, <4>1, <4>3, <5>2, <5>3
                <5> QED
                    BY <5>4 DEF a
            <4> QED
                BY <4>2, <4>3
        <3>2. FuHeader # "end" /\ pos + RTP_MAX_PKT_SIZE - 1 < frameSize
            BY <2>4, <2>5, <2>7, <3>1 DEF R
        <3>3. RTP_MAX_PKT_SIZE <= RTP_MAX_PKT_SIZE
            BY <1>1
        <3> QED
            BY <1>1, <1>2, <2>1, <2>5, <3>2, <3>3
    <2> QED
        BY <2>6, <2>7
<1>5. CASE SendRest
    <2>1. /\ InFrame
          /\ i = pktNum
          /\ remainPktSize > 0
          /\ SendRtpPacket("end", pos, remainPktSize)
          /\ frameSize > RTP_MAX_PKT_SIZE
        BY <1>5 DEF SendRest
    <2> DEFINE m == pktNum * RTP_MAX_PKT_SIZE
               r == remainPktSize
    <2>2. /\ frameSize \in Nat /\ pktNum \in Nat
          /\ r = frameSize - m /\ r \in 0..(RTP_MAX_PKT_SIZE - 1)
        BY <1>1, <2>1, SizeFacts
    <2>3. m \in Nat /\ pos = 1 + m
        BY <1>1, <2>1, <2>2 DEF RtpInv, FragmentInv
    <2>4. "end" \in Kinds
        BY DEF Kinds
    <2>5. SendRtpPacket("end", pos, r) /\ r > 0
        BY <2>1
    <2> HIDE DEF m, r
    <2>6. r \in Nat \ {0} /\ r <= RTP_MAX_PKT_SIZE /\ pos + r - 1 = frameSize
        BY <1>1, <2>2, <2>3, <2>5
    <2> QED
        BY <1>1, <1>2, <2>1, <2>4, <2>5, <2>6
<1> QED
    BY <1>3, <1>4, <1>5 DEF RtpNext, HandleFrame, FrameDone

\* Every NALU that is cut into fragments has one byte too many in its last one, and no
\* packet is larger than its buffer, whatever the sizes.
THEOREM FragmentsEndOneLate == RtpSpec => []EndsOneLate
<1>1. RtpInit => EndsOneLate
    BY DEF RtpInit, EndsOneLate, ToSet
<1>2. RtpInv /\ EndsOneLate /\ [RtpNext]_rtpVars => EndsOneLate'
    <2> SUFFICES ASSUME RtpInv, EndsOneLate, [RtpNext]_rtpVars PROVE EndsOneLate'
        OBVIOUS
    <2>1. CASE UNCHANGED sent
        BY <2>1 DEF EndsOneLate
    <2>2. CASE UNCHANGED rtpVars
        BY <2>1, <2>2 DEF rtpVars
    <2>3. ASSUME NEW p \in Packets, sent' = Append(sent, p), OneLate(p) PROVE EndsOneLate'
        <3>1. RtpTypeOK
            BY DEF RtpInv
        <3>2. \A q \in ToSet(sent') : q = p \/ q \in ToSet(sent)
            BY <2>3, <3>1, SentFacts
        <3> QED
            BY <2>3, <3>2 DEF EndsOneLate, OneLate
    <2> QED
        BY <2>1, <2>2, <2>3, SentOneLate
<1> QED
    BY <1>1, <1>2, RtpInvariance, PTL DEF RtpSpec

------------------------------------------------------------------------------
\* The abstract channel.

\* Some of the last packets sent are what a receiver puts together next.
GroupInv == sent # <<>> => \E a \in 1..Len(sent) : Coherent(sent, a, Len(sent))

\* The packets before the b-th stay as they are.
LEMMA CoherentKept ==
    ASSUME RtpTypeOK, NEW p \in Packets, sent' = Append(sent, p),
           NEW a \in 1..Len(sent), NEW b \in 1..Len(sent)
    PROVE  Coherent(sent', a, b) <=> Coherent(sent, a, b)
<1>1. /\ Len(sent) \in Nat
      /\ \A k \in 1..Len(sent) : sent'[k] = sent[k]
    BY SentFacts
<1>2. \A k \in (a + 1)..b : k \in 1..Len(sent) /\ k - 1 \in 1..Len(sent)
    BY <1>1
<1>3. /\ sent'[a] = sent[a]
      /\ \A k \in (a + 1)..b : sent'[k] = sent[k] /\ sent'[k - 1] = sent[k - 1]
    BY <1>1, <1>2
<1> QED
    BY <1>3 DEF Coherent

\* A packet more goes with those before it or begins anew.
LEMMA GroupStep ==
    ASSUME RtpInv, RtpInv', GroupInv, NEW p \in Packets, sent' = Append(sent, p)
    PROVE  \E a \in 1..Len(sent') : Coherent(sent', a, Len(sent'))
<1> DEFINE n == Len(sent')
<1>1. /\ RtpTypeOK
      /\ Len(sent) \in Nat /\ n = Len(sent) + 1
      /\ \A k \in 1..Len(sent) : sent'[k] = sent[k]
      /\ sent'[n] = p
    BY SentFacts DEF RtpInv
<1> HIDE DEF n
<1>2. n \in Nat \ {0} /\ n \in 1..n
    BY <1>1
<1>3. /\ p.from = CASE p.kind = "single" -> 0
                    [] p.kind = "start" -> 1
                    [] OTHER -> sent'[n - 1].to + 1
      /\ Begins(p) <=> (n > 1 => Ends(sent'[n - 1]))
      /\ ~Begins(p) => /\ p.frame = sent'[n - 1].frame
                       /\ p.nalu = sent'[n - 1].nalu
    <2>1. Assembled'
        BY DEF RtpInv
    <2> QED
        BY <1>1, <1>2, <2>1 DEF Assembled, Begins, Ends, n
<1>4. CASE Begins(p)
    <2>1. p.kind \in {"single", "start"}
        BY <1>4 DEF Begins
    <2>2. p.from = IF p.kind = "single" THEN 0 ELSE 1
        BY <1>3, <2>1
    <2>3. (n + 1)..n = {}
        BY <1>2
    <2>4. Coherent(sent', n, n)
        BY <1>1, <1>4, <2>2, <2>3 DEF Coherent
    <2> QED
        BY <1>2, <2>4 DEF n
<1>5. CASE ~Begins(p)
    <2>1. n > 1 /\ ~Ends(sent'[n - 1]) /\ p.kind # "single" /\ p.kind # "start"
        BY <1>3, <1>5 DEF Begins
    <2>2. sent # <<>> /\ Len(sent) = n - 1
        <3>1. Len(sent) = n - 1 /\ Len(sent) # 0
            BY <1>1, <1>2, <2>1
        <3>2. sent = <<>> => Len(sent) = 0
            BY <1>1, PacketsOf
        <3> QED
            BY <3>1, <3>2
    <2>3. PICK a \in 1..Len(sent) : Coherent(sent, a, Len(sent))
        BY <2>2 DEF GroupInv
    <2>4. Coherent(sent', a, n - 1) /\ a \in 1..(n - 1) /\ a \in 1..n
        <3>1. Len(sent) \in 1..Len(sent)
            BY <1>2, <2>1, <2>2
        <3>2. Coherent(sent', a, Len(sent))
            BY <1>1, <2>3, <3>1, CoherentKept
        <3> QED
            BY <1>2, <2>1, <2>2, <3>2
    <2>5. p.seq = (sent'[n - 1].seq + 1) % SeqWrap
        <3>1. Consecutive'
            BY DEF RtpInv, Numbered
        <3>2. n - 1 \in 1..(Len(sent') - 1) /\ (n - 1) + 1 = n
            BY <1>2, <2>1 DEF n
        <3>3. sent'[(n - 1) + 1].seq = (sent'[n - 1].seq + 1) % SeqWrap
            BY <3>1, <3>2 DEF Consecutive
        <3> QED
            BY <1>1, <3>2, <3>3
    <2>6. p.from = sent'[n - 1].to + 1
        BY <1>3, <2>1
    <2>7. ASSUME NEW k \in (a + 1)..n
          PROVE  /\ ~Begins(sent'[k]) /\ ~Ends(sent'[k - 1])
                 /\ sent'[k].frame = sent'[k - 1].frame /\ sent'[k].nalu = sent'[k - 1].nalu
                 /\ sent'[k].from = sent'[k - 1].to + 1
                 /\ sent'[k].seq = (sent'[k - 1].seq + 1) % SeqWrap
        <3>1. CASE k = n
            BY <1>1, <1>3, <1>5, <2>1, <2>5, <2>6, <3>1
        <3>2. CASE k # n
            <4>1. k \in (a + 1)..(n - 1)
                BY <1>2, <2>4, <3>2
            <4> QED
                BY <2>4, <4>1 DEF Coherent
        <3> QED
            BY <3>1, <3>2
    <2>8. Coherent(sent', a, n)
        <3>1. /\ Begins(sent'[a])
              /\ sent'[a].from = IF sent'[a].kind = "single" THEN 0 ELSE 1
            BY <2>4 DEF Coherent
        <3> QED
            BY <2>7, <3>1 DEF Coherent
    <2> QED
        BY <2>4, <2>8 DEF n
<1> QED
    BY <1>4, <1>5

\* The NALU of a packet, as the receiver has it.
Unit(p) == [frame |-> p.frame, nalu |-> p.nalu, length |-> p.length]

\* The packets up to the b-th make up a NALU, to its last byte.
Whole(q, b) == /\ Ends(q[b]) /\ q[b].to >= q[b].length - 1
               /\ \E a \in 1..b : Coherent(q, a, b)

\* The receiver has a NALU more when a packet ends one, and else none.
LEMMA ArrivedGrows ==
    ASSUME RtpInv, RtpInv', GroupInv, NEW p \in Packets, sent' = Append(sent, p)
    PROVE  Arrived(sent') = Arrived(sent) \cup (IF Ends(p) THEN {Unit(p)} ELSE {})
<1> DEFINE n == Len(sent')
<1>1. /\ RtpTypeOK
      /\ Len(sent) \in Nat /\ n = Len(sent) + 1
      /\ \A k \in 1..Len(sent) : sent'[k] = sent[k]
      /\ sent'[n] = p
    BY SentFacts DEF RtpInv
<1> HIDE DEF n
<1>2. n \in Nat \ {0} /\ n \in 1..n
    BY <1>1
<1>3. 1..n = 1..Len(sent) \cup {n}
    BY <1>1
<1>4. \A b \in 1..Len(sent) : Whole(sent', b) <=> Whole(sent, b)
    <2> TAKE b \in 1..Len(sent)
    <2>1. \A a \in 1..b : a \in 1..Len(sent)
        BY <1>1
    <2>2. \A a \in 1..b : Coherent(sent', a, b) <=> Coherent(sent, a, b)
        BY <1>1, <2>1, CoherentKept
    <2>3. sent'[b] = sent[b]
        BY <1>1
    <2> QED
        BY <2>2, <2>3 DEF Whole
<1>5. Whole(sent', n) <=> Ends(p)
    <2>1. \E a \in 1..n : Coherent(sent', a, n)
        BY GroupStep DEF n
    <2>2. Ends(p) => p.to >= p.length - 1
        <3>1. Assembled'
            BY DEF RtpInv
        <3> QED
            BY <1>1, <1>2, <3>1 DEF Assembled, Ends, n
    <2> QED
        BY <1>1, <2>1, <2>2 DEF Whole
<1>6. Arrived(sent) = {Unit(sent[b]) : b \in {b \in 1..Len(sent) : Whole(sent, b)}}
    BY DEF Arrived, Whole, Unit
<1>7. Arrived(sent') = {Unit(sent'[b]) : b \in {b \in 1..n : Whole(sent', b)}}
    BY DEF Arrived, Whole, Unit, n
<1>8. {b \in 1..n : Whole(sent', b)}
          = {b \in 1..Len(sent) : Whole(sent, b)} \cup (IF Ends(p) THEN {n} ELSE {})
    BY <1>3, <1>4, <1>5
<1>9. \A b \in {b \in 1..Len(sent) : Whole(sent, b)} : Unit(sent'[b]) = Unit(sent[b])
    BY <1>1
<1>10. Unit(sent'[n]) = Unit(p)
    BY <1>1
<1> QED
    BY <1>6, <1>7, <1>8, <1>9, <1>10

\* The sizes of the NALUs of a frame, as the abstract channel has them.
SizesOf(q) == [k \in DOMAIN q |-> q[k].size]

\* There is one for each NALU, and none is zero.
LEMMA SizesType ==
    ASSUME NEW q \in Seq([from : Nat, size : Nat \ {0}])
    PROVE  /\ SizesOf(q) \in Seq(Nat \ {0})
           /\ Len(SizesOf(q)) = Len(q) /\ Len(q) \in Nat
           /\ q = <<>> => SizesOf(q) = <<>>
           /\ \A k \in 1..Len(q) : SizesOf(q)[k] = q[k].size
<1>1. Len(q) \in Nat /\ DOMAIN q = 1..Len(q)
    BY LenProperties
<1>2. ASSUME NEW k \in 1..Len(q) PROVE q[k].size \in Nat \ {0}
    <2>1. q[k] \in [from : Nat, size : Nat \ {0}]
        BY <1>1, ElementOfSeq
    <2> QED
        BY <2>1
<1> DEFINE z == SizesOf(q)
<1>3. z = [k \in 1..Len(q) |-> q[k].size]
    BY <1>1 DEF SizesOf
<1> HIDE DEF z
<1>4. z \in Seq(Nat \ {0})
    BY <1>1, <1>2, <1>3, IsASeq
<1>5. Len(z) = Len(q)
    <2>1. 1..Len(z) = 1..Len(q) /\ Len(z) \in Nat
        BY <1>3, <1>4, LenProperties
    <2> DEFINE x == Len(z)
               y == Len(q)
    <2>2. x \in 1..x => x \in 1..y
        BY <2>1
    <2>3. y \in 1..y => y \in 1..x
        BY <2>1
    <2>4. x \in Nat /\ y \in Nat
        BY <1>1, <2>1
    <2> HIDE DEF x, y
    <2>5. x = y
        BY <2>2, <2>3, <2>4
    <2> QED
        BY <2>5 DEF x, y
<1>6. q = <<>> => z = <<>>
    <2>1. q = <<>> => Len(q) = 0
        BY EmptySeq
    <2> QED
        BY <1>4, <1>5, <2>1, EmptySeq
<1> QED
    BY <1>1, <1>3, <1>4, <1>5, <1>6 DEF z

\* No packets, no NALUs.
LEMMA ChannelInit == RtpInit => Channel!CInit /\ GroupInv
<1> SUFFICES ASSUME RtpInit PROVE Channel!CInit /\ GroupInv
    OBVIOUS
<1>1. sent = <<>> /\ frame = <<>> /\ nalu = 0 /\ frames = 0
    BY DEF RtpInit
<1>2. Len(sent) = 0 /\ 1..Len(sent) = {}
    BY <1>1, EmptySeq
<1>3. Arrived(sent) = {}
    BY <1>2 DEF Arrived
<1>4. SizesOf(frame) = <<>>
    BY <1>1, SizesType, EmptySeq
<1> QED
    BY <1>1, <1>3, <1>4 DEF Channel!CInit, GroupInv, SizesOf

\* GroupInv depends on sent only.
LEMMA GroupKept ==
    ASSUME RtpInv, RtpInv', GroupInv,
           UNCHANGED sent \/ \E p \in Packets : sent' = Append(sent, p)
    PROVE  GroupInv'
<1>1. CASE UNCHANGED sent
    BY <1>1 DEF GroupInv
<1>2. ASSUME NEW p \in Packets, sent' = Append(sent, p)
      PROVE  GroupInv'
    <2>1. \E a \in 1..Len(sent') : Coherent(sent', a, Len(sent'))
        BY <1>2, GroupStep
    <2> QED
        BY <2>1 DEF GroupInv
<1> QED
    BY <1>1, <1>2

\* A NALU that is sent to its end arrives.
LEMMA NaluArrives ==
    ASSUME RtpInv, RtpInv', GroupInv, InFrame,
           NEW kind \in Kinds, NEW first \in Nat, NEW size \in Nat \ {0},
           SendRtpPacket(kind, first, size),
           kind \in {"single", "end"}, nalu' = nalu + 1, UNCHANGED <<frame, frames>>
    PROVE  Channel!Arrive /\ GroupInv'
<1> DEFINE p == Packet(kind, first, size)
<1>1. RtpTypeOK /\ Started
    BY DEF RtpInv
<1>2. p \in Packets /\ sent' = Append(sent, p)
    BY <1>1, PacketType DEF SendRtpPacket, Packet
<1>3. p.kind = kind /\ p.frame = frames /\ p.nalu = nalu /\ p.length = frameSize
    BY DEF Packet
<1> HIDE DEF p
<1>4. Ends(p)
    BY <1>3 DEF Ends
<1>5. Arrived(sent') = Arrived(sent) \cup {Unit(p)}
    BY <1>2, <1>4, ArrivedGrows
<1>6. Len(SizesOf(frame)) = Len(frame) /\ Len(frame) \in Nat /\ SizesOf(frame)[nalu] = frameSize
    BY <1>1, SizesType DEF RtpTypeOK, InFrame, frameSize
<1>7. Unit(p) = [frame |-> frames, nalu |-> nalu, length |-> SizesOf(frame)[nalu]]
    BY <1>3, <1>6 DEF Unit
<1>8. nalu \in 1..Len(SizesOf(frame))
    BY <1>6 DEF InFrame
<1>9. SizesOf(frame') = SizesOf(frame)
    OBVIOUS
<1>10. GroupInv'
    BY <1>2, GroupKept
<1>11. Channel!Arrive
    BY <1>5, <1>7, <1>8, <1>9 DEF Channel!Arrive, SizesOf
<1> QED
    BY <1>10, <1>11

\* A fragment that does not end a NALU changes nothing of the channel.
LEMMA NaluGoesOn ==
    ASSUME RtpInv, RtpInv', GroupInv, InFrame,
           NEW kind \in Kinds, NEW first \in Nat, NEW size \in Nat \ {0},
           SendRtpPacket(kind, first, size),
           kind \notin {"single", "end"}, nalu' = nalu, UNCHANGED <<frame, frames>>
    PROVE  UNCHANGED Channel!cvars /\ GroupInv'
<1> DEFINE p == Packet(kind, first, size)
<1>1. RtpTypeOK /\ Started
    BY DEF RtpInv
<1>2. p \in Packets /\ sent' = Append(sent, p)
    BY <1>1, PacketType DEF SendRtpPacket, Packet
<1>3. p.kind = kind
    BY DEF Packet
<1> HIDE DEF p
<1>4. ~Ends(p)
    BY <1>3 DEF Ends
<1>5. Arrived(sent') = Arrived(sent)
    BY <1>2, <1>4, ArrivedGrows
<1>6. GroupInv'
    BY <1>2, GroupKept
<1> QED
    BY <1>5, <1>6 DEF Channel!cvars

\* Each step of the sink is one of the channel, or none.
LEMMA ChannelStep ==
    RtpInv /\ RtpInv' /\ GroupInv /\ [RtpNext]_rtpVars
        => [Channel!CNext]_(Channel!cvars) /\ GroupInv'
<1> SUFFICES ASSUME RtpInv, RtpInv', GroupInv, [RtpNext]_rtpVars
             PROVE  (Channel!CNext \/ UNCHANGED Channel!cvars) /\ GroupInv'
    OBVIOUS
<1>1. RtpTypeOK /\ RtpTypeOK' /\ RTP_MAX_PKT_SIZE \in Nat \ {0}
    BY RtpAssumption DEF RtpInv
<1>2. /\ Len(SizesOf(frame)) = Len(frame) /\ Len(frame) \in Nat
      /\ SizesOf(frame') \in Seq(Nat \ {0})
      /\ frame' = <<>> => SizesOf(frame') = <<>>
    <2>1. /\ frame \in Seq([from : Nat, size : Nat \ {0}])
          /\ frame' \in Seq([from : Nat, size : Nat \ {0}])
        BY <1>1 DEF RtpTypeOK
    <2> QED
        BY <2>1, SizesType
<1>3. CASE UNCHANGED rtpVars
    BY <1>3 DEF rtpVars, Channel!cvars, GroupInv
<1>4. ASSUME NEW parser \in {"utils", "capture"}, NEW nalus \in Encoded, HandleFrame(parser, nalus)
      PROVE  Channel!Accept /\ GroupInv'
    <2>1. /\ nalu = 0 /\ nalu' = 1 /\ frames' = frames + 1
          /\ UNCHANGED sent
        BY <1>4 DEF HandleFrame
    <2>2. GroupInv'
        BY <2>1, GroupKept
    <2>3. Arrived(sent)' = Arrived(sent)
        BY <2>1
    <2> QED
        BY <1>2, <2>1, <2>2, <2>3 DEF Channel!Accept, SizesOf
<1>5. CASE SendSingle
    <2>1. /\ InFrame /\ SendRtpPacket("single", 0, frameSize)
          /\ nalu' = nalu + 1 /\ UNCHANGED <<frame, frames>>
        BY <1>5 DEF SendSingle, NextNalu
    <2>2. frameSize \in Nat \ {0} /\ "single" \in Kinds /\ 0 \in Nat
        BY <1>1, <2>1, SizeFacts DEF Kinds
    <2> QED
        BY <2>1, <2>2, NaluArrives DEF Channel!CNext
<1>6. CASE SendFull
    <2>1. /\ InFrame /\ SendRtpPacket(FuHeader, pos, RTP_MAX_PKT_SIZE) /\ pos \in Nat
          /\ UNCHANGED <<frame, frames>>
          /\ frameSize > RTP_MAX_PKT_SIZE /\ i \in Nat
        BY <1>1, <1>6 DEF SendFull, RtpTypeOK
    <2>2. pktNum \in Nat /\ (remainPktSize = 0 => pktNum >= 2)
        BY <1>1, <2>1, SizeFacts
    <2>3. /\ FuHeader \in Kinds /\ FuHeader # "single"
          /\ (FuHeader = "end" <=> i = pktNum - 1 /\ remainPktSize = 0)
        BY <2>1, <2>2 DEF FuHeader, Kinds
    <2>4. CASE i = pktNum - 1 /\ remainPktSize = 0
        <3>1. nalu' = nalu + 1 /\ FuHeader \in {"single", "end"}
            BY <1>6, <2>3, <2>4 DEF SendFull, NextNalu
        <3> QED
            BY <1>1, <2>1, <2>3, <3>1, NaluArrives DEF Channel!CNext
    <2>5. CASE ~(i = pktNum - 1 /\ remainPktSize = 0)
        <3>1. nalu' = nalu /\ FuHeader \notin {"single", "end"}
            BY <1>6, <2>3, <2>5 DEF SendFull
        <3> QED
            BY <1>1, <2>1, <2>3, <3>1, NaluGoesOn
    <2> QED
        BY <2>4, <2>5
<1>7. CASE SendRest
    <2>1. /\ InFrame /\ SendRtpPacket("end", pos, remainPktSize) /\ pos \in Nat
          /\ nalu' = nalu + 1 /\ UNCHANGED <<frame, frames>>
          /\ remainPktSize > 0
        BY <1>1, <1>7 DEF SendRest, NextNalu, RtpTypeOK
    <2>2. remainPktSize \in 0..(RTP_MAX_PKT_SIZE - 1)
        BY <1>1, <2>1, SizeFacts
    <2>3. remainPktSize \in Nat \ {0} /\ "end" \in Kinds /\ "end" \in {"single", "end"}
        BY <1>1, <2>1, <2>2 DEF Kinds
    <2> QED
        BY <2>1, <2>3, NaluArrives DEF Channel!CNext
<1>8. CASE FrameDone
    <2>1. /\ nalu > Len(frame) /\ nalu' = 0 /\ frame' = <<>>
          /\ UNCHANGED <<frames, sent>>
        BY <1>8 DEF FrameDone
    <2>2. GroupInv'
        BY <2>1, GroupKept
    <2>3. Arrived(sent)' = Arrived(sent)
        BY <2>1
    <2>4. Channel!Finish
        BY <1>2, <2>1, <2>3 DEF Channel!Finish, SizesOf
    <2> QED
        BY <2>2, <2>4 DEF Channel!CNext
<1>9. (\E parser \in {"utils", "capture"}, nalus \in Encoded : HandleFrame(parser, nalus))
          => Channel!CNext /\ GroupInv'
    BY <1>4 DEF Channel!CNext
<1> QED
    BY <1>3, <1>5, <1>6, <1>7, <1>8, <1>9 DEF RtpNext

\* handleFrame and sendRtpPacket deliver, like the abstract channel, every NALU of a
\* frame once, whole and in its order, and end with a frame only when all are sent,
\* for every size of the NALUs and of the packets.
THEOREM SinkImplementsNaluChannel == RtpSpec => ImplementsNaluChannel
    BY RtpInvariance, ChannelInit, ChannelStep, PTL DEF RtpSpec, ImplementsNaluChannel, Channel!CSpec
------------------------------------------------------------------------------
\* Where everything is in a stream of which every start code has length bytes.

\* What was written stays where it is.
LEMMA Prefix ==
    ASSUME NEW nalus \in Seq(Written), NEW j \in 0..Len(nalus)
    PROVE  \A m \in j..Len(nalus) :
              /\ Len(Streams(nalus)[j]) <= Len(Streams(nalus)[m])
              /\ \A x \in 1..Len(Streams(nalus)[j]) : Streams(nalus)[m][x] = Streams(nalus)[j][x]
<1> DEFINE n == Len(nalus)
           S == Streams(nalus)
           Keeps(m) == /\ Len(S[j]) <= Len(S[m])
                       /\ \A x \in 1..Len(S[j]) : S[m][x] = S[j][x]
           T == {d \in Nat : j + d <= n => Keeps(j + d)}
<1>1. n \in Nat /\ j \in Nat /\ j <= n
    BY LenProperties
<1>2. /\ \A m \in 0..n : S[m] \in Seq(Nat) /\ Len(S[m]) \in Nat
      /\ \A m \in 1..n : S[m] = S[m - 1] \o (StartCode(nalus[m].code) \o nalus[m].bytes)
    BY StreamRounds, LenProperties
<1>3. \A m \in 1..n : StartCode(nalus[m].code) \o nalus[m].bytes \in Seq(Nat)
    BY PieceType
<1> HIDE DEF S, n
<1>4. 0 \in T
    <2>1. j + 0 = j /\ j \in 0..n
        BY <1>1
    <2>2. Len(S[j]) \in Nat
        BY <1>2, <2>1
    <2> QED
        BY <2>1, <2>2
<1>5. ASSUME NEW d \in Nat, d \in T PROVE d + 1 \in T
    <2>1. CASE j + (d + 1) <= n
        <3> DEFINE m == j + (d + 1)
                   x == StartCode(nalus[m].code) \o nalus[m].bytes
        <3>1. m \in 1..n /\ m - 1 = j + d /\ j + d <= n /\ m - 1 \in 0..n /\ j \in 0..n
            BY <1>1, <2>1
        <3>2. Keeps(m - 1)
            BY <1>5, <3>1
        <3>3. /\ S[m] = S[m - 1] \o x
              /\ x \in Seq(Nat)
              /\ S[m - 1] \in Seq(Nat)
              /\ Len(S[m - 1]) \in Nat
              /\ Len(S[j]) \in Nat
            BY <1>2, <1>3, <3>1
        <3> HIDE DEF x, m
        <3>4. /\ Len(x) \in Nat /\ Len(S[m]) = Len(S[m - 1]) + Len(x)
              /\ \A y \in 1..Len(S[m - 1]) : S[m][y] = S[m - 1][y]
            <4>1. Len(x) \in Nat
                BY <3>3, LenProperties
            <4>2. /\ Len(S[m]) = Len(S[m - 1]) + Len(x)
                  /\ \A y \in 1..(Len(S[m - 1]) + Len(x)) :
                        S[m][y] = IF y <= Len(S[m - 1]) THEN S[m - 1][y] ELSE x[y - Len(S[m - 1])]
                BY <3>3, ConcatProperties
            <4>3. \A y \in 1..Len(S[m - 1]) : y \in 1..(Len(S[m - 1]) + Len(x)) /\ y <= Len(S[m - 1])
                BY <3>3, <4>1
            <4> QED
                BY <4>1, <4>2, <4>3
        <3>5. Len(S[j]) <= Len(S[m])
            BY <3>2, <3>3, <3>4
        <3>6. ASSUME NEW y \in 1..Len(S[j]) PROVE S[m][y] = S[j][y]
            <4>1. y \in 1..Len(S[m - 1])
                BY <3>2, <3>3
            <4> QED
                BY <3>2, <3>4, <4>1
        <3> QED
            BY <3>5, <3>6 DEF m
    <2>2. CASE ~(j + (d + 1) <= n)
        BY <2>2
    <2> QED
        BY <2>1, <2>2
<1> HIDE DEF T
<1>6. \A d \in Nat : d \in T
    BY <1>4, <1>5, NatSet
<1>7. ASSUME NEW m \in j..n PROVE Keeps(m)
    <2>1. m - j \in Nat /\ j + (m - j) = m /\ m <= n
        BY <1>1
    <2>2. m - j \in T
        BY <1>6, <2>1
    <2> QED
        BY <2>1, <2>2 DEF T
<1> QED
    BY <1>7 DEF S, n

\* Each NALU lies between two start codes, and the last ends the stream.
LEMMA Layout ==
    ASSUME NEW nalus \in Seq(Written), NEW length \in {3, 4}, LegalStream(nalus, length)
    PROVE  /\ CodePos(nalus, 1) = 0
           /\ CodePos(nalus, Len(nalus) + 1) = Len(AnnexB(nalus))
           /\ \A j \in 1..(Len(nalus) + 1) : CodePos(nalus, j) \in Nat /\ CodePos(nalus, j) <= Len(AnnexB(nalus))
           /\ \A j \in 1..Len(nalus) :
                 /\ nalus[j].code = length
                 /\ Len(nalus[j].bytes) \in Nat \ {0}
                 /\ CodePos(nalus, j + 1) = CodePos(nalus, j) + length + Len(nalus[j].bytes)
                 /\ \A k \in 1..length : AnnexB(nalus)[CodePos(nalus, j) + k] = IF k = length THEN 1 ELSE 0
                 /\ \A k \in 1..Len(nalus[j].bytes) :
                       AnnexB(nalus)[CodePos(nalus, j) + length + k] = nalus[j].bytes[k]
<1> DEFINE n == Len(nalus)
           S == Streams(nalus)
<1>1. n \in Nat /\ n \in 0..n /\ DOMAIN nalus = 1..n
    BY LenProperties
<1>2. /\ \A m \in 0..n : S[m] \in Seq(Nat) /\ Len(S[m]) \in Nat
      /\ S[0] = <<>>
      /\ \A m \in 1..n : S[m] = S[m - 1] \o (StartCode(nalus[m].code) \o nalus[m].bytes)
    BY StreamRounds, LenProperties
<1>3. /\ \A j : CodePos(nalus, j) = Len(S[j - 1])
      /\ AnnexB(nalus) = S[n]
    BY DEF CodePos, AnnexB
<1>4. \A m \in 0..n : Len(S[m]) <= Len(S[n]) /\ \A x \in 1..Len(S[m]) : S[n][x] = S[m][x]
    <2> TAKE m \in 0..n
    <2>1. n \in m..n
        BY <1>1
    <2> QED
        BY <2>1, Prefix
<1> HIDE DEF S, n
<1>5. CodePos(nalus, 1) = 0
    <2>1. Len(S[0]) = 0
        BY <1>2, EmptySeq
    <2> QED
        BY <1>3, <2>1
<1>6. CodePos(nalus, n + 1) = Len(AnnexB(nalus))
    <2>1. (n + 1) - 1 = n
        BY <1>1
    <2> QED
        BY <1>3, <2>1
<1>7. ASSUME NEW j \in 1..(n + 1)
      PROVE  CodePos(nalus, j) \in Nat /\ CodePos(nalus, j) <= Len(AnnexB(nalus))
    <2>1. j - 1 \in 0..n
        BY <1>1
    <2> QED
        BY <1>2, <1>3, <1>4, <2>1
<1>8. ASSUME NEW j \in 1..n
      PROVE  /\ nalus[j].code = length
             /\ Len(nalus[j].bytes) \in Nat \ {0}
             /\ CodePos(nalus, j + 1) = CodePos(nalus, j) + length + Len(nalus[j].bytes)
             /\ \A k \in 1..length : AnnexB(nalus)[CodePos(nalus, j) + k] = IF k = length THEN 1 ELSE 0
             /\ \A k \in 1..Len(nalus[j].bytes) :
                   AnnexB(nalus)[CodePos(nalus, j) + length + k] = nalus[j].bytes[k]
    <2> DEFINE c == StartCode(length)
               b == nalus[j].bytes
               p == S[j - 1]
    <2>1. nalus[j].code = length /\ b # <<>> /\ b \in Seq(Nat)
        BY <1>1, PieceType DEF LegalStream, LegalNalu, n
    <2>2. /\ c \in Seq(Nat)
          /\ Len(c) = length
          /\ \A k \in 1..length : c[k] = IF k = length THEN 1 ELSE 0
        BY StartCodeFacts
    <2>3. j - 1 \in 0..n /\ j \in 0..n /\ (j + 1) - 1 = j
        BY <1>1
    <2>4. /\ p \in Seq(Nat)
          /\ Len(p) \in Nat
          /\ S[j] = p \o (c \o b)
          /\ CodePos(nalus, j) = Len(p)
          /\ CodePos(nalus, j + 1) = Len(S[j])
        BY <1>2, <1>3, <2>1, <2>3
    <2>5. Len(b) \in Nat \ {0}
        BY <2>1, EmptySeq
    <2> HIDE DEF c, b, p
    <2>6. /\ c \o b \in Seq(Nat) /\ Len(c \o b) = length + Len(b)
          /\ \A k \in 1..(length + Len(b)) : (c \o b)[k] = IF k <= length THEN c[k] ELSE b[k - length]
        BY <2>1, <2>2, ConcatProperties
    <2>7. /\ Len(S[j]) = Len(p) + (length + Len(b))
          /\ \A k \in 1..(Len(p) + (length + Len(b))) : S[j][k] = IF k <= Len(p) THEN p[k] ELSE (c \o b)[k - Len(p)]
        <3> DEFINE q == c \o b
        <3>1. q \in Seq(Nat) /\ Len(q) = length + Len(b) /\ S[j] = p \o q
            BY <2>4, <2>6
        <3> HIDE DEF q
        <3>2. /\ Len(S[j]) = Len(p) + Len(q)
              /\ \A k \in 1..(Len(p) + Len(q)) : S[j][k] = IF k <= Len(p) THEN p[k] ELSE q[k - Len(p)]
            <4>1. p \in Seq(Nat) /\ q \in Seq(Nat) /\ S[j] = p \o q
                BY <2>4, <3>1
            <4>2. /\ Len(p \o q) = Len(p) + Len(q)
                  /\ \A k \in 1..(Len(p) + Len(q)) : (p \o q)[k] = IF k <= Len(p) THEN p[k] ELSE q[k - Len(p)]
                BY <4>1, ConcatProperties
            <4> QED
                BY <4>1, <4>2
        <3> QED
            BY <3>1, <3>2 DEF q
    <2>8. ASSUME NEW k \in 1..(length + Len(b)) PROVE S[n][Len(p) + k] = (c \o b)[k]
        <3>1. /\ Len(p) + k \in 1..(Len(p) + (length + Len(b)))
              /\ ~(Len(p) + k <= Len(p))
              /\ (Len(p) + k) - Len(p) = k
            BY <2>4, <2>5
        <3>2. S[j][Len(p) + k] = (c \o b)[k]
            BY <2>7, <3>1
        <3>3. Len(p) + k \in 1..Len(S[j])
            BY <2>7, <3>1
        <3> QED
            BY <1>4, <2>3, <3>2, <3>3
    <2>9. ASSUME NEW k \in 1..length PROVE S[n][Len(p) + k] = IF k = length THEN 1 ELSE 0
        <3>1. k \in 1..(length + Len(b)) /\ k <= length
            BY <2>5
        <3> QED
            BY <2>2, <2>6, <2>8, <3>1
    <2>10. ASSUME NEW k \in 1..Len(b) PROVE S[n][Len(p) + length + k] = b[k]
        <3>1. /\ length + k \in 1..(length + Len(b))
              /\ ~(length + k <= length)
              /\ (length + k) - length = k
            BY <2>5
        <3>2. Len(p) + (length + k) = Len(p) + length + k
            BY <2>4
        <3>3. S[n][Len(p) + (length + k)] = b[k]
            BY <2>6, <2>8, <3>1
        <3> QED
            BY <3>2, <3>3
    <2>11. CodePos(nalus, j + 1) = CodePos(nalus, j) + length + Len(b)
        BY <2>4, <2>5, <2>7
    <2> QED
        BY <1>3, <2>1, <2>4, <2>5, <2>9, <2>10, <2>11 DEF b
<1> QED
    BY <1>5, <1>6, <1>7, <1>8 DEF n

\* The numbers among these facts, for one NALU.
LEMMA Places ==
    ASSUME NEW nalus \in Seq(Written), NEW length \in {3, 4}, LegalStream(nalus, length),
           NEW j \in 1..Len(nalus)
    PROVE  /\ length \in Nat
           /\ CodePos(nalus, j) \in Nat
           /\ CodePos(nalus, j + 1) \in Nat
           /\ Len(AnnexB(nalus)) \in Nat
           /\ CodePos(nalus, j + 1) <= Len(AnnexB(nalus))
           /\ Len(nalus[j].bytes) \in Nat \ {0}
           /\ CodePos(nalus, j + 1) = CodePos(nalus, j) + length + Len(nalus[j].bytes)
<1>1. Len(nalus) \in Nat /\ j \in 1..(Len(nalus) + 1) /\ j + 1 \in 1..(Len(nalus) + 1)
      /\ Len(nalus) + 1 \in 1..(Len(nalus) + 1)
    BY LenProperties
<1>2. /\ \A m \in 1..(Len(nalus) + 1) : CodePos(nalus, m) \in Nat /\ CodePos(nalus, m) <= Len(AnnexB(nalus))
      /\ CodePos(nalus, Len(nalus) + 1) = Len(AnnexB(nalus))
    BY Layout
<1>3. CodePos(nalus, j + 1) = CodePos(nalus, j) + length + Len(nalus[j].bytes)
    BY Layout
<1>4. Len(nalus[j].bytes) \in Nat \ {0}
    BY Layout
<1> QED
    BY <1>1, <1>2, <1>3, <1>4

\* The bytes of a start code, in the stream.
LEMMA CodeBytes ==
    ASSUME NEW nalus \in Seq(Written), NEW length \in {3, 4}, LegalStream(nalus, length),
           NEW j \in 1..Len(nalus), NEW k \in 1..length
    PROVE  AnnexB(nalus)[CodePos(nalus, j) + k] = IF k = length THEN 1 ELSE 0
    BY Layout

\* The bytes of a NALU, in the stream.
LEMMA NaluBytes ==
    ASSUME NEW nalus \in Seq(Written), NEW length \in {3, 4}, LegalStream(nalus, length),
           NEW j \in 1..Len(nalus), NEW k \in 1..Len(nalus[j].bytes)
    PROVE  AnnexB(nalus)[CodePos(nalus, j) + length + k] = nalus[j].bytes[k]
    BY Layout

\* Every start code that was written is one.
LEMMA CodeThere ==
    ASSUME NEW nalus \in Seq(Written), NEW length \in {3, 4}, LegalStream(nalus, length),
           NEW j \in 1..Len(nalus)
    PROVE  CodeAt(AnnexB(nalus), CodePos(nalus, j), length)
<1>2. \A k \in 1..length : AnnexB(nalus)[CodePos(nalus, j) + k] = IF k = length THEN 1 ELSE 0
    BY CodeBytes
<1>3. /\ length \in Nat /\ CodePos(nalus, j) \in Nat /\ Len(AnnexB(nalus)) \in Nat
      /\ CodePos(nalus, j + 1) <= Len(AnnexB(nalus)) /\ Len(nalus[j].bytes) \in Nat
      /\ CodePos(nalus, j + 1) = CodePos(nalus, j) + length + Len(nalus[j].bytes)
    BY Places
<1>4. CodePos(nalus, j) + length <= Len(AnnexB(nalus))
    BY <1>3
<1>5. \A k \in 1..length : StartCode(length)[k] = IF k = length THEN 1 ELSE 0
    BY StartCodeFacts
<1> QED
    BY <1>2, <1>4, <1>5 DEF CodeAt

\* No NALU ends with a zero or holds what might be a start code.
LEMMA BytesThere ==
    ASSUME NEW nalus \in Seq(Written), NEW length \in {3, 4}, LegalStream(nalus, length),
           NEW j \in 1..Len(nalus)
    PROVE  /\ AnnexB(nalus)[CodePos(nalus, j + 1)] # 0
           /\ \A k \in 1..(Len(nalus[j].bytes) - 2) :
                 ~ /\ AnnexB(nalus)[CodePos(nalus, j) + length + k] = 0
                   /\ AnnexB(nalus)[CodePos(nalus, j) + length + k + 1] = 0
                   /\ AnnexB(nalus)[CodePos(nalus, j) + length + k + 2] \in {0, 1}
<1> DEFINE data == AnnexB(nalus)
           c == CodePos(nalus, j)
           b == nalus[j].bytes
<1>1. DOMAIN nalus = 1..Len(nalus)
    BY LenProperties
<1>2. /\ length \in Nat
      /\ c \in Nat
      /\ Len(b) \in Nat \ {0}
      /\ CodePos(nalus, j + 1) = c + length + Len(b)
    BY Places
<1>3. \A k \in 1..Len(b) : data[c + length + k] = b[k]
    BY NaluBytes
<1>4. LegalNalu(b)
    BY <1>1 DEF LegalStream
<1> HIDE DEF data, c, b
<1>5. data[c + length + Len(b)] # 0
    <2>1. Len(b) \in 1..Len(b)
        BY <1>2
    <2> QED
        BY <1>3, <1>4, <2>1 DEF LegalNalu
<1>6. ASSUME NEW k \in 1..(Len(b) - 2)
      PROVE  ~(data[c + length + k] = 0 /\ data[c + length + k + 1] = 0 /\ data[c + length + k + 2] \in {0, 1})
    <2>1. k \in 1..Len(b) /\ k + 1 \in 1..Len(b) /\ k + 2 \in 1..Len(b)
        BY <1>2
    <2>2. c + length + (k + 1) = c + length + k + 1 /\ c + length + (k + 2) = c + length + k + 2
        BY <1>2
    <2>3. /\ data[c + length + k] = b[k]
          /\ data[c + length + k + 1] = b[k + 1]
          /\ data[c + length + k + 2] = b[k + 2]
        BY <1>3, <2>1, <2>2
    <2> QED
        BY <1>4, <2>3 DEF LegalNalu
<1> QED
    BY <1>2, <1>5, <1>6 DEF data, c, b

\* Nowhere else in the stream is a start code.
LEMMA NoCode ==
    ASSUME NEW nalus \in Seq(Written), NEW length \in {3, 4}, LegalStream(nalus, length),
           NEW j \in 1..Len(nalus), NEW p \in Nat,
           CodePos(nalus, j) < p, p < CodePos(nalus, j + 1)
    PROVE  ~CodeAt(AnnexB(nalus), p, length)
<1> DEFINE data == AnnexB(nalus)
           c == CodePos(nalus, j)
           e == CodePos(nalus, j + 1)
           b == nalus[j].bytes
<1>1. length \in Nat /\ c \in Nat /\ Len(b) \in Nat \ {0} /\ e = c + length + Len(b)
    BY Places
<1>2. length \in 1..length /\ data[c + length] = 1
    BY CodeBytes
<1>3. /\ data[e] # 0
      /\ \A k \in 1..(Len(b) - 2) :
            ~(data[c + length + k] = 0 /\ data[c + length + k + 1] = 0 /\ data[c + length + k + 2] \in {0, 1})
    BY BytesThere
<1>4. c < p /\ p < e
    OBVIOUS
<1> HIDE DEF data, c, e, b
<1> SUFFICES ASSUME CodeAt(data, p, length) PROVE FALSE
    BY DEF data
<1>5. \A k \in 1..length : data[p + k] = IF k = length THEN 1 ELSE 0
    BY StartCodeFacts DEF CodeAt
<1>6. CASE p < c + length
    <2> DEFINE k == c + length - p
    <2>1. k \in 1..length /\ k # length /\ p + k = c + length
        BY <1>1, <1>4, <1>6
    <2>2. data[p + k] = 0
        BY <1>5, <2>1
    <2>3. data[c + length] = 1
        BY <1>2
    <2> QED
        BY <2>1, <2>2, <2>3
<1>7. CASE p >= c + length /\ p + length > e
    <2> DEFINE k == e - p
    <2>1. k \in 1..length /\ k # length /\ p + k = e
        BY <1>1, <1>4, <1>7
    <2> QED
        BY <1>3, <1>5, <2>1
<1>8. CASE p >= c + length /\ p + length <= e
    <2> DEFINE k == p - c - length + 1
    <2>1. /\ k \in 1..(Len(b) - 2)
          /\ c + length + k = p + 1 /\ c + length + k + 1 = p + 2 /\ c + length + k + 2 = p + 3
        BY <1>1, <1>4, <1>8
    <2>2. data[p + 1] = 0 /\ data[p + 2] = 0 /\ data[p + 3] \in {0, 1}
        BY <1>5
    <2> QED
        BY <1>3, <2>1, <2>2
<1> QED
    BY <1>1, <1>6, <1>7, <1>8

\* The loop of Utils never jumps over a start code.
LEMMA NoOvershoot ==
    ASSUME NEW nalus \in Seq(Written), LegalStream(nalus, 4),
           NEW j \in 1..Len(nalus), NEW p \in Nat,
           CodePos(nalus, j) + 4 <= p, p < CodePos(nalus, j + 1)
    PROVE  Advance(AnnexB(nalus), p) \in 1..4 /\ p + Advance(AnnexB(nalus), p) <= CodePos(nalus, j + 1)
<1> DEFINE data == AnnexB(nalus)
           e == CodePos(nalus, j + 1)
<1>1. e \in Nat /\ data[e] # 0
    BY Places, BytesThere
<1>2. p < e
    OBVIOUS
<1> HIDE DEF data, e
<1> SUFFICES Advance(data, p) \in 1..4 /\ p + Advance(data, p) <= e
    BY DEF data, e
<1>3. Advance(data, p) \in 1..4
    BY DEF Advance
<1>4. CASE e - p >= 4
    BY <1>1, <1>2, <1>3, <1>4
<1>5. CASE e - p < 4
    <2>1. e = p + 1 \/ e = p + 2 \/ e = p + 3
        BY <1>1, <1>2, <1>5
    <2>2. CASE e = p + 1
        BY <1>1, <2>2 DEF Advance
    <2>3. CASE e = p + 2
        BY <1>1, <2>3 DEF Advance
    <2>4. CASE e = p + 3
        BY <1>1, <2>4 DEF Advance
    <2> QED
        BY <1>3, <2>1, <2>2, <2>3, <2>4
<1> QED
    BY <1>1, <1>3, <1>4, <1>5
------------------------------------------------------------------------------
\* What the parsers take.

\* The NALUs that are not too long are numbered from 1 by their rank.
LEMMA Ranks ==
    ASSUME NEW nalus \in Seq(Written)
    PROVE  /\ Rank(nalus, 0) = 0
           /\ \A m \in 0..Len(nalus) : Rank(nalus, m) \in Nat
           /\ \A m \in 1..Len(nalus) :
                 Rank(nalus, m) = IF m \in Kept(nalus) THEN Rank(nalus, m - 1) + 1 ELSE Rank(nalus, m - 1)
           /\ \A m \in 0..Len(nalus), j \in Kept(nalus) : j <= m => Rank(nalus, j) \in 1..Rank(nalus, m)
           /\ Rank(nalus, Len(nalus)) = Cardinality(Kept(nalus))
<1> DEFINE n == Len(nalus)
           K == Kept(nalus)
           Upto == [m \in Int |-> {k \in K : k <= m}]
<1>1. n \in Nat /\ K \subseteq 1..n
    BY LenProperties DEF Kept
<1>2. \A m \in Int : Rank(nalus, m) = Cardinality(Upto[m])
    BY DEF Rank
<1> HIDE DEF n, K
<1>3. \A m \in Int : \A k : k \in Upto[m] <=> k \in K /\ k <= m
    OBVIOUS
<1> HIDE DEF Upto
<1>4. \A m \in Int : IsFiniteSet(Upto[m]) /\ Cardinality(Upto[m]) \in Nat
    <2> TAKE m \in Int
    <2>1. IsFiniteSet(1..n)
        BY <1>1, FS_Interval
    <2>2. Upto[m] \in SUBSET (1..n)
        BY <1>1, <1>3
    <2> QED
        BY <2>1, <2>2, FS_Subset, FS_CardinalityType
<1>5. Cardinality(Upto[0]) = 0
    <2>1. \A k \in K : ~(k <= 0)
        BY <1>1
    <2>2. 0 \in Int
        OBVIOUS
    <2>3. \A k : k \notin Upto[0]
        BY <1>3, <2>1, <2>2
    <2>4. Upto[0] = {}
        BY <2>3
    <2> QED
        BY <2>4, FS_EmptySet
<1>6. ASSUME NEW m \in 1..n
      PROVE  Cardinality(Upto[m]) = IF m \in K THEN Cardinality(Upto[m - 1]) + 1 ELSE Cardinality(Upto[m - 1])
    <2>1. m \in Int /\ m - 1 \in Int
        BY <1>1
    <2>2. m \notin Upto[m - 1] /\ IsFiniteSet(Upto[m - 1])
        BY <1>3, <1>4, <2>1
    <2>3. \A k \in K : k <= m <=> k <= m - 1 \/ k = m
        <3>1. \A k \in K : k \in Int
            BY <1>1
        <3> QED
            BY <2>1, <3>1
    <2>4. CASE m \in K
        <3>1. Upto[m] = Upto[m - 1] \cup {m}
            BY <1>3, <2>1, <2>3, <2>4
        <3> QED
            BY <2>2, <2>4, <3>1, FS_AddElement
    <2>5. CASE m \notin K
        <3>1. Upto[m] = Upto[m - 1]
            BY <1>3, <2>1, <2>3, <2>5
        <3> QED
            BY <2>5, <3>1
    <2> QED
        BY <2>4, <2>5
<1>7. ASSUME NEW m \in 0..n, NEW j \in K, j <= m
      PROVE  Cardinality(Upto[j]) \in 1..Cardinality(Upto[m])
    <2>1. m \in Int /\ j \in Int /\ \A k \in K : k \in Int
        BY <1>1
    <2>2. j \in Upto[j] /\ Upto[j] \in SUBSET Upto[m]
        <3>1. \A k \in K : k <= j => k <= m
            BY <1>7, <2>1
        <3>2. j <= j
            BY <2>1
        <3> QED
            BY <1>3, <2>1, <3>1, <3>2
    <2>3. /\ Cardinality(Upto[j]) <= Cardinality(Upto[m])
          /\ Cardinality(Upto[j]) \in Nat
          /\ Cardinality(Upto[m]) \in Nat
          /\ IsFiniteSet(Upto[j])
        BY <1>4, <2>1, <2>2, FS_Subset
    <2>4. Cardinality(Upto[j]) # 0
        BY <2>2, <2>3, FS_EmptySet
    <2> QED
        BY <2>3, <2>4
<1>8. Upto[n] = K
    <2>1. n \in Int /\ \A k \in K : k <= n
        BY <1>1
    <2> QED
        BY <1>3, <2>1
<1>9. /\ \A m \in 0..n : m \in Int
      /\ \A m \in 1..n : m \in Int /\ m - 1 \in Int
      /\ \A j \in K : j \in Int
      /\ n \in Int
    BY <1>1
<1>10. Rank(nalus, 0) = 0
    BY <1>2, <1>5
<1>11. \A m \in 0..n : Rank(nalus, m) \in Nat
    BY <1>2, <1>4, <1>9
<1>12. \A m \in 1..n : Rank(nalus, m) = IF m \in K THEN Rank(nalus, m - 1) + 1 ELSE Rank(nalus, m - 1)
    BY <1>2, <1>6, <1>9
<1>13. \A m \in 0..n, j \in K : j <= m => Rank(nalus, j) \in 1..Rank(nalus, m)
    BY <1>2, <1>7, <1>9
<1>14. Rank(nalus, n) = Cardinality(K)
    BY <1>2, <1>8, <1>9
<1> QED
    BY <1>10, <1>11, <1>12, <1>13, <1>14 DEF n, K

\* q holds those of the first m NALUs that it has room for; of the m-th, size bytes.
Gathered(nalus, q, m, size) ==
    /\ q \in Nalus
    /\ Len(q) = Room(Rank(nalus, m))
    /\ \A j \in Kept(nalus) : j <= m /\ Rank(nalus, j) <= MaxNaluNum =>
          q[Rank(nalus, j)] = [from |-> FirstByte(nalus, j),
                               size |-> IF j = m THEN size ELSE Len(nalus[j].bytes)]

\* What the loop takes of the m-th NALU once it has found its end.
SizeOf(nalus, m) == IF m = 0 THEN 0 ELSE Len(nalus[m].bytes)

\* Before the first NALU there is none.
LEMMA GatheredNone ==
    ASSUME NEW nalus \in Seq(Written)
    PROVE  Gathered(nalus, <<>>, 0, 0)
<1>1. <<>> \in Nalus /\ Len(<<>>) = 0
    BY EmptySeq, ParserAssumption DEF Nalus
<1>2. \A j \in Kept(nalus) : ~(j <= 0)
    BY LenProperties DEF Kept
<1>3. Room(Rank(nalus, 0)) = 0
    BY Ranks, ParserAssumption DEF Room
<1> QED
    BY <1>1, <1>2, <1>3 DEF Gathered

\* Taking the next NALU, if it is not too long, goes on so.
LEMMA TakeNext ==
    ASSUME NEW nalus \in Seq(Written), NEW m \in 1..Len(nalus), NEW q,
           Gathered(nalus, q, m - 1, SizeOf(nalus, m - 1)), FirstByte(nalus, m) \in Nat,
           NEW size \in Nat \ {0}, NEW limit \in Nat, size <= limit <=> m \in Kept(nalus)
    PROVE  Gathered(nalus, Take(q, FirstByte(nalus, m), size, limit), m, size)
<1> DEFINE r == Take(q, FirstByte(nalus, m), size, limit)
           N == [from : Nat, size : Nat \ {0}]
           x == [from |-> FirstByte(nalus, m), size |-> size]
<1>1. /\ q \in Nalus /\ Len(q) = Room(Rank(nalus, m - 1))
      /\ q \in Seq(N) /\ Len(q) \in Nat
      /\ \A j \in Kept(nalus) : j <= m - 1 /\ Rank(nalus, j) <= MaxNaluNum =>
            q[Rank(nalus, j)] = [from |-> FirstByte(nalus, j), size |-> Len(nalus[j].bytes)]
    <2>1. q \in Seq(N)
        BY DEF Gathered, Nalus
    <2>2. \A j \in Kept(nalus) : j # 0
        BY LenProperties DEF Kept
    <2> QED
        BY <2>1, <2>2, LenProperties DEF Gathered, SizeOf
<1>2. /\ m \in Nat /\ m - 1 \in 0..Len(nalus) /\ m \in 0..Len(nalus)
      /\ Kept(nalus) \subseteq 1..Len(nalus)
    BY LenProperties DEF Kept
<1>3. /\ Rank(nalus, m) \in Nat /\ Rank(nalus, m - 1) \in Nat
      /\ Rank(nalus, m) = IF m \in Kept(nalus) THEN Rank(nalus, m - 1) + 1 ELSE Rank(nalus, m - 1)
      /\ \A j \in Kept(nalus) : j <= m - 1 => Rank(nalus, j) \in 1..Rank(nalus, m - 1)
    BY <1>2, Ranks
<1>4. r \in Nalus
    BY <1>1, TakeType
<1>5. x \in N
    OBVIOUS
<1> HIDE DEF N, x
<1>6. \A j \in Kept(nalus) : j <= m => j <= m - 1 \/ j = m
    BY <1>2
<1>7. CASE m \in Kept(nalus) /\ Rank(nalus, m - 1) < MaxNaluNum
    <2>1. Len(q) = Rank(nalus, m - 1) /\ Len(q) < MaxNaluNum /\ Rank(nalus, m) = Len(q) + 1
        BY <1>1, <1>3, <1>7 DEF Room
    <2>2. r = Append(q, x)
        BY <1>7, <2>1 DEF Take, x
    <2> HIDE DEF r
    <2>3. /\ Len(r) = Len(q) + 1 /\ r[Len(q) + 1] = x
          /\ \A k \in 1..Len(q) : r[k] = q[k]
        BY <1>1, <1>5, <2>2, AppendProperties
    <2>4. Len(r) = Room(Rank(nalus, m))
        BY <1>1, <2>1, <2>3, ParserAssumption DEF Room
    <2>5. ASSUME NEW j \in Kept(nalus), j <= m /\ Rank(nalus, j) <= MaxNaluNum
          PROVE  r[Rank(nalus, j)] = [from |-> FirstByte(nalus, j),
                                      size |-> IF j = m THEN size ELSE Len(nalus[j].bytes)]
        <3>1. CASE j = m
            BY <2>1, <2>3, <3>1 DEF x
        <3>2. CASE j # m
            <4>1. j <= m - 1 /\ Rank(nalus, j) \in 1..Len(q)
                BY <1>3, <1>6, <2>1, <2>5, <3>2
            <4> QED
                BY <1>1, <2>3, <2>5, <3>2, <4>1
        <3> QED
            BY <3>1, <3>2
    <2> QED
        BY <1>4, <2>4, <2>5 DEF Gathered, r
<1>8. CASE ~(m \in Kept(nalus) /\ Rank(nalus, m - 1) < MaxNaluNum)
    <2>1. r = q
        BY <1>1, <1>3, <1>8, ParserAssumption DEF Take, Room
    <2>2. Room(Rank(nalus, m)) = Room(Rank(nalus, m - 1))
        BY <1>3, <1>8, ParserAssumption DEF Room
    <2>3. ASSUME NEW j \in Kept(nalus), j <= m /\ Rank(nalus, j) <= MaxNaluNum
          PROVE  j # m /\ j <= m - 1
        BY <1>3, <1>6, <1>8, <2>3, ParserAssumption
    <2> HIDE DEF r
    <2> QED
        BY <1>1, <2>1, <2>2, <2>3 DEF Gathered, r
<1> QED
    BY <1>7, <1>8

\* The loop s stands behind the m-th start code, past bytes from where it begins or
\* further on, and has taken what there is room for of the NALUs before.
Behind(nalus, s, m, past) ==
    /\ m \in 1..Len(nalus)
    /\ s.before = CodePos(nalus, m)
    /\ CodePos(nalus, m) + past <= s.i
    /\ s.i <= CodePos(nalus, m + 1)
    /\ Gathered(nalus, s.nalus, m - 1, SizeOf(nalus, m - 1))

\* Of the m-th NALU both loops know where it begins and how long it is.
LEMMA NextTaken ==
    ASSUME NEW nalus \in Seq(Written), NEW length \in {3, 4}, LegalStream(nalus, length),
           NEW m \in 1..Len(nalus), NEW q, Gathered(nalus, q, m - 1, SizeOf(nalus, m - 1)),
           NEW size \in Int, size = Len(nalus[m].bytes)
    PROVE  Gathered(nalus, Take(q, CodePos(nalus, m) + length, size, MaxNaluSize), m, SizeOf(nalus, m))
<1>1. size \in Nat \ {0} /\ CodePos(nalus, m) + length \in Nat /\ m # 0
    BY Places
<1>2. FirstByte(nalus, m) = CodePos(nalus, m) + length
    BY Layout DEF FirstByte
<1>3. size <= MaxNaluSize <=> m \in Kept(nalus)
    BY LenProperties DEF Kept
<1>4. SizeOf(nalus, m) = size
    BY <1>1 DEF SizeOf
<1> QED
    BY <1>1, <1>2, <1>3, <1>4, TakeNext, ParserAssumption

\* A round of the loop of Utils stays behind a start code: at the next one it finds it,
\* and otherwise it does not pass it.
LEMMA UtilsStepBehind ==
    ASSUME NEW nalus \in Seq(Written), LegalStream(nalus, 4), NEW s \in Loop,
           NEW m \in 1..Len(nalus), Behind(nalus, s, m, 4)
    PROVE  /\ \E k \in 1..Len(nalus) : Behind(nalus, UtilsStep(AnnexB(nalus), s), k, 4)
           /\ \/ UtilsStep(AnnexB(nalus), s).i > s.i
              \/ UtilsStep(AnnexB(nalus), s) = s /\ s.i + 4 > Len(AnnexB(nalus))
<1> DEFINE data == AnnexB(nalus)
           t == UtilsStep(data, s)
           c == CodePos(nalus, m)
           e == CodePos(nalus, m + 1)
           b == Len(nalus[m].bytes)
           p == s.i
           n == Len(nalus)
           l == Len(data)
<1>1. /\ c \in Nat /\ e \in Nat /\ l \in Nat /\ e <= l
      /\ b \in Nat \ {0} /\ e = c + 4 + b
    BY Places
<1>2. p \in Nat /\ c + 4 <= p /\ p <= e
    BY DEF Loop, Behind
<1>3. /\ s.nalus \in Nalus /\ mNaluOffset = 4 /\ s.before = c
      /\ Gathered(nalus, s.nalus, m - 1, SizeOf(nalus, m - 1))
    BY ParserAssumption DEF Loop, Behind
<1>4. n \in Nat /\ (m = n => e = l)
    BY LenProperties, Layout
<1> HIDE DEF data, c, e, b, p, l, n
<1>5. CASE p + 4 > l
    <2>1. t = s
        BY <1>3, <1>5 DEF UtilsStep, p, l
    <2> QED
        BY <1>5, <2>1 DEF data, p, l
<1>6. CASE p + 4 <= l /\ p = e
    <2>1. m + 1 \in 1..n /\ (m + 1) - 1 = m
        <3>1. m # n
            BY <1>1, <1>4, <1>6
        <3>2. m \in 1..n
            BY DEF n
        <3> QED
            BY <1>4, <3>1, <3>2
    <2>2. CodeAt(data, p, 4)
        BY <1>6, <2>1, CodeThere DEF e, data, n
    <2>3. t = [i |-> p + 4, before |-> p, nalus |-> Take(s.nalus, c + 4, p - c - 4, MaxNaluSize)]
        <3>1. ~(p + 4 > l)
            BY <1>1, <1>2, <1>6
        <3> QED
            BY <1>3, <2>2, <3>1 DEF UtilsStep, p, l
    <2>4. Gathered(nalus, t.nalus, m, SizeOf(nalus, m))
        <3> DEFINE size == p - c - 4
        <3>1. size \in Int /\ size = b
            BY <1>1, <1>2, <1>6
        <3> HIDE DEF size
        <3>2. Gathered(nalus, Take(s.nalus, c + 4, size, MaxNaluSize), m, SizeOf(nalus, m))
            BY <1>3, <3>1, NextTaken DEF c, b
        <3> QED
            BY <2>3, <3>2 DEF size
    <2>5. e + 4 <= CodePos(nalus, (m + 1) + 1)
        <3> DEFINE f == CodePos(nalus, (m + 1) + 1)
                   g == Len(nalus[m + 1].bytes)
        <3>1. f \in Nat /\ g \in Nat /\ f = e + 4 + g
            BY <2>1, Places DEF e, n
        <3> HIDE DEF f, g
        <3>2. e + 4 <= f
            BY <1>1, <3>1
        <3> QED
            BY <3>2 DEF f
    <2>6. t.before = e /\ t.i = e + 4 /\ t.i > p
        BY <1>1, <1>6, <2>3
    <2>7. Behind(nalus, t, m + 1, 4)
        <3> HIDE DEF t
        <3>1. e + 4 <= t.i /\ t.i <= CodePos(nalus, (m + 1) + 1)
            BY <1>1, <2>5, <2>6
        <3> QED
            BY <2>1, <2>4, <2>6, <3>1 DEF Behind, e, n
    <2> QED
        BY <2>1, <2>6, <2>7 DEF data, p, n
<1>7. CASE p + 4 <= l /\ p # e
    <2>1. p < e /\ c < p /\ c + 4 <= p
        BY <1>1, <1>2, <1>7
    <2>2. ~CodeAt(data, p, 4)
        BY <1>2, <2>1, NoCode DEF c, e, data
    <2>3. Advance(data, p) \in 1..4 /\ p + Advance(data, p) <= e
        BY <1>2, <2>1, NoOvershoot DEF c, e, data
    <2>4. t.i = p + Advance(data, p) /\ t.before = s.before /\ t.nalus = s.nalus
        <3>1. ~(p + 4 > l)
            BY <1>1, <1>2, <1>7
        <3> QED
            BY <1>3, <2>2, <3>1 DEF UtilsStep, Loop, p, l
    <2> HIDE DEF t
    <2>5. t.i > p /\ t.i <= e /\ c + 4 <= t.i
        <3> DEFINE a == Advance(data, p)
        <3>1. a \in 1..4 /\ p + a <= e /\ t.i = p + a
            BY <2>3, <2>4
        <3> HIDE DEF a
        <3> QED
            BY <1>1, <1>2, <3>1
    <2>6. Behind(nalus, t, m, 4)
        BY <1>3, <2>4, <2>5 DEF Behind, c, e
    <2> QED
        BY <2>5, <2>6 DEF data, t, p
<1> QED
    BY <1>1, <1>2, <1>5, <1>6, <1>7

\* A round of the capture's loop does so too.
LEMMA CaptureStepBehind ==
    ASSUME NEW nalus \in Seq(Written), NEW length \in {3, 4}, LegalStream(nalus, length),
           NEW s \in Loop, NEW m \in 1..Len(nalus), Behind(nalus, s, m, 1),
           s.i + length <= Len(AnnexB(nalus)) + 1
    PROVE  /\ \E k \in 1..Len(nalus) : Behind(nalus, CaptureStep(AnnexB(nalus), length, s), k, 1)
           /\ CaptureStep(AnnexB(nalus), length, s).i + length <= Len(AnnexB(nalus)) + 1
           /\ \/ CaptureStep(AnnexB(nalus), length, s).i > s.i
              \/ CaptureStep(AnnexB(nalus), length, s) = s /\ s.i + length > Len(AnnexB(nalus))
<1> DEFINE data == AnnexB(nalus)
           t == CaptureStep(data, length, s)
           c == CodePos(nalus, m)
           e == CodePos(nalus, m + 1)
           b == Len(nalus[m].bytes)
           p == s.i
           n == Len(nalus)
           l == Len(data)
<1>1. /\ c \in Nat /\ e \in Nat /\ l \in Nat /\ e <= l
      /\ b \in Nat \ {0} /\ e = c + length + b
      /\ length \in Nat /\ length > 0
    BY Places
<1>2. p \in Nat /\ c + 1 <= p /\ p <= e /\ p + length <= l + 1
    BY DEF Loop, Behind
<1>3. /\ s.nalus \in Nalus /\ s.before = c
      /\ Gathered(nalus, s.nalus, m - 1, SizeOf(nalus, m - 1))
    BY DEF Loop, Behind
<1>4. n \in Nat /\ (m = n => e = l)
    BY LenProperties, Layout
<1> HIDE DEF data, c, e, b, p, l, n
<1>5. CASE p + length > l
    <2>1. t = s
        BY <1>5 DEF CaptureStep, p, l
    <2> QED
        BY <1>2, <1>5, <2>1 DEF data, p, l
<1>6. CASE p + length <= l /\ p = e
    <2>1. m + 1 \in 1..n /\ (m + 1) - 1 = m
        <3>1. m # n
            BY <1>1, <1>4, <1>6
        <3>2. m \in 1..n
            BY DEF n
        <3> QED
            BY <1>4, <3>1, <3>2
    <2>2. CodeAt(data, p, length)
        BY <1>6, <2>1, CodeThere DEF e, data, n
    <2>3. t = [i |-> p + 1, before |-> p,
               nalus |-> Take(s.nalus, c + length, p - c - length, MaxNaluSize)]
        <3>1. ~(p + length > l)
            BY <1>1, <1>2, <1>6
        <3> QED
            BY <1>1, <1>3, <2>2, <3>1 DEF CaptureStep, p, l
    <2>4. Gathered(nalus, t.nalus, m, SizeOf(nalus, m))
        <3> DEFINE size == p - c - length
        <3>1. size \in Int /\ size = b
            BY <1>1, <1>2, <1>6
        <3> HIDE DEF size
        <3>2. Gathered(nalus, Take(s.nalus, c + length, size, MaxNaluSize), m, SizeOf(nalus, m))
            BY <1>3, <3>1, NextTaken DEF c, b
        <3> QED
            BY <2>3, <3>2 DEF size
    <2>5. e + 1 <= CodePos(nalus, (m + 1) + 1)
        <3> DEFINE f == CodePos(nalus, (m + 1) + 1)
                   g == Len(nalus[m + 1].bytes)
        <3>1. f \in Nat /\ g \in Nat /\ f = e + length + g
            BY <2>1, Places DEF e, n
        <3> HIDE DEF f, g
        <3>2. e + 1 <= f
            BY <1>1, <3>1
        <3> QED
            BY <3>2 DEF f
    <2>6. t.before = e /\ t.i = e + 1 /\ t.i > p /\ t.i + length <= l + 1
        <3>1. t.before = e /\ t.i = e + 1
            BY <1>6, <2>3
        <3> HIDE DEF t
        <3> QED
            BY <1>1, <1>6, <3>1
    <2>7. Behind(nalus, t, m + 1, 1)
        <3> HIDE DEF t
        <3>1. e + 1 <= t.i /\ t.i <= CodePos(nalus, (m + 1) + 1)
            BY <1>1, <2>5, <2>6
        <3> QED
            BY <2>1, <2>4, <2>6, <3>1 DEF Behind, e, n
    <2> QED
        BY <2>1, <2>6, <2>7 DEF data, p, n, l
<1>7. CASE p + length <= l /\ p # e
    <2>1. p < e /\ c < p
        BY <1>1, <1>2, <1>7
    <2>2. ~CodeAt(data, p, length)
        BY <1>2, <2>1, NoCode DEF c, e, data
    <2>3. t.i = p + 1 /\ t.before = s.before /\ t.nalus = s.nalus
        <3>1. ~(p + length > l)
            BY <1>1, <1>2, <1>7
        <3> QED
            BY <2>2, <3>1 DEF CaptureStep, Loop, p, l
    <2> HIDE DEF t
    <2>4. t.i > p /\ t.i <= e /\ c + 1 <= t.i /\ t.i + length <= l + 1
        BY <1>1, <1>2, <1>7, <2>1, <2>3
    <2>5. Behind(nalus, t, m, 1)
        BY <1>3, <2>3, <2>4 DEF Behind, c, e
    <2> QED
        BY <2>4, <2>5 DEF data, t, p, l
<1> QED
    BY <1>1, <1>2, <1>5, <1>6, <1>7

\* A loop that stays in S and moves on until it has reached the end has done so after
\* as many rounds as there are bytes.
LEMMA RoundsEnd ==
    ASSUME NEW l \in Nat, NEW length \in {3, 4}, NEW n \in Nat \ {0}, n >= l, NEW f, NEW S,
           \A k \in 0..n : f[k] \in Loop,
           f[1] \in S, f[1].i >= 1,
           \A k \in 1..(n - 1) : f[k] \in S =>
              /\ f[k + 1] \in S
              /\ f[k + 1].i > f[k].i \/ (f[k + 1] = f[k] /\ f[k].i + length > l)
    PROVE  f[n] \in S /\ f[n].i + length > l
<1> DEFINE T == {k \in Nat : k + 1 <= n =>
                    f[k + 1] \in S /\ (f[k + 1].i >= k + 1 \/ f[k + 1].i + length > l)}
<1>1. 0 \in T
    OBVIOUS
<1>2. ASSUME NEW k \in Nat, k \in T PROVE k + 1 \in T
    <2> SUFFICES ASSUME (k + 1) + 1 <= n
                 PROVE  /\ f[(k + 1) + 1] \in S
                        /\ f[(k + 1) + 1].i >= (k + 1) + 1 \/ f[(k + 1) + 1].i + length > l
        OBVIOUS
    <2> DEFINE a == f[k + 1].i
               b == f[(k + 1) + 1].i
    <2>1. k + 1 \in 1..(n - 1) /\ k + 1 \in 0..n /\ (k + 1) + 1 \in 0..n /\ k + 1 <= n
        OBVIOUS
    <2>2. f[k + 1] \in S /\ (a >= k + 1 \/ a + length > l)
        BY <1>2, <2>1
    <2>3. /\ f[(k + 1) + 1] \in S
          /\ b > a \/ (b = a /\ a + length > l)
        BY <2>1, <2>2
    <2>4. a \in Nat /\ b \in Nat
        BY <2>1 DEF Loop
    <2> HIDE DEF a, b
    <2>5. b >= (k + 1) + 1 \/ b + length > l
        BY <2>2, <2>3, <2>4
    <2> QED
        BY <2>3, <2>5 DEF b
<1>3. \A k \in Nat : k \in T
    <2> HIDE DEF T
    <2> QED
        BY <1>1, <1>2, NatSet
<1>4. n - 1 \in Nat /\ (n - 1) + 1 = n /\ n \in 0..n
    OBVIOUS
<1>5. f[n] \in S /\ (f[n].i >= n \/ f[n].i + length > l)
    BY <1>3, <1>4
<1>6. f[n].i \in Nat
    BY <1>4 DEF Loop
<1> DEFINE a == f[n].i
<1>7. a \in Nat /\ (a >= n \/ a + length > l)
    BY <1>5, <1>6
<1> HIDE DEF a
<1>8. a + length > l
    BY <1>7
<1> QED
    BY <1>5, <1>8 DEF a

\* The first round of both loops finds the start code the stream begins with.
LEMMA FirstBehind ==
    ASSUME NEW nalus \in Seq(Written), NEW length \in {3, 4}, LegalStream(nalus, length),
           nalus # <<>>, NEW past \in 1..length
    PROVE  /\ CodeAt(AnnexB(nalus), 0, length)
           /\ length <= Len(AnnexB(nalus))
           /\ Take(<<>>, 0 + length, 0 - 0 - length, MaxNaluSize) = <<>>
           /\ 1 \in 1..Len(nalus)
           /\ Behind(nalus, [i |-> past, before |-> 0, nalus |-> <<>>], 1, past)
<1>1. 1 \in 1..Len(nalus)
    BY LenProperties, EmptySeq
<1>2. CodePos(nalus, 1) = 0
    BY Layout
<1>3. CodeAt(AnnexB(nalus), 0, length)
    BY <1>1, <1>2, CodeThere
<1>4. Take(<<>>, 0 + length, 0 - 0 - length, MaxNaluSize) = <<>>
    BY DEF Take
<1> DEFINE e == CodePos(nalus, 1 + 1)
           b == Len(nalus[1].bytes)
           l == Len(AnnexB(nalus))
<1>5. e \in Nat /\ b \in Nat /\ e = CodePos(nalus, 1) + length + b /\ l \in Nat /\ e <= l
    BY <1>1, Places
<1> HIDE DEF e, b, l
<1>6. e = length + b
    BY <1>2, <1>5
<1>7. past <= e /\ length <= l
    BY <1>5, <1>6
<1>8. Gathered(nalus, <<>>, 1 - 1, SizeOf(nalus, 1 - 1))
    <2>1. 1 - 1 = 0 /\ SizeOf(nalus, 0) = 0
        BY DEF SizeOf
    <2> QED
        BY <2>1, GatheredNone
<1> DEFINE s == [i |-> past, before |-> 0, nalus |-> <<>>]
<1>9. s.i = past /\ s.before = 0 /\ s.nalus = <<>>
    OBVIOUS
<1>10. 0 + past <= past
    OBVIOUS
<1> HIDE DEF s
<1>11. Behind(nalus, s, 1, past)
    BY <1>1, <1>2, <1>7, <1>8, <1>9, <1>10 DEF Behind, e
<1> QED
    BY <1>1, <1>3, <1>4, <1>7, <1>11 DEF s, l

\* At the end of the stream the loop stands behind its last start code.
LEMMA LastBehind ==
    ASSUME NEW nalus \in Seq(Written), NEW length \in {3, 4}, LegalStream(nalus, length),
           NEW s \in Loop, NEW m \in 1..Len(nalus), NEW past \in Nat, Behind(nalus, s, m, past),
           s.i + length > Len(AnnexB(nalus))
    PROVE  /\ m = Len(nalus)
           /\ Len(AnnexB(nalus)) = CodePos(nalus, Len(nalus)) + length + Len(nalus[Len(nalus)].bytes)
<1> DEFINE n == Len(nalus)
           l == Len(AnnexB(nalus))
           e == CodePos(nalus, m + 1)
           p == s.i
<1>1. p \in Nat /\ p <= e /\ p + length > l /\ e \in Nat /\ l \in Nat /\ n \in Nat
    BY LenProperties, Places DEF Loop, Behind
<1>2. ASSUME m # n PROVE FALSE
    <2>1. m + 1 \in 1..n
        BY <1>1, <1>2
    <2> DEFINE f == CodePos(nalus, (m + 1) + 1)
               g == Len(nalus[m + 1].bytes)
    <2>2. f \in Nat /\ g \in Nat /\ f = e + length + g /\ f <= l
        BY <2>1, Places
    <2> HIDE DEF f, g, e, l, p
    <2> QED
        BY <1>1, <2>2
<1>3. /\ CodePos(nalus, n + 1) = l
      /\ CodePos(nalus, n + 1) = CodePos(nalus, n) + length + Len(nalus[n].bytes)
    BY <1>2, Layout, Places
<1> QED
    BY <1>2, <1>3

\* Utils::parseH264 takes, of a stream in which every start code has four bytes, the
\* NALUs as they were written.
LEMMA UtilsResult ==
    ASSUME NEW nalus \in Seq(Written), nalus # <<>>, LegalStream(nalus, 4),
           AnnexB(nalus) \in Seq(Nat)
    PROVE  Gathered(nalus, UtilsParseH264(AnnexB(nalus)), Len(nalus), Len(nalus[Len(nalus)].bytes))
<1> DEFINE data == AnnexB(nalus)
           l == Len(data)
           n == Len(nalus)
           f == UtilsScan(data)
           S == {s \in Loop : \E m \in 1..n : Behind(nalus, s, m, 4)}
           first == [i |-> 4, before |-> 0, nalus |-> <<>>]
<1>1. /\ CodeAt(data, 0, 4) /\ 4 <= l /\ l \in Nat
      /\ Take(<<>>, 0 + 4, 0 - 0 - 4, MaxNaluSize) = <<>>
      /\ 1 \in 1..n
      /\ Behind(nalus, first, 1, 4)
    BY FirstBehind, LenProperties
<1>2. \A k \in 0..l : f[k] \in Loop /\ f[k] = IF k = 0 THEN Begin ELSE UtilsStep(data, f[k - 1])
    BY UtilsRounds
<1>3. \A s \in Loop, m \in 1..n : Behind(nalus, s, m, 4) =>
          /\ \E k \in 1..n : Behind(nalus, UtilsStep(data, s), k, 4)
          /\ \/ UtilsStep(data, s).i > s.i
             \/ UtilsStep(data, s) = s /\ s.i + 4 > l
    BY UtilsStepBehind
<1>4. UtilsParseH264(data) = Take(f[l].nalus, f[l].before + mNaluOffset, l - f[l].before - mNaluOffset, MaxNaluSize)
    BY DEF UtilsParseH264
<1>5. mNaluOffset = 4
    BY ParserAssumption
<1>6. \A m : Behind(nalus, f[l], m, 4) => f[l].before = CodePos(nalus, m)
                                         /\ Gathered(nalus, f[l].nalus, m - 1, SizeOf(nalus, m - 1))
    BY DEF Behind
<1> HIDE DEF l, f
<1>7. UtilsStep(data, Begin) = first
    <2>1. Begin.i = 0 /\ Begin.before = 0 /\ Begin.nalus = <<>>
        BY DEF Begin
    <2>2. ~(0 + 4 > l)
        BY <1>1
    <2> QED
        BY <1>1, <1>5, <2>1, <2>2 DEF UtilsStep, l
<1> HIDE DEF data, n
<1>8. 0 \in 0..l /\ 1 \in 0..l /\ l \in 0..l /\ l \in Nat \ {0} /\ l >= l /\ 1 - 1 = 0
    BY <1>1
<1>9. f[1] = first
    BY <1>2, <1>7, <1>8
<1>10. f[1] \in S /\ f[1].i >= 1
    BY <1>1, <1>2, <1>8, <1>9
<1>11. ASSUME NEW k \in 1..(l - 1), f[k] \in S
       PROVE  /\ f[k + 1] \in S
              /\ f[k + 1].i > f[k].i \/ (f[k + 1] = f[k] /\ f[k].i + 4 > l)
    <2>1. k + 1 \in 0..l /\ k + 1 # 0 /\ (k + 1) - 1 = k
        BY <1>1
    <2>2. f[k + 1] = UtilsStep(data, f[k]) /\ f[k + 1] \in Loop
        BY <1>2, <2>1
    <2> QED
        BY <1>3, <1>11, <2>2
<1> HIDE DEF S
<1>12. f[l] \in S /\ f[l].i + 4 > l
    <2>1. \A k \in 0..l : f[k] \in Loop
        BY <1>2
    <2> QED
        BY <1>1, <1>8, <1>10, <1>11, <2>1, RoundsEnd
<1>13. PICK m \in 1..n : f[l] \in Loop /\ Behind(nalus, f[l], m, 4)
    BY <1>12 DEF S
<1>14. m = n /\ l = CodePos(nalus, n) + 4 + Len(nalus[n].bytes)
    BY <1>12, <1>13, LastBehind DEF data, l, n
<1> DEFINE c == CodePos(nalus, n)
           b == Len(nalus[n].bytes)
           size == l - f[l].before - mNaluOffset
<1>15. f[l].before = c /\ Gathered(nalus, f[l].nalus, n - 1, SizeOf(nalus, n - 1))
    BY <1>6, <1>13, <1>14
<1>16. c \in Nat /\ b \in Nat \ {0} /\ l = c + 4 + b
    BY <1>13, <1>14, Places DEF n
<1>17. size \in Int /\ size = b
    <2> HIDE DEF c, b
    <2> QED
        BY <1>1, <1>5, <1>15, <1>16
<1>18. n \in 1..n /\ n # 0
    BY <1>13, <1>14
<1> HIDE DEF size
<1>19. Gathered(nalus, Take(f[l].nalus, c + 4, size, MaxNaluSize), n, SizeOf(nalus, n))
    BY <1>15, <1>17, <1>18, NextTaken DEF n
<1>20. SizeOf(nalus, n) = b
    BY <1>18 DEF SizeOf
<1> QED
    BY <1>4, <1>5, <1>15, <1>19, <1>20 DEF size, data, n

\* parseH264 of the capture does so too, but for one byte more of the last NALU.
LEMMA CaptureResult ==
    ASSUME NEW nalus \in Seq(Written), nalus # <<>>, NEW length \in {3, 4},
           length = StartCodeLength(AnnexB(nalus)), LegalStream(nalus, length),
           AnnexB(nalus) \in Seq(Nat),
           \A j \in DOMAIN nalus : Len(nalus[j].bytes) < MaxNaluSize
    PROVE  Gathered(nalus, CaptureParseH264(AnnexB(nalus)), Len(nalus), Len(nalus[Len(nalus)].bytes) + 1)
<1> DEFINE data == AnnexB(nalus)
           l == Len(data)
           n == Len(nalus)
           f == CaptureScan(data, length)
           S == {s \in Loop : (\E m \in 1..n : Behind(nalus, s, m, 1)) /\ s.i + length <= l + 1}
           first == [i |-> 1, before |-> 0, nalus |-> <<>>]
<1>1. /\ CodeAt(data, 0, length) /\ length <= l /\ l \in Nat /\ length \in Nat /\ length > 0
      /\ Take(<<>>, 0 + length, 0 - 0 - length, MaxNaluSize) = <<>>
      /\ 1 \in 1..n
      /\ Behind(nalus, first, 1, 1)
    BY FirstBehind, LenProperties
<1>2. \A k \in 0..(l + 1) : f[k] \in Loop /\ f[k] = IF k = 0 THEN Begin ELSE CaptureStep(data, length, f[k - 1])
    BY <1>1, CaptureRounds
<1>3. \A s \in Loop, m \in 1..n : Behind(nalus, s, m, 1) /\ s.i + length <= l + 1 =>
          /\ \E k \in 1..n : Behind(nalus, CaptureStep(data, length, s), k, 1)
          /\ CaptureStep(data, length, s).i + length <= l + 1
          /\ \/ CaptureStep(data, length, s).i > s.i
             \/ CaptureStep(data, length, s) = s /\ s.i + length > l
    BY CaptureStepBehind
<1>4. CaptureParseH264(data) = Take(f[l + 1].nalus, f[l + 1].before + length, f[l + 1].i - f[l + 1].before, MaxNaluSize + length)
    BY DEF CaptureParseH264
<1>5. \A m : Behind(nalus, f[l + 1], m, 1) => f[l + 1].before = CodePos(nalus, m)
                                             /\ Gathered(nalus, f[l + 1].nalus, m - 1, SizeOf(nalus, m - 1))
    BY DEF Behind
<1> HIDE DEF f
<1>6. CaptureStep(data, length, Begin) = first
    <2>1. Begin.i = 0 /\ Begin.before = 0 /\ Begin.nalus = <<>>
        BY DEF Begin
    <2>2. ~(0 + length > Len(data))
        BY <1>1
    <2> QED
        BY <1>1, <2>1, <2>2 DEF CaptureStep
<1> HIDE DEF l, data, n
<1>7. 0 \in 0..(l + 1) /\ 1 \in 0..(l + 1) /\ l + 1 \in 0..(l + 1) /\ l + 1 \in Nat \ {0} /\ l + 1 >= l
      /\ 1 - 1 = 0 /\ 1 + length <= l + 1
    BY <1>1
<1>8. f[1] = first
    BY <1>2, <1>6, <1>7
<1>9. f[1] \in S /\ f[1].i >= 1
    BY <1>1, <1>2, <1>7, <1>8
<1>10. ASSUME NEW k \in 1..((l + 1) - 1), f[k] \in S
       PROVE  /\ f[k + 1] \in S
              /\ f[k + 1].i > f[k].i \/ (f[k + 1] = f[k] /\ f[k].i + length > l)
    <2>1. k + 1 \in 0..(l + 1) /\ k + 1 # 0 /\ (k + 1) - 1 = k
        BY <1>1
    <2>2. f[k + 1] = CaptureStep(data, length, f[k]) /\ f[k + 1] \in Loop
        BY <1>2, <2>1
    <2> QED
        BY <1>3, <1>10, <2>2
<1> HIDE DEF S
<1>11. f[l + 1] \in S /\ f[l + 1].i + length > l
    <2> DEFINE N == l + 1
    <2>1. /\ N \in Nat \ {0} /\ N >= l
          /\ \A k \in 0..N : f[k] \in Loop
          /\ \A k \in 1..(N - 1) : f[k] \in S =>
                /\ f[k + 1] \in S
                /\ f[k + 1].i > f[k].i \/ (f[k + 1] = f[k] /\ f[k].i + length > l)
        BY <1>2, <1>7, <1>10
    <2> HIDE DEF N
    <2>2. f[N] \in S /\ f[N].i + length > l
        BY <1>1, <1>9, <2>1, RoundsEnd
    <2> QED
        BY <2>2 DEF N
<1>12. PICK m \in 1..n : f[l + 1] \in Loop /\ Behind(nalus, f[l + 1], m, 1) /\ f[l + 1].i + length <= l + 1
    BY <1>11 DEF S
<1>13. m = n /\ l = CodePos(nalus, n) + length + Len(nalus[n].bytes)
    BY <1>11, <1>12, LastBehind DEF data, l, n
<1> DEFINE c == CodePos(nalus, n)
           b == Len(nalus[n].bytes)
           p == f[l + 1].i
           size == p - f[l + 1].before
<1>14. f[l + 1].before = c /\ Gathered(nalus, f[l + 1].nalus, n - 1, SizeOf(nalus, n - 1))
    BY <1>5, <1>12, <1>13
<1>15. c \in Nat /\ b \in Nat \ {0} /\ l = c + length + b
    BY <1>12, <1>13, Places DEF n
<1>16. p \in Nat /\ p + length > l /\ p + length <= l + 1
    BY <1>11, <1>12 DEF Loop
<1>17. size \in Nat \ {0} /\ size = b + 1
    <2> HIDE DEF c, b, p
    <2> QED
        BY <1>1, <1>14, <1>15, <1>16
<1>18. n \in 1..n /\ n \in DOMAIN nalus /\ b < MaxNaluSize
    BY <1>12, <1>13, LenProperties DEF n
<1>19. n \in Kept(nalus) /\ MaxNaluSize + length \in Nat /\ size <= MaxNaluSize + length
    <2> HIDE DEF b, size
    <2>1. b <= MaxNaluSize /\ size <= MaxNaluSize + length /\ MaxNaluSize + length \in Nat
        <3>1. /\ b \in Nat
              /\ size = b + 1
              /\ b < MaxNaluSize
              /\ MaxNaluSize \in Nat
              /\ length >= 1
              /\ length \in Nat
            BY <1>1, <1>15, <1>17, <1>18, ParserAssumption
        <3> QED
            BY <3>1
    <2> QED
        BY <1>18, <2>1 DEF Kept, b
<1>20. FirstByte(nalus, n) = c + length /\ FirstByte(nalus, n) \in Nat
    <2>1. FirstByte(nalus, n) = c + length
        BY <1>18, Layout DEF FirstByte, n
    <2> HIDE DEF c
    <2> QED
        BY <1>1, <1>15, <2>1
<1> HIDE DEF size
<1>21. Gathered(nalus, Take(f[l + 1].nalus, FirstByte(nalus, n), size, MaxNaluSize + length), n, size)
    BY <1>14, <1>17, <1>18, <1>19, <1>20, TakeNext DEF n
<1> HIDE DEF c, b
<1>22. Gathered(nalus, CaptureParseH264(data), n, b + 1)
    BY <1>4, <1>14, <1>17, <1>20, <1>21 DEF size, p
<1> QED
    BY <1>22 DEF data, n, b

\* mSizeArr is what the parser made of the stream.
InputInv ==
    input # NoInput =>
        /\ input.parser \in {"utils", "capture"}
        /\ input.nalus \in Encoded
        /\ frame = ParseH264(input.parser, AnnexB(input.nalus))

\* It is so while the frame is sent.
LEMMA InputInvariance == RtpSpec => []InputInv
<1>1. RtpInit => InputInv
    BY DEF RtpInit, InputInv
<1>2. InputInv /\ [RtpNext]_rtpVars => InputInv'
    <2> SUFFICES ASSUME InputInv, [RtpNext]_rtpVars PROVE InputInv'
        OBVIOUS
    <2>1. CASE UNCHANGED <<input, frame>>
        BY <2>1 DEF InputInv
    <2>2. CASE UNCHANGED rtpVars
        BY <2>1, <2>2 DEF rtpVars
    <2>3. ASSUME NEW parser \in {"utils", "capture"}, NEW nalus \in Encoded, HandleFrame(parser, nalus)
          PROVE  InputInv'
        BY <2>3 DEF HandleFrame, InputInv
    <2>4. CASE FrameDone
        BY <2>4 DEF FrameDone, InputInv
    <2> QED
        BY <2>1, <2>2, <2>3, <2>4 DEF RtpNext, SendSingle, SendFull, SendRest
<1> QED
    BY <1>1, <1>2, PTL DEF RtpSpec

\* Then the frame has the NALUs the encoder wrote.
LEMMA Parsed == InputInv => ParsedNalus
<1> SUFFICES ASSUME InputInv, input # NoInput, LegalStream(input.nalus, Offset),
                    Utils \/ \A j \in DOMAIN input.nalus : Len(input.nalus[j].bytes) < MaxNaluSize
             PROVE  /\ Len(frame) = Room(Cardinality(Kept(input.nalus)))
                    /\ \A j \in Kept(input.nalus) : Rank(input.nalus, j) <= MaxNaluNum =>
                          frame[Rank(input.nalus, j)] =
                              [from |-> FirstByte(input.nalus, j),
                               size |-> Len(input.nalus[j].bytes)
                                            + IF ~Utils /\ j = Len(input.nalus) THEN 1 ELSE 0]
    BY DEF ParsedNalus
<1> DEFINE nalus == input.nalus
           n == Len(nalus)
           more == IF Utils THEN 0 ELSE 1
<1>1. /\ input.parser \in {"utils", "capture"} /\ nalus \in Encoded
      /\ frame = ParseH264(input.parser, AnnexB(nalus))
    BY DEF InputInv
<1>2. nalus \in Seq(Written) /\ nalus # <<>> /\ AnnexB(nalus) \in Seq(Nat)
    BY <1>1, EncodedType
<1>3. /\ LegalStream(nalus, Offset)
      /\ (Utils \/ \A j \in DOMAIN nalus : Len(nalus[j].bytes) < MaxNaluSize)
    OBVIOUS
<1> HIDE DEF nalus
<1>4. Gathered(nalus, frame, n, Len(nalus[n].bytes) + more)
    <2>1. CASE Utils
        <3>1. Offset = 4 /\ frame = UtilsParseH264(AnnexB(nalus))
            BY <1>1, <2>1, ParserAssumption DEF Offset, Utils, ParseH264
        <3>2. Gathered(nalus, frame, n, Len(nalus[n].bytes))
            BY <1>2, <1>3, <3>1, UtilsResult
        <3>3. Len(nalus[n].bytes) + more = Len(nalus[n].bytes)
            <4>1. 1 \in 1..n
                BY <1>2, LenProperties, EmptySeq
            <4>2. n \in 1..n
                BY <4>1
            <4>3. Len(nalus[n].bytes) \in Nat
                BY <1>2, <1>3, <3>1, <4>2, Places
            <4> QED
                BY <2>1, <4>3
        <3> QED
            BY <3>2, <3>3
    <2>2. CASE ~Utils
        <3>1. Offset = StartCodeLength(AnnexB(nalus)) /\ frame = CaptureParseH264(AnnexB(nalus))
            BY <1>1, <2>2 DEF Offset, Utils, ParseH264, nalus
        <3>2. Offset \in {3, 4}
            <4>1. 1 \in DOMAIN nalus /\ nalus[1] \in Written
                BY <1>2, LenProperties, EmptySeq, ElementOfSeq
            <4> QED
                BY <1>3, <4>1 DEF LegalStream, Written
        <3> HIDE DEF more
        <3>3. more = 1
            BY <2>2 DEF more
        <3> QED
            BY <1>2, <1>3, <2>2, <3>1, <3>2, <3>3, CaptureResult
    <2> QED
        BY <2>1, <2>2
<1>5. Rank(nalus, n) = Cardinality(Kept(nalus))
    BY <1>2, Ranks
<1>6. \A j \in Kept(nalus) : j <= n /\ Len(nalus[j].bytes) \in Nat
    <2>1. \A j \in Kept(nalus) : j \in DOMAIN nalus /\ j \in 1..n /\ j <= n
        BY <1>2, LenProperties DEF Kept
    <2>2. \A j \in DOMAIN nalus : nalus[j] \in Written
        BY <1>2, LenProperties, ElementOfSeq
    <2> QED
        BY <2>1, <2>2, LenProperties DEF Written
<1>7. ASSUME NEW j \in Kept(nalus), Rank(nalus, j) <= MaxNaluNum
      PROVE  frame[Rank(nalus, j)] = [from |-> FirstByte(nalus, j),
                                      size |-> Len(nalus[j].bytes) + IF ~Utils /\ j = n THEN 1 ELSE 0]
    <2>1. frame[Rank(nalus, j)] = [from |-> FirstByte(nalus, j),
                                   size |-> IF j = n THEN Len(nalus[n].bytes) + more ELSE Len(nalus[j].bytes)]
        BY <1>4, <1>6, <1>7 DEF Gathered
    <2>2. (IF j = n THEN Len(nalus[n].bytes) + more ELSE Len(nalus[j].bytes))
             = Len(nalus[j].bytes) + IF ~Utils /\ j = n THEN 1 ELSE 0
        <3> DEFINE last == IF ~Utils /\ j = n THEN 1 ELSE 0
                   x == Len(nalus[j].bytes)
        <3>1. x \in Nat
            BY <1>6
        <3>2. j = n => last = more /\ x = Len(nalus[n].bytes)
            OBVIOUS
        <3>3. j # n => last = 0
            OBVIOUS
        <3> HIDE DEF last, more, x
        <3>4. j # n => x = x + last
            BY <3>1, <3>3
        <3>5. (IF j = n THEN Len(nalus[n].bytes) + more ELSE x) = x + last
            BY <3>2, <3>4
        <3> QED
            BY <3>5 DEF last, x
    <2> QED
        BY <2>1, <2>2
<1>8. Len(frame) = Room(Cardinality(Kept(nalus)))
    BY <1>4, <1>5 DEF Gathered
<1> QED
    BY <1>7, <1>8 DEF nalus

\* Of a legal stream with start codes of one length, parseH264 gives back the NALUs that
\* were written and not too long, in order and as many as there is room for, however
\* many there are and however long; the capture's, one byte more of the last.
THEOREM ParsedAsWritten == RtpSpec => []ParsedNalus
    BY InputInvariance, Parsed, PTL
==============================================================================
