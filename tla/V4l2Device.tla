------------------------------ MODULE V4l2Device ------------------------------
(***************************************************************************)
(* The buffers of the V4L2 devices that src/media/v4l2/V4l2MediaSource.cpp *)
(* opens with the calls of src/v4l2/V4l2.cpp, from open to the destructor: *)
(* what the program records about a mapping, and what the kernel has.  One *)
(* thread does all of it (FramePipeline has the threads that use a table   *)
(* while another is opened).  The n-th open gives descriptor n, and table  *)
(* n if v4l2_reqbufs succeeds on it; 0 is no descriptor and a null table.  *)
(***************************************************************************)
EXTENDS Integers, FiniteSets

CONSTANTS Devs,
          MaxOpens,  \* bound: devices opened, again or for the first time
          Bufs,      \* nr_bufs, as the driver granted them
          Planes     \* planes of a buffer

ASSUME DeviceAssumption ==
    /\ MaxOpens \in Nat
    /\ Bufs \in Nat \ {0}
    /\ Planes \in Nat \ {0}

Opens == 1..MaxOpens
None == 0
Slots == (0..Bufs - 1) \X (0..Planes - 1)

VARIABLES mFd, mV4l2Buf,
          devFdMap,      \* descriptor of each device; the table of it has its number
          start,         \* start[j] of each buffer: "null", "failed" or "address"
          open, devOf,   \* descriptors open, and their devices
          mapped,        \* mappings the process has
          streaming,     \* descriptors that stream
          opens,         \* number of opens
          step,          \* where init, or the destructor, is
          dev, fd,       \* its device and descriptor
          i, j,          \* the buffer and the plane that v4l2_mmap has reached
          initFailed,    \* history: some videoInit failed after its open
          mmapFailed,    \* history: descriptors whose v4l2_mmap failed
          exitFailed     \* history: a call of videoExit failed by itself

sourceVars == <<mFd, mV4l2Buf, devFdMap>>
kernelVars == <<open, devOf, streaming>>
memVars    == <<start, mapped>>
histVars   == <<initFailed, mmapFailed, exitFailed>>
vars == <<sourceVars, memVars, kernelVars, opens, step, dev, fd, i, j, histVars>>

Init ==
    /\ mFd = None
    /\ mV4l2Buf = None
    /\ devFdMap = [d \in Devs |-> None]
    /\ start = [n \in Opens |-> [s \in Slots |-> "null"]]
    /\ open = {}
    /\ devOf \in [Opens -> Devs]
    /\ mapped = {}
    /\ streaming = {}
    /\ opens = 0
    /\ step = "idle"
    /\ dev \in Devs
    /\ fd = None
    /\ i = 0
    /\ j = 0
    /\ initFailed = FALSE
    /\ mmapFailed = {}
    /\ exitFailed = FALSE
------------------------------------------------------------------------------
\* init and deInit.

Reopen(d) ==
    /\ step = "idle"
    /\ devFdMap[d] # None
    /\ mFd' = devFdMap[d]
    /\ mV4l2Buf' = devFdMap[d]
    /\ UNCHANGED <<devFdMap, memVars, kernelVars, opens, step, dev, fd, i, j, histVars>>

Deselect ==
    /\ step = "idle"
    /\ mFd' = None
    /\ UNCHANGED <<mV4l2Buf, devFdMap, memVars, kernelVars, opens, step, dev, fd, i, j, histVars>>

\* fuser -k, which kills this process if it has the device open already; then
\* v4l2_open.  An open that fails changes nothing.
Open(d) ==
    /\ step = "idle"
    /\ devFdMap[d] = None
    /\ opens < MaxOpens
    /\ opens' = opens + 1
    /\ dev' = d
    /\ fd' = opens + 1
    /\ devOf' = [devOf EXCEPT ![opens + 1] = d]
    /\ IF \E n \in open : devOf[n] = d
       THEN step' = "killed" /\ UNCHANGED open
       ELSE step' = "configure" /\ open' = open \cup {opens + 1}
    /\ UNCHANGED <<sourceVars, memVars, streaming, i, j, histVars>>

\* videoInit returns; the descriptor stays open.
GiveUp ==
    /\ step' = "idle"
    /\ initFailed' = TRUE

\* querycap, s_input, enum_fmt, s_fmt and s_parm: one of them may fail.
Configure ==
    /\ step = "configure"
    /\ \/ step' = "reqbufs" /\ UNCHANGED initFailed
       \/ GiveUp
    /\ UNCHANGED <<sourceVars, memVars, kernelVars, opens, dev, fd, i, j, mmapFailed, exitFailed>>

Reqbufs ==
    /\ step = "reqbufs"
    /\ \/ mV4l2Buf' = fd /\ step' = "querybuf" /\ UNCHANGED initFailed
       \/ mV4l2Buf' = None /\ GiveUp
    /\ UNCHANGED <<mFd, devFdMap, memVars, kernelVars, opens, dev, fd, i, j, mmapFailed,
                   exitFailed>>

\* v4l2_querybuf also sets start to NULL, which memset did before.
Querybuf ==
    /\ step = "querybuf"
    /\ i' = 0
    /\ j' = 0
    /\ \/ step' = "mmap" /\ UNCHANGED initFailed
       \/ GiveUp
    /\ UNCHANGED <<sourceVars, memVars, kernelVars, opens, dev, fd, mmapFailed, exitFailed>>

MapPlane ==
    /\ step = "mmap"
    /\ i < Bufs
    /\ start' = [start EXCEPT ![fd][<<i, j>>] = "address"]
    /\ mapped' = mapped \cup {<<fd, i, j>>}
    /\ IF j + 1 < Planes THEN j' = j + 1 /\ UNCHANGED i
                         ELSE i' = i + 1 /\ j' = 0
    /\ UNCHANGED <<sourceVars, kernelVars, opens, step, dev, fd, histVars>>

\* What the code at err unmaps: planes below j, not of the buffer that failed but
\* of the one before it, and all planes of the buffers before that one.
CleanedNothing == {}
Cleaned == {s \in Slots : s[1] < i - 1 \/ (s[1] = i - 1 /\ s[2] < j)}

MapFails ==
    /\ step = "mmap"
    /\ i < Bufs
    /\ start' = [start EXCEPT ![fd] =
                    [s \in Slots |-> CASE s = <<i, j>>   -> "failed"
                                       [] s \in Cleaned  -> "null"
                                       [] OTHER          -> start[fd][s]]]
    /\ mapped' = mapped \ {<<fd, s[1], s[2]>> : s \in Cleaned}
    /\ mmapFailed' = mmapFailed \cup {fd}
    /\ GiveUp
    /\ UNCHANGED <<sourceVars, kernelVars, opens, dev, fd, i, j, exitFailed>>

\* All planes are mapped; v4l2_qbuf_all may fail at any of the buffers.
QbufAll ==
    /\ step = "mmap"
    /\ i = Bufs
    /\ \/ step' = "streamon" /\ UNCHANGED initFailed
       \/ GiveUp
    /\ UNCHANGED <<sourceVars, memVars, kernelVars, opens, dev, fd, i, j, mmapFailed, exitFailed>>

\* v4l2_streamon fails before the stream is on, or after it, in its v4l2_poll.
Streamon ==
    /\ step = "streamon"
    /\ \/ streaming' = streaming \cup {fd} /\ step' = "select" /\ UNCHANGED initFailed
       \/ streaming' \in {streaming, streaming \cup {fd}} /\ GiveUp
    /\ UNCHANGED <<sourceVars, memVars, open, devOf, opens, dev, fd, i, j, mmapFailed, exitFailed>>

Select ==
    /\ step = "select"
    /\ mFd' = fd
    /\ devFdMap' = [devFdMap EXCEPT ![dev] = fd]
    /\ step' = "idle"
    /\ UNCHANGED <<mV4l2Buf, memVars, kernelVars, opens, dev, fd, i, j, histVars>>
------------------------------------------------------------------------------
\* The destructor: videoExit, after the readers have ended.

Streamoff ==
    /\ step = "idle"
    /\ \/ /\ mFd # None
          /\ streaming' = streaming \ {mFd}
          /\ step' = "munmap"
          /\ UNCHANGED exitFailed
       \/ /\ mFd # None
          /\ step' = "gaveUp"
          /\ exitFailed' = TRUE
          /\ UNCHANGED streaming
       \/ /\ mFd = None
          /\ step' = "gaveUp"
          /\ UNCHANGED <<streaming, exitFailed>>
    /\ UNCHANGED <<sourceVars, memVars, open, devOf, opens, dev, fd, i, j, initFailed, mmapFailed>>

UnmapFirst(n) == {m \in mapped : m[1] = n /\ m[3] = 0}
UnmapRecorded(n) == {m \in mapped : m[1] = n /\ start[n][<<m[2], m[3]>>] = "address"}

Munmap ==
    /\ step = "munmap"
    /\ IF mV4l2Buf = None
       THEN step' = "crashed" /\ UNCHANGED memVars
       ELSE /\ mapped' = mapped \ UnmapRecorded(mV4l2Buf)
            /\ start' = [start EXCEPT ![mV4l2Buf] = [s \in Slots |-> "null"]]
            /\ step' = "relbufs"
    /\ UNCHANGED <<sourceVars, kernelVars, opens, dev, fd, i, j, histVars>>

\* The driver refuses while buffers of the descriptor are mapped.
Relbufs ==
    /\ step = "relbufs"
    /\ \/ /\ \A m \in mapped : m[1] # mFd
          /\ step' = "free"
          /\ UNCHANGED exitFailed
       \/ /\ step' = "gaveUp"
          /\ exitFailed' = (exitFailed \/ \A m \in mapped : m[1] # mFd)
    /\ UNCHANGED <<sourceVars, memVars, kernelVars, opens, dev, fd, i, j, initFailed, mmapFailed>>

\* free(mV4l2Buf) and then free(mV4l2Buf->buf), read from the memory just freed:
\* the second call gets the old pointer, or something else and aborts.
Free ==
    /\ step = "free"
    /\ step' \in {"close", "aborted"}
    /\ UNCHANGED <<sourceVars, memVars, kernelVars, opens, dev, fd, i, j, histVars>>

CloseFd ==
    /\ step = "close"
    /\ open' = open \ {mFd}
    /\ mFd' = None
    /\ step' = "exited"
    /\ UNCHANGED <<mV4l2Buf, devFdMap, memVars, devOf, streaming, opens, dev, fd, i, j, histVars>>
------------------------------------------------------------------------------
VideoInit ==
    \/ \E d \in Devs : Open(d) \/ Reopen(d)
    \/ Configure \/ Reqbufs \/ Querybuf
    \/ MapPlane \/ MapFails \/ QbufAll
    \/ Streamon \/ Select

Destructor == Streamoff \/ Munmap \/ Relbufs \/ Free \/ CloseFd

Next == VideoInit \/ Deselect \/ Destructor

Spec == Init /\ [][Next]_vars
------------------------------------------------------------------------------
TypeOK ==
    /\ mFd \in 0..MaxOpens
    /\ mV4l2Buf \in 0..MaxOpens
    /\ devFdMap \in [Devs -> 0..MaxOpens]
    /\ start \in [Opens -> [Slots -> {"null", "failed", "address"}]]
    /\ open \in SUBSET Opens
    /\ devOf \in [Opens -> Devs]
    /\ mapped \in SUBSET (Opens \X (0..Bufs - 1) \X (0..Planes - 1))
    /\ streaming \in SUBSET Opens
    /\ opens \in 0..MaxOpens
    /\ step \in {"idle", "configure", "reqbufs", "querybuf", "mmap", "streamon", "select", "killed",
                 "munmap", "relbufs", "free", "close", "gaveUp", "crashed", "aborted", "exited"}
    /\ dev \in Devs
    /\ fd \in 0..MaxOpens
    /\ i \in 0..Bufs
    /\ j \in 0..Planes - 1
    /\ initFailed \in BOOLEAN
    /\ mmapFailed \in SUBSET Opens
    /\ exitFailed \in BOOLEAN

MappingsOf(n) == {m \in mapped : m[1] = n}

\* A plane has an address in its table exactly as long as it is mapped, so nothing
\* is unmapped twice and no stale address is read; and the cleanup of a v4l2_mmap
\* that fails, which is one buffer off, leaves at most as many planes as a buffer has.
MappingsAreRecorded ==
    /\ \A n \in Opens, s \in Slots :
          start[n][s] = "address" <=> <<n, s[1], s[2]>> \in mapped
    /\ \A n \in mmapFailed : Cardinality(MappingsOf(n)) <= Planes

\* If no videoInit failed, the destructor releases the device that is selected and
\* only that one: its planes are unmapped, it streams no more and is closed; the
\* devices shown before stay open with everything they have.  It gives up only when
\* no device is selected or a call fails, and finds no null table.
ExitReleases ==
    ~initFailed =>
        /\ step = "exited" =>
              /\ open = (1..opens) \ {mV4l2Buf}
              /\ streaming = open
              /\ {m[1] : m \in mapped} = open
        /\ step = "gaveUp" => mFd = None \/ exitFailed
        /\ step \notin {"crashed", "killed"}
==============================================================================
