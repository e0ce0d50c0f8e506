----------------------------- MODULE DeviceProofs -----------------------------
(***************************************************************************)
(* What the buffer tables say of the mappings, for any number of devices,  *)
(* buffers and planes: proofs about V4l2Device.                            *)
(***************************************************************************)
EXTENDS V4l2Device, FiniteSetTheorems, TLAPS

I == 0..Bufs - 1
J == 0..Planes - 1

\* The types that the argument uses.
TypeInv ==
    /\ mV4l2Buf \in 0..MaxOpens
    /\ devFdMap \in [Devs -> 0..MaxOpens]
    /\ start \in [Opens -> [Slots -> {"null", "failed", "address"}]]
    /\ mapped \subseteq Opens \X I \X J
    /\ opens \in 0..MaxOpens
    /\ fd \in 0..MaxOpens
    /\ i \in 0..Bufs
    /\ j \in J
    /\ mmapFailed \subseteq Opens

\* The steps of videoInit before v4l2_mmap has returned, ...
Opening == {"configure", "reqbufs", "querybuf", "mmap"}

\* ... in which the descriptor is the last one opened and has not failed yet.
OpeningInv ==
    /\ step \in Opening => fd = opens /\ fd \in Opens /\ fd \notin mmapFailed
    /\ \A n \in mmapFailed : n <= opens

\* v4l2_mmap has mapped what comes before <<i, j>>, and nothing before it began.
PrefixInv ==
    /\ \A n \in Opens, a \in I, b \in J : <<n, a, b>> \in mapped => n <= opens
    /\ step \in {"configure", "reqbufs", "querybuf"} =>
          \A a \in I, b \in J : <<fd, a, b>> \notin mapped
    /\ step = "mmap" =>
          \A a \in I, b \in J : <<fd, a, b>> \in mapped <=> a < i \/ (a = i /\ b < j)

\* The table of each descriptor records its mappings.
RecordInv ==
    \A n \in Opens, a \in I, b \in J : start[n][<<a, b>>] = "address" <=> <<n, a, b>> \in mapped

\* Of the mappings that a failed v4l2_mmap left no two are of the same plane, though
\* they may be of two buffers.
LeftInv ==
    \A n \in mmapFailed : \A a1, a2 \in I, b \in J :
        <<n, a1, b>> \in mapped /\ <<n, a2, b>> \in mapped => a1 = a2

IInv == TypeInv /\ OpeningInv /\ PrefixInv /\ RecordInv /\ LeftInv
------------------------------------------------------------------------------
LEMMA SlotFacts ==
    /\ \A a \in I, b \in J : <<a, b>> \in Slots
    /\ \A s \in Slots : s[1] \in I /\ s[2] \in J /\ s = <<s[1], s[2]>>
    BY DEF Slots, I, J

LEMMA InitInv == Init => IInv
<1> SUFFICES ASSUME Init PROVE IInv
    OBVIOUS
<1> USE DeviceAssumption DEF Init
<1>1. TypeInv
    BY DEF TypeInv, None, J
<1>2. OpeningInv /\ PrefixInv /\ LeftInv
    BY DEF OpeningInv, Opening, PrefixInv, LeftInv
<1>3. RecordInv
    BY SlotFacts DEF RecordInv
<1> QED
    BY <1>1, <1>2, <1>3 DEF IInv
------------------------------------------------------------------------------
\* Steps that leave tables and mappings alone.
Beside ==
    \/ \E d \in Devs : Reopen(d) \/ Open(d)
    \/ Configure \/ Reqbufs \/ Querybuf \/ QbufAll \/ Streamon \/ Select
    \/ Deselect
    \/ Streamoff \/ Relbufs \/ Free \/ CloseFd
    \/ UNCHANGED vars

LEMMA BesideKeeps == ASSUME IInv, Beside PROVE IInv'
<1> USE DeviceAssumption DEF IInv, GiveUp, sourceVars, memVars, kernelVars, histVars, vars
<1>1. UNCHANGED <<start, mapped, mmapFailed>>
    BY DEF Beside, Reopen, Open, Configure, Reqbufs, Querybuf, QbufAll, Streamon, Select, Deselect,
           Streamoff, Relbufs, Free, CloseFd
<1>2. opens' \in 0..MaxOpens /\ opens <= opens'
    BY DEF Beside, Reopen, Open, Configure, Reqbufs, Querybuf, QbufAll, Streamon, Select, Deselect,
           Streamoff, Relbufs, Free, CloseFd, TypeInv
<1>3. RecordInv' /\ LeftInv'
    BY <1>1 DEF RecordInv, LeftInv
<1>4. CASE \E d \in Devs : Open(d)
    <2>1. fd' = opens' /\ opens' = opens + 1 /\ fd' \in Opens
        BY <1>4 DEF Open, TypeInv, Opens
    <2>2. step' \in {"killed", "configure"}
        BY <1>4 DEF Open
    <2>3. TypeInv'
        BY <1>1, <1>2, <1>4, <2>1 DEF Open, TypeInv, Opens
    <2>4. OpeningInv'
        BY <1>1, <2>1, <2>2 DEF OpeningInv, Opening, TypeInv, Opens
    <2>5. PrefixInv'
        BY <1>1, <2>1, <2>2 DEF PrefixInv, TypeInv, Opens
    <2> QED
        BY <1>3, <2>3, <2>4, <2>5
<1>5. CASE Querybuf
    <2>1. TypeInv'
        BY <1>1, <1>5 DEF Querybuf, TypeInv, J
    <2>2. OpeningInv'
        BY <1>1, <1>5 DEF Querybuf, OpeningInv, Opening
    <2>3. PrefixInv'
        BY <1>1, <1>5 DEF Querybuf, PrefixInv, I, J
    <2> QED
        BY <1>3, <2>1, <2>2, <2>3
<1>6. CASE Configure \/ Reqbufs
    <2>1. TypeInv'
        BY <1>1, <1>6 DEF Configure, Reqbufs, OpeningInv, Opening, TypeInv, Opens, None
    <2>2. OpeningInv' /\ PrefixInv'
        BY <1>1, <1>6 DEF Configure, Reqbufs, OpeningInv, Opening, PrefixInv
    <2> QED
        BY <1>3, <2>1, <2>2
<1>7. CASE (\E d \in Devs : Reopen(d)) \/ QbufAll \/ Streamon \/ Deselect \/ Streamoff \/ Relbufs
           \/ Free \/ CloseFd
    <2>1. TypeInv'
        BY <1>1, <1>7 DEF Reopen, QbufAll, Streamon, Deselect, Streamoff, Relbufs, Free, CloseFd,
                          TypeInv
    <2>2. step' \notin Opening /\ opens' = opens
        BY <1>7 DEF Reopen, QbufAll, Streamon, Deselect, Streamoff, Relbufs, Free, CloseFd, Opening
    <2>3. OpeningInv' /\ PrefixInv'
        BY <1>1, <2>2 DEF OpeningInv, Opening, PrefixInv
    <2> QED
        BY <1>3, <2>1, <2>3
<1>8. CASE Select
    <2>1. TypeInv'
        BY <1>1, <1>8 DEF Select, TypeInv
    <2>2. step' \notin Opening /\ opens' = opens
        BY <1>8 DEF Select, Opening
    <2>3. OpeningInv' /\ PrefixInv'
        BY <1>1, <2>2 DEF OpeningInv, Opening, PrefixInv
    <2> QED
        BY <1>3, <2>1, <2>3
<1>9. CASE UNCHANGED vars
    BY <1>1, <1>3, <1>9 DEF TypeInv, OpeningInv, PrefixInv
<1> QED
    BY <1>4, <1>5, <1>6, <1>7, <1>8, <1>9 DEF Beside

\* One plane more is mapped and recorded.
LEMMA MapKeeps == ASSUME IInv, MapPlane PROVE IInv'
<1> USE DeviceAssumption DEF IInv, sourceVars, kernelVars, histVars
<1>1. i \in I /\ j \in J /\ fd \in Opens /\ fd = opens /\ fd \notin mmapFailed
    BY DEF MapPlane, TypeInv, OpeningInv, Opening, I
<1>2. UNCHANGED <<opens, fd, mmapFailed, mV4l2Buf, devFdMap, step>> /\ step = "mmap"
    BY DEF MapPlane
<1>3. mapped' = mapped \cup {<<fd, i, j>>}
    BY DEF MapPlane
<1>4. start' = [start EXCEPT ![fd][<<i, j>>] = "address"]
    BY DEF MapPlane
<1>5. /\ i' \in 0..Bufs /\ j' \in J
      /\ \A a \in I, b \in J :
            a < i' \/ (a = i' /\ b < j') <=> a < i \/ (a = i /\ b < j) \/ (a = i /\ b = j)
    BY <1>1 DEF MapPlane, I, J
<1>6. TypeInv'
    <2>1. start' \in [Opens -> [Slots -> {"null", "failed", "address"}]]
        BY <1>1, <1>4, SlotFacts DEF TypeInv
    <2> QED
        BY <1>1, <1>2, <1>3, <1>5, <2>1 DEF TypeInv
<1>7. OpeningInv'
    BY <1>2 DEF OpeningInv
<1>8. PrefixInv'
    BY <1>1, <1>2, <1>3, <1>5 DEF PrefixInv, TypeInv
<1>9. RecordInv'
    <2> SUFFICES ASSUME NEW n \in Opens, NEW a \in I, NEW b \in J
                 PROVE  start'[n][<<a, b>>] = "address" <=> <<n, a, b>> \in mapped'
        BY DEF RecordInv
    <2>1. CASE n = fd /\ a = i /\ b = j
        BY <1>1, <1>3, <1>4, <2>1, SlotFacts DEF TypeInv
    <2>2. CASE ~(n = fd /\ a = i /\ b = j)
        <3>1. start'[n][<<a, b>>] = start[n][<<a, b>>]
            BY <1>1, <1>4, <2>2, SlotFacts DEF TypeInv
        <3>2. <<n, a, b>> \in mapped' <=> <<n, a, b>> \in mapped
            BY <1>3, <2>2
        <3> QED
            BY <3>1, <3>2 DEF RecordInv
    <2> QED
        BY <2>1, <2>2
<1>10. LeftInv'
    BY <1>1, <1>2, <1>3 DEF LeftInv
<1> QED
    BY <1>6, <1>7, <1>8, <1>9, <1>10

\* The cleanup unmaps all but the last planes of a buffer and the first of the next.
LEMMA FailKeeps == ASSUME IInv, MapFails PROVE IInv'
<1> USE DeviceAssumption DEF IInv, sourceVars, kernelVars
<1>1. i \in I /\ j \in J /\ fd \in Opens /\ fd = opens /\ step = "mmap" /\ i \in Nat /\ j \in Nat
    BY DEF MapFails, TypeInv, OpeningInv, Opening, I, J
<1>2. UNCHANGED <<opens, fd, i, j, mV4l2Buf, devFdMap>> /\ step' = "idle"
    BY DEF MapFails, GiveUp
<1>3. mmapFailed' = mmapFailed \cup {fd}
    BY DEF MapFails
<1>4. \A a \in I, b \in J : <<a, b>> \in Cleaned <=> a < i - 1 \/ (a = i - 1 /\ b < j)
    BY SlotFacts DEF Cleaned
<1>5. \A n \in Opens, a \in I, b \in J :
          <<n, a, b>> \in mapped' <=> <<n, a, b>> \in mapped /\ ~(n = fd /\ <<a, b>> \in Cleaned)
    <2>1. mapped' = mapped \ {<<fd, s[1], s[2]>> : s \in Cleaned}
        BY DEF MapFails
    <2>2. ASSUME NEW n \in Opens, NEW a \in I, NEW b \in J
          PROVE  <<n, a, b>> \in {<<fd, s[1], s[2]>> : s \in Cleaned} <=> n = fd /\ <<a, b>> \in Cleaned
        <3>1. Cleaned \subseteq Slots
            BY DEF Cleaned
        <3>2. ASSUME NEW s \in Cleaned, <<n, a, b>> = <<fd, s[1], s[2]>>
              PROVE  n = fd /\ <<a, b>> \in Cleaned
            BY <3>1, <3>2, SlotFacts
        <3>3. ASSUME n = fd, <<a, b>> \in Cleaned
              PROVE  \E s \in Cleaned : <<n, a, b>> = <<fd, s[1], s[2]>>
            BY <3>3
        <3> QED
            BY <3>2, <3>3
    <2> QED
        BY <2>1, <2>2
<1>6. mapped' \subseteq mapped
    BY DEF MapFails
<1>7. \A n \in Opens \ {fd} : start'[n] = start[n]
    BY <1>1 DEF MapFails, TypeInv
<1>8. start'[fd] = [s \in Slots |-> CASE s = <<i, j>>   -> "failed"
                                      [] s \in Cleaned  -> "null"
                                      [] OTHER          -> start[fd][s]]
    BY <1>1 DEF MapFails, TypeInv
<1>9. <<i, j>> \notin Cleaned
    BY <1>1, <1>4
<1>10. TypeInv'
    <2>1. start'[fd] \in [Slots -> {"null", "failed", "address"}]
        BY <1>1, <1>8 DEF TypeInv
    <2>2. start' \in [Opens -> [Slots -> {"null", "failed", "address"}]]
        BY <1>7, <2>1 DEF MapFails, TypeInv
    <2> QED
        BY <1>1, <1>2, <1>3, <1>6, <2>2 DEF TypeInv
<1>11. OpeningInv' /\ PrefixInv'
    BY <1>1, <1>2, <1>3, <1>6 DEF OpeningInv, Opening, PrefixInv, Opens
<1>12. RecordInv'
    <2> SUFFICES ASSUME NEW n \in Opens, NEW a \in I, NEW b \in J
                 PROVE  start'[n][<<a, b>>] = "address" <=> <<n, a, b>> \in mapped'
        BY DEF RecordInv
    <2>1. CASE n # fd
        BY <1>5, <1>7, <2>1 DEF RecordInv
    <2>2. CASE n = fd /\ a = i /\ b = j
        <3>1. <<n, a, b>> \notin mapped
            BY <1>1, <2>2 DEF PrefixInv
        <3>2. start'[n][<<a, b>>] = "failed"
            BY <1>8, <1>9, <2>2, SlotFacts
        <3> QED
            BY <1>6, <3>1, <3>2
    <2>3. CASE n = fd /\ <<a, b>> \in Cleaned
        <3>1. start'[n][<<a, b>>] = "null"
            BY <1>8, <1>9, <2>3, SlotFacts
        <3> QED
            BY <1>5, <2>3, <3>1
    <2>4. CASE n = fd /\ ~(a = i /\ b = j) /\ <<a, b>> \notin Cleaned
        <3>1. start'[n][<<a, b>>] = start[n][<<a, b>>]
            BY <1>8, <2>4, SlotFacts
        <3> QED
            BY <1>5, <2>4, <3>1 DEF RecordInv
    <2> QED
        BY <2>1, <2>2, <2>3, <2>4
<1>13. LeftInv'
    <2> SUFFICES ASSUME NEW n \in mmapFailed', NEW a1 \in I, NEW a2 \in I, NEW b \in J,
                        <<n, a1, b>> \in mapped', <<n, a2, b>> \in mapped'
                 PROVE  a1 = a2
        BY DEF LeftInv
    <2>1. CASE n = fd
        <3>1. /\ a1 < i \/ (a1 = i /\ b < j)
              /\ a2 < i \/ (a2 = i /\ b < j)
            BY <1>1, <1>5, <2>1 DEF PrefixInv
        <3>2. /\ ~(a1 < i - 1 \/ (a1 = i - 1 /\ b < j))
              /\ ~(a2 < i - 1 \/ (a2 = i - 1 /\ b < j))
            BY <1>1, <1>4, <1>5, <2>1
        <3> QED
            BY <1>1, <3>1, <3>2 DEF I, J
    <2>2. CASE n # fd
        BY <1>3, <1>6, <2>2 DEF LeftInv
    <2> QED
        BY <2>1, <2>2
<1> QED
    BY <1>10, <1>11, <1>12, <1>13

\* videoExit unmaps what its table records, and nothing else.
LEMMA UnmapKeeps == ASSUME IInv, Munmap PROVE IInv'
<1> USE DeviceAssumption DEF IInv, sourceVars, kernelVars, histVars, memVars
<1>1. /\ UNCHANGED <<opens, fd, i, j, mV4l2Buf, devFdMap, mmapFailed>>
      /\ step' \in {"crashed", "relbufs"} /\ mapped' \subseteq mapped
    BY DEF Munmap
<1>2. OpeningInv' /\ PrefixInv' /\ LeftInv'
    BY <1>1 DEF OpeningInv, Opening, PrefixInv, LeftInv
<1>3. CASE mV4l2Buf = None
    BY <1>1, <1>2, <1>3 DEF Munmap, TypeInv, RecordInv
<1>4. CASE mV4l2Buf # None
    <2>1. mV4l2Buf \in Opens
        BY <1>4 DEF TypeInv, None, Opens
    <2>2. start' = [start EXCEPT ![mV4l2Buf] = [s \in Slots |-> "null"]]
        BY <1>4 DEF Munmap
    <2>3. mapped' = mapped \ UnmapRecorded(mV4l2Buf)
        BY <1>4 DEF Munmap
    <2>4. TypeInv'
        BY <1>1, <2>1, <2>2 DEF TypeInv
    <2>5. \A n \in Opens, a \in I, b \in J :
              <<n, a, b>> \in mapped' <=> <<n, a, b>> \in mapped /\ n # mV4l2Buf
        BY <2>3 DEF UnmapRecorded, RecordInv
    <2>6. RecordInv'
        <3> SUFFICES ASSUME NEW n \in Opens, NEW a \in I, NEW b \in J
                     PROVE  start'[n][<<a, b>>] = "address" <=> <<n, a, b>> \in mapped'
            BY DEF RecordInv
        <3>1. CASE n = mV4l2Buf
            BY <2>1, <2>2, <2>5, <3>1, SlotFacts DEF TypeInv
        <3>2. CASE n # mV4l2Buf
            BY <2>1, <2>2, <2>5, <3>2 DEF TypeInv, RecordInv
        <3> QED
            BY <3>1, <3>2
    <2> QED
        BY <1>2, <2>4, <2>6
<1> QED
    BY <1>3, <1>4

LEMMA NextInv == IInv /\ [Next]_vars => IInv'
    BY BesideKeeps, MapKeeps, FailKeeps, UnmapKeeps DEF Next, VideoInit, Destructor, Beside

LEMMA Invariance == Spec => []IInv
    BY InitInv, NextInv, PTL DEF Spec
------------------------------------------------------------------------------
\* The mappings of a descriptor, no two of them of the same plane, are at most as
\* many as a buffer has planes.
LEMMA DistinctPlanes ==
    ASSUME TypeInv, LeftInv, NEW n \in mmapFailed
    PROVE  Cardinality(MappingsOf(n)) <= Planes
<1> DEFINE f == [m \in MappingsOf(n) |-> m[3]]
<1>1. \A m \in MappingsOf(n) : m[2] \in I /\ m[3] \in J /\ m = <<n, m[2], m[3]>> /\ m \in mapped
    BY DEF MappingsOf, TypeInv
<1>2. \A m1, m2 \in MappingsOf(n) : m1[3] = m2[3] => m1 = m2
    <2> SUFFICES ASSUME NEW m1 \in MappingsOf(n), NEW m2 \in MappingsOf(n), m1[3] = m2[3]
                 PROVE  m1 = m2
        OBVIOUS
    <2>1. <<n, m1[2], m1[3]>> \in mapped /\ <<n, m2[2], m1[3]>> \in mapped
        BY <1>1
    <2>2. m1[2] = m2[2]
        BY <1>1, <2>1 DEF LeftInv
    <2> QED
        BY <1>1, <2>2
<1>3. f \in Injection(MappingsOf(n), J)
    BY <1>1, <1>2 DEF Injection, IsInjective
<1>4. IsFiniteSet(J) /\ Cardinality(J) = Planes
    BY FS_Interval, DeviceAssumption DEF J
<1>5. Planes \in Nat /\ Cardinality(MappingsOf(n)) <= Cardinality(J)
    BY <1>3, <1>4, FS_Injection, DeviceAssumption
<1> QED
    BY <1>4, <1>5

\* However many devices are opened, in whatever order their calls fail, the table of
\* each says which of its planes are mapped, and the cleanup of v4l2_mmap leaves no
\* more of them than a buffer has.
THEOREM TablesRecordMappings == Spec => []MappingsAreRecorded
<1>1. IInv => MappingsAreRecorded
    <2> SUFFICES ASSUME IInv PROVE MappingsAreRecorded
        OBVIOUS
    <2>1. \A n \in Opens, s \in Slots : start[n][s] = "address" <=> <<n, s[1], s[2]>> \in mapped
        <3> SUFFICES ASSUME NEW n \in Opens, NEW s \in Slots
                     PROVE  start[n][s] = "address" <=> <<n, s[1], s[2]>> \in mapped
            OBVIOUS
        <3>1. s[1] \in I /\ s[2] \in J /\ s = <<s[1], s[2]>>
            BY SlotFacts
        <3>2. start[n][<<s[1], s[2]>>] = "address" <=> <<n, s[1], s[2]>> \in mapped
            BY <3>1 DEF IInv, RecordInv
        <3> QED
            BY <3>1, <3>2
    <2>2. \A n \in mmapFailed : Cardinality(MappingsOf(n)) <= Planes
        BY DistinctPlanes DEF IInv
    <2> QED
        BY <2>1, <2>2 DEF MappingsAreRecorded
<1> QED
    BY <1>1, Invariance, PTL
------------------------------------------------------------------------------
\* What the kernel has, as long as no videoInit failed: everything of each device
\* that was opened, and of the one that is being opened what its step implies.

MappedIs(S) == \A n \in Opens, a \in I, b \in J : <<n, a, b>> \in mapped <=> n \in S

\* The first n devices that were opened are in devFdMap.
Known(n) == \A m \in 1..n : devFdMap[devOf[m]] # None

RangeInv ==
    /\ mFd \in 0..opens /\ mV4l2Buf \in 0..opens
    /\ devFdMap \in [Devs -> 0..opens]
    /\ devOf \in [Opens -> Devs]

IdleInv ==
    step = "idle" =>
        /\ open = 1..opens /\ streaming = 1..opens /\ MappedIs(1..opens)
        /\ Known(opens)
        /\ mFd \in {None, mV4l2Buf}

SetUpInv ==
    step \in Opening \cup {"streamon", "select"} =>
        /\ fd = opens /\ opens > 0 /\ open = 1..opens
        /\ Known(opens - 1) /\ devOf[fd] = dev
        /\ streaming = 1..(IF step = "select" THEN opens ELSE opens - 1)
        /\ step \in Opening => \A n \in 1..opens - 1, a \in I, b \in J : <<n, a, b>> \in mapped
        /\ step \notin Opening => MappedIs(1..opens)
        /\ step \in {"querybuf", "mmap", "streamon", "select"} => mV4l2Buf = fd

TearDownInv ==
    step \in {"munmap", "relbufs", "free", "close", "aborted"} =>
        /\ mFd = mV4l2Buf /\ mFd # None
        /\ open = 1..opens /\ streaming = (1..opens) \ {mFd}
        /\ step # "munmap" => MappedIs((1..opens) \ {mFd})
        /\ step = "munmap" => MappedIs(1..opens)

EndInv ==
    /\ step = "exited" =>
          open = (1..opens) \ {mV4l2Buf} /\ streaming = open /\ MappedIs((1..opens) \ {mV4l2Buf})
    /\ step = "gaveUp" => mFd = None \/ exitFailed
    /\ step \notin {"crashed", "killed"}

Good == RangeInv /\ IdleInv /\ SetUpInv /\ TearDownInv /\ EndInv

GoodInv == ~initFailed => Good

LEMMA GoodInit == Init => GoodInv
<1> SUFFICES ASSUME Init PROVE Good
    BY DEF GoodInv
<1> USE DeviceAssumption DEF Init, None, Opens
<1>1. RangeInv /\ IdleInv
    BY DEF RangeInv, IdleInv, MappedIs, Known
<1>2. SetUpInv /\ TearDownInv /\ EndInv
    BY DEF SetUpInv, Opening, TearDownInv, EndInv
<1> QED
    BY <1>1, <1>2 DEF Good

LEMMA FailedStays == [Next]_vars /\ ~initFailed' => ~initFailed
    BY DEF Next, VideoInit, Destructor, Open, Reopen, Configure, Reqbufs, Querybuf, MapPlane, MapFails,
           QbufAll, Streamon, Select, Deselect, Streamoff, Munmap, Relbufs, Free, CloseFd, GiveUp,
           vars, histVars

LEMMA GoodStep == IInv /\ GoodInv /\ [Next]_vars => GoodInv'
<1> SUFFICES ASSUME IInv, GoodInv, [Next]_vars, ~initFailed' PROVE Good'
    BY DEF GoodInv
<1>0. Good /\ TypeInv
    BY FailedStays DEF GoodInv, IInv
<1> USE <1>0, DeviceAssumption DEF Good, RangeInv, TypeInv, Opens, None, sourceVars, kernelVars, memVars,
        histVars, GiveUp
<1>1. ASSUME NEW d \in Devs, Reopen(d) PROVE Good'
    BY <1>1 DEF Reopen, IdleInv, SetUpInv, Opening, TearDownInv, EndInv, MappedIs, Known
<1>2. CASE Deselect
    BY <1>2 DEF Deselect, IdleInv, SetUpInv, Opening, TearDownInv, EndInv, MappedIs, Known
<1>3. ASSUME NEW d \in Devs, Open(d) PROVE Good'
    <2>1. /\ step = "idle" /\ opens' = opens + 1 /\ fd' = opens' /\ dev' = d
          /\ devOf' = [devOf EXCEPT ![opens + 1] = d] /\ devFdMap[d] = None
          /\ UNCHANGED <<mFd, mV4l2Buf, devFdMap, mapped, streaming>>
        BY <1>3 DEF Open
    <2>2. \A n \in open : devOf[n] # d
        BY <2>1 DEF IdleInv, Known
    <2>3. step' = "configure" /\ open' = open \cup {opens + 1}
        BY <1>3, <2>2 DEF Open
    <2>4. RangeInv'
        BY <1>3, <2>1 DEF Open
    <2>5. SetUpInv'
        <3>0. opens' - 1 = opens /\ opens' > 0
            BY <2>1
        <3>1. open' = 1..opens' /\ streaming' = 1..opens' - 1
            BY <2>1, <2>3 DEF IdleInv
        <3>2. \A m \in 1..opens' - 1 : devFdMap'[devOf'[m]] # None
            <4>1. \A m \in 1..opens : devOf'[m] = devOf[m]
                BY <2>1
            <4> QED
                BY <2>1, <3>0, <4>1 DEF IdleInv, Known
        <3>3. devOf'[fd'] = dev'
            BY <1>3, <2>1 DEF Open
        <3>4. \A n \in 1..opens' - 1, a \in I, b \in J : <<n, a, b>> \in mapped'
            <4>1. \A n \in 1..opens : n \in Opens
                OBVIOUS
            <4> QED
                BY <2>1, <3>0, <4>1 DEF IdleInv, MappedIs
        <3> QED
            BY <2>1, <2>3, <3>0, <3>1, <3>2, <3>3, <3>4 DEF SetUpInv, Opening, Known
    <2>6. IdleInv' /\ TearDownInv' /\ EndInv'
        BY <2>3 DEF IdleInv, TearDownInv, EndInv
    <2> QED
        BY <2>4, <2>5, <2>6
<1>4. CASE Configure \/ Reqbufs \/ Querybuf
    BY <1>4 DEF Configure, Reqbufs, Querybuf, IdleInv, SetUpInv, Opening, TearDownInv, EndInv, MappedIs,
                Known
<1>5. CASE MapPlane
    BY <1>5 DEF MapPlane, IdleInv, SetUpInv, Opening, TearDownInv, EndInv, Known
<1>6. CASE MapFails
    BY <1>6 DEF MapFails
<1>7. CASE QbufAll
    <2>1. /\ step = "mmap" /\ i = Bufs /\ step' = "streamon"
          /\ UNCHANGED <<sourceVars, mapped, kernelVars, opens, dev, fd>>
        BY <1>7 DEF QbufAll
    <2>2. MappedIs(1..opens)
        <3> SUFFICES ASSUME NEW n \in Opens, NEW a \in I, NEW b \in J
                     PROVE  <<n, a, b>> \in mapped <=> n \in 1..opens
            BY DEF MappedIs
        <3>1. fd = opens
            BY <2>1 DEF SetUpInv, Opening
        <3>2. CASE n = fd
            BY <2>1, <3>1, <3>2 DEF IInv, PrefixInv, I, J
        <3>3. CASE n < fd
            BY <2>1, <3>1, <3>3 DEF SetUpInv, Opening
        <3>4. CASE n > fd
            BY <3>1, <3>4 DEF IInv, PrefixInv
        <3> QED
            BY <3>2, <3>3, <3>4
    <2>3. MappedIs(1..opens)'
        BY <2>1, <2>2 DEF MappedIs
    <2> QED
        BY <2>1, <2>3 DEF IdleInv, SetUpInv, Opening, TearDownInv, EndInv, Known
<1>8. CASE Streamon
    <2>1. /\ step = "streamon" /\ step' = "select" /\ streaming' = streaming \cup {fd}
          /\ UNCHANGED <<sourceVars, mapped, open, devOf, opens, dev, fd>>
        BY <1>8 DEF Streamon
    <2>2. streaming' = 1..opens
        BY <2>1 DEF SetUpInv, Opening
    <2> QED
        BY <2>1, <2>2 DEF IdleInv, SetUpInv, Opening, TearDownInv, EndInv, Known, MappedIs
<1>9. CASE Select
    <2>1. /\ step = "select" /\ step' = "idle" /\ mFd' = fd
          /\ devFdMap' = [devFdMap EXCEPT ![dev] = fd]
          /\ UNCHANGED <<mV4l2Buf, mapped, kernelVars, opens, fd>>
        BY <1>9 DEF Select
    <2>2. fd = opens /\ opens > 0 /\ Known(opens - 1) /\ devOf[fd] = dev /\ mV4l2Buf = fd
        BY <2>1 DEF SetUpInv, Opening
    <2>3. Known(opens)'
        BY <2>1, <2>2 DEF Known
    <2>4. open = 1..opens /\ streaming = 1..opens /\ MappedIs(1..opens)
        BY <2>1 DEF SetUpInv, Opening
    <2>5. IdleInv'
        BY <2>1, <2>2, <2>3, <2>4 DEF IdleInv, MappedIs
    <2> QED
        BY <2>1, <2>2, <2>5 DEF SetUpInv, Opening, TearDownInv, EndInv
<1>10. CASE Streamoff
    BY <1>10 DEF Streamoff, IdleInv, SetUpInv, Opening, TearDownInv, EndInv, MappedIs
<1>11. CASE Munmap
    <2>1. step = "munmap" /\ mFd = mV4l2Buf /\ mFd # None /\ MappedIs(1..opens)
        BY <1>11 DEF Munmap, TearDownInv
    <2>2. mapped' = mapped \ UnmapRecorded(mV4l2Buf) /\ step' = "relbufs"
        BY <1>11, <2>1 DEF Munmap
    <2>3. UNCHANGED <<sourceVars, kernelVars, opens>>
        BY <1>11 DEF Munmap
    <2>4. \A n \in Opens, a \in I, b \in J :
              <<n, a, b>> \in mapped' <=> <<n, a, b>> \in mapped /\ n # mV4l2Buf
        BY <2>2 DEF UnmapRecorded, IInv, RecordInv
    <2>5. MappedIs((1..opens) \ {mFd})'
        BY <2>1, <2>3, <2>4 DEF MappedIs
    <2> QED
        BY <2>1, <2>2, <2>3, <2>5 DEF IdleInv, SetUpInv, Opening, TearDownInv, EndInv
<1>12. CASE Relbufs
    <2>1. step = "relbufs" /\ UNCHANGED <<sourceVars, mapped, kernelVars, opens>>
        BY <1>12 DEF Relbufs
    <2>2. \A m \in mapped : m[1] # mFd
        <3>1. MappedIs((1..opens) \ {mFd})
            BY <2>1 DEF TearDownInv
        <3>2. \A m \in mapped : m[1] \in Opens /\ m[2] \in I /\ m[3] \in J /\ m = <<m[1], m[2], m[3]>>
            OBVIOUS
        <3> QED
            BY <3>1, <3>2 DEF MappedIs
    <2>3. step' = "free" \/ (step' = "gaveUp" /\ exitFailed')
        BY <1>12, <2>2 DEF Relbufs
    <2> QED
        BY <2>1, <2>3 DEF IdleInv, SetUpInv, Opening, TearDownInv, EndInv, MappedIs
<1>13. CASE Free
    BY <1>13 DEF Free, IdleInv, SetUpInv, Opening, TearDownInv, EndInv, MappedIs
<1>14. CASE CloseFd
    BY <1>14 DEF CloseFd, IdleInv, SetUpInv, Opening, TearDownInv, EndInv, MappedIs
<1>15. CASE UNCHANGED vars
    BY <1>15 DEF vars, IdleInv, SetUpInv, Opening, TearDownInv, EndInv, MappedIs, Known
<1> QED
    BY <1>1, <1>2, <1>3, <1>4, <1>5, <1>6, <1>7, <1>8, <1>9, <1>10, <1>11, <1>12, <1>13, <1>14, <1>15
    DEF Next, VideoInit, Destructor

\* If no videoInit failed, the destructor releases the selected device and no other,
\* however many devices, buffers and planes there are.
THEOREM DestructorReleases == Spec => []ExitReleases
<1>1. IInv /\ GoodInv => ExitReleases
    <2> SUFFICES ASSUME IInv, Good PROVE step = "exited" => {m[1] : m \in mapped} = open
        BY DEF GoodInv, Good, EndInv, ExitReleases
    <2> SUFFICES ASSUME step = "exited" PROVE {m[1] : m \in mapped} = open
        OBVIOUS
    <2>0. open = (1..opens) \ {mV4l2Buf} /\ MappedIs((1..opens) \ {mV4l2Buf})
        BY DEF Good, EndInv
    <2>1. MappedIs(open) /\ open \subseteq Opens
        <3>1. MappedIs(open)
            BY <2>0 DEF MappedIs
        <3>2. (1..opens) \subseteq Opens
            BY DeviceAssumption DEF IInv, TypeInv, Opens
        <3> QED
            BY <2>0, <3>1, <3>2
    <2>2. \A m \in mapped : m[1] \in open
        <3>1. \A m \in mapped : m[1] \in Opens /\ m[2] \in I /\ m[3] \in J /\ m = <<m[1], m[2], m[3]>>
            BY DEF IInv, TypeInv
        <3> QED
            BY <2>1, <3>1 DEF MappedIs
    <2>3. ASSUME NEW n \in open PROVE \E m \in mapped : n = m[1]
        <3>1. 0 \in I /\ 0 \in J
            BY DeviceAssumption DEF I, J
        <3>2. <<n, 0, 0>> \in mapped
            BY <2>1, <3>1 DEF MappedIs
        <3> QED
            BY <3>2
    <2> QED
        BY <2>2, <2>3
<1> QED
    BY <1>1, Invariance, GoodInit, GoodStep, PTL DEF Spec
==============================================================================
