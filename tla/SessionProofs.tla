---------------------------- MODULE SessionProofs -----------------------------
(***************************************************************************)
(* Which null pointers the session can meet, for any number of clients and *)
(* offers: proofs about WebrtcSession.                                     *)
(***************************************************************************)
EXTENDS WebrtcSession, TLAPS

\* The types that the argument uses.
TypeInv ==
    /\ pc \in Nat /\ track \in Nat /\ offers \in Nat
    /\ handler \in [Clients -> {"idle", "addTrack", "store", "setup", "describe"}]
    /\ offer \in [Clients -> Nat]
    /\ setupFor \in [Ids -> Clients \cup {NoClient}]
    /\ chan \in [Ids -> {"none", "open", "closing", "closed"}]
    /\ proc \in [Ids -> {"idle", "reset", "run", "close", "null", "send"}]
    /\ gaveUp \in BOOLEAN /\ nulled \in BOOLEAN

\* pc is the connection of the last offer, and whoever creates one has an offer.
OfferInv ==
    /\ pc = offers
    /\ \A c \in Clients : handler[c] # "idle" => offer[c] # Null

\* After its first read of track the event loop meets null only after a disconnect.
VideoInv == loop \in {"videoTest", "videoSend"} /\ track = Null => nulled

\* A command is processed for a channel that opened, and a channel opens for a
\* connection that was set up, ...
ChannelInv ==
    \A n \in Ids :
        /\ proc[n] # "idle" => chan[n] # "none"
        /\ chan[n] # "none" => setupFor[n] # NoClient

SetUp ==
    \/ \E c \in Clients : handler[c] \in {"setup", "describe"}
    \/ \E n \in Ids : setupFor[n] # NoClient

\* ... which it is after its track was stored.
TrackInv == SetUp => track # Null \/ gaveUp

IInv == TypeInv /\ OfferInv /\ VideoInv /\ ChannelInv /\ TrackInv /\ CrashNeeds
------------------------------------------------------------------------------
LEMMA InitInv == Init => IInv
<1> SUFFICES ASSUME Init PROVE IInv
    OBVIOUS
<1>1. TypeInv /\ OfferInv
    BY DEF Init, TypeInv, OfferInv, Null
<1>2. VideoInv /\ ChannelInv /\ TrackInv /\ CrashNeeds
    BY DEF Init, VideoInv, ChannelInv, TrackInv, SetUp, CrashNeeds
<1> QED
    BY <1>1, <1>2 DEF IInv
------------------------------------------------------------------------------
\* The steps in which nothing changes that the invariant speaks of.
Frame == UNCHANGED <<pc, track, offers, handler, offer, setupFor, chan, proc, gaveUp, nulled, loop,
                     crashed>>

LEMMA FrameKeeps == IInv /\ Frame => IInv'
<1> SUFFICES ASSUME IInv, Frame PROVE IInv'
    OBVIOUS
<1>1. TypeInv' /\ OfferInv'
    BY DEF IInv, Frame, TypeInv, OfferInv
<1>2. VideoInv' /\ ChannelInv' /\ TrackInv' /\ CrashNeeds'
    BY DEF IInv, Frame, VideoInv, ChannelInv, TrackInv, SetUp, CrashNeeds
<1> QED
    BY <1>1, <1>2 DEF IInv

LEMMA SocketKeeps == ASSUME IInv, NEW c \in Clients, Socket(c) PROVE IInv'
<1>1. Frame
    BY DEF Socket, ClientConnected, Leave, SocketCloses, OnClosed, Frame, memberVars, offerVars,
           pcVars, chanVars, histVars
<1> QED
    BY <1>1, FrameKeeps

\* createPeerConnection and the other messages of a WebSocket.
LEMMA CreateKeeps == ASSUME IInv, crashed = "no", NEW c \in Clients, CreatePeerConnection(c)
                     PROVE  IInv'
<1> USE SessionAssumption DEF IInv, TypeInv, Null, memberVars, wsVars, offerVars, pcVars, chanVars,
                              histVars, Ids
<1>1. CASE Offer(c)
    <2>1. TypeInv'
        BY <1>1 DEF Offer, ClosesLater
    <2>2. OfferInv' /\ VideoInv'
        BY <1>1 DEF Offer, OfferInv, VideoInv
    <2>3. ChannelInv'
        BY <1>1 DEF Offer, ClosesLater, ChannelInv
    <2>4. SetUp' => SetUp
        BY <1>1 DEF Offer, SetUp
    <2>5. TrackInv' /\ CrashNeeds'
        BY <1>1, <2>4 DEF Offer, TrackInv, CrashNeeds
    <2> QED
        BY <2>1, <2>2, <2>3, <2>5 DEF IInv
<1>2. CASE AddTrack(c)
    <2>1. TypeInv' /\ OfferInv'
        BY <1>2 DEF AddTrack, OfferInv
    <2>2. SetUp' => SetUp
        BY <1>2 DEF AddTrack, SetUp
    <2>3. VideoInv' /\ ChannelInv' /\ TrackInv' /\ CrashNeeds'
        BY <1>2, <2>2 DEF AddTrack, VideoInv, ChannelInv, TrackInv, CrashNeeds
    <2> QED
        BY <2>1, <2>3 DEF IInv
<1>3. CASE StoreTrack(c)
    <2>1. track' = offer[c] /\ track' \in Nat /\ track' # Null
        BY <1>3 DEF StoreTrack, Stored, OfferInv
    <2>2. TypeInv' /\ OfferInv'
        BY <1>3, <2>1 DEF StoreTrack, OfferInv
    <2>3. VideoInv' /\ ChannelInv' /\ TrackInv' /\ CrashNeeds'
        BY <1>3, <2>1 DEF StoreTrack, VideoInv, ChannelInv, TrackInv, CrashNeeds
    <2> QED
        BY <2>2, <2>3 DEF IInv
<1>4. CASE PeerConnectionSetup(c)
    <2>1. TypeInv' /\ OfferInv'
        BY <1>4 DEF PeerConnectionSetup, OfferInv
    <2>2. SetUp
        BY <1>4 DEF PeerConnectionSetup, SetUp
    <2>3. VideoInv' /\ ChannelInv' /\ TrackInv' /\ CrashNeeds'
        BY <1>4, <2>2 DEF PeerConnectionSetup, VideoInv, ChannelInv, TrackInv, CrashNeeds
    <2> QED
        BY <2>1, <2>3 DEF IInv
<1>5. CASE SetRemoteDescription(c)
    <2>1. TypeInv' /\ OfferInv'
        BY <1>5 DEF SetRemoteDescription, OfferInv
    <2>2. SetUp' => SetUp
        BY <1>5 DEF SetRemoteDescription, SetUp
    <2>3. VideoInv' /\ ChannelInv' /\ TrackInv' /\ CrashNeeds'
        BY <1>5, <2>2 DEF SetRemoteDescription, VideoInv, ChannelInv, TrackInv, CrashNeeds
    <2> QED
        BY <2>1, <2>3 DEF IInv
<1>6. CASE AnswerOrCandidate(c)
    <2>1. TypeInv' /\ OfferInv'
        BY <1>6 DEF AnswerOrCandidate, OfferInv
    <2>2. SetUp' => SetUp
        BY <1>6 DEF AnswerOrCandidate, SetUp
    <2>3. VideoInv' /\ ChannelInv' /\ TrackInv'
        BY <1>6, <2>2 DEF AnswerOrCandidate, VideoInv, ChannelInv, TrackInv
    <2>4. CrashNeeds'
        BY <1>6 DEF AnswerOrCandidate, CrashNeeds, OfferInv
    <2> QED
        BY <2>1, <2>3, <2>4 DEF IInv
<1> QED
    BY <1>1, <1>2, <1>3, <1>4, <1>5, <1>6 DEF CreatePeerConnection

\* What the callbacks of a connection and its commands leave alone.
LEMMA ChannelFrame ==
    ASSUME NEW n \in Ids, Connection(n) \/ ProcessPacket(n)
    PROVE  UNCHANGED <<pc, offers, handler, offer, setupFor, loop>>
    BY DEF Connection, TrackOpens, OnDataChannel, ChannelCloses, OnChannelClosed, ProcessPacket,
           Command, Reset, Run, DisconnectClose, DisconnectNull, SendReply, memberVars, offerVars,
           pcVars

LEMMA ConnectionKeeps == ASSUME IInv, crashed = "no", NEW n \in Ids, Connection(n) PROVE IInv'
<1> USE DEF IInv, TypeInv, memberVars, chanVars, pcVars, histVars
<1>1. UNCHANGED <<pc, offers, handler, offer, setupFor, loop>>
    BY ChannelFrame
<1>2. UNCHANGED <<track, proc, gaveUp, nulled, crashed>>
    BY DEF Connection, TrackOpens, OnDataChannel, ChannelCloses, OnChannelClosed
<1>3. chan' \in [Ids -> {"none", "open", "closing", "closed"}]
    BY DEF Connection, TrackOpens, OnDataChannel, ChannelCloses, OnChannelClosed
<1>4. \A m \in Ids : chan[m] # "none" => chan'[m] # "none"
    BY DEF Connection, TrackOpens, OnDataChannel, ChannelCloses, OnChannelClosed
<1>5. \A m \in Ids : chan'[m] # "none" => chan[m] # "none" \/ setupFor[m] # NoClient
    BY DEF Connection, TrackOpens, OnDataChannel, ChannelCloses, OnChannelClosed, Negotiated
<1>6. TypeInv' /\ OfferInv' /\ VideoInv'
    BY <1>1, <1>2, <1>3 DEF OfferInv, VideoInv
<1>7. ChannelInv'
    BY <1>1, <1>2, <1>4, <1>5 DEF ChannelInv
<1>8. TrackInv' /\ CrashNeeds'
    BY <1>1, <1>2 DEF TrackInv, SetUp, CrashNeeds
<1> QED
    BY <1>6, <1>7, <1>8 DEF IInv

LEMMA PacketKeeps == ASSUME IInv, crashed = "no", NEW n \in Ids, ProcessPacket(n) PROVE IInv'
<1> USE DEF IInv, TypeInv, memberVars, chanVars, pcVars, histVars
<1>1. UNCHANGED <<pc, offers, handler, offer, setupFor, loop>>
    BY ChannelFrame
<1>2. chan' = chan
    BY DEF ProcessPacket, Command, Reset, Run, DisconnectClose, DisconnectNull, SendReply
<1>3. proc' \in [Ids -> {"idle", "reset", "run", "close", "null", "send"}]
    BY DEF ProcessPacket, Command, Reset, Run, DisconnectClose, DisconnectNull, SendReply
<1>4. \A m \in Ids : proc'[m] # "idle" => proc[m] # "idle" \/ chan[m] # "none"
    BY DEF ProcessPacket, Command, Reset, Run, DisconnectClose, DisconnectNull, SendReply
<1>5. ChannelInv' /\ OfferInv'
    BY <1>1, <1>2, <1>4 DEF ChannelInv, OfferInv
<1>6. SetUp' = SetUp
    BY <1>1 DEF SetUp
<1>7. CASE DisconnectNull(n)
    <2>1. TypeInv'
        BY <1>1, <1>2, <1>3, <1>7 DEF DisconnectNull, Null
    <2>2. VideoInv' /\ TrackInv'
        BY <1>1, <1>7 DEF DisconnectNull, VideoInv, TrackInv
    <2>3. CrashNeeds'
        BY <1>7 DEF DisconnectNull, CrashNeeds
    <2> QED
        BY <1>5, <2>1, <2>2, <2>3 DEF IInv
<1>8. CASE DisconnectClose(n)
    <2>1. UNCHANGED <<track, gaveUp, nulled>>
        BY <1>8 DEF DisconnectClose
    <2>2. TypeInv' /\ VideoInv' /\ TrackInv'
        BY <1>1, <1>2, <1>3, <1>6, <2>1 DEF VideoInv, TrackInv
    <2>3. proc[n] = "close"
        BY <1>8 DEF DisconnectClose
    <2>4. SetUp
        BY <2>3 DEF ChannelInv, SetUp
    <2>5. CrashNeeds'
        BY <1>8, <2>1, <2>4 DEF DisconnectClose, TrackInv, CrashNeeds
    <2> QED
        BY <1>5, <2>2, <2>5 DEF IInv
<1>9. CASE (\E k \in Commands : Command(n, k)) \/ Reset(n) \/ Run(n) \/ SendReply(n)
    <2>1. UNCHANGED <<track, gaveUp, nulled, crashed>>
        BY <1>9 DEF Command, Reset, Run, SendReply
    <2>2. TypeInv' /\ VideoInv' /\ TrackInv' /\ CrashNeeds'
        BY <1>1, <1>2, <1>3, <1>6, <2>1 DEF VideoInv, TrackInv, CrashNeeds
    <2> QED
        BY <1>5, <2>2 DEF IInv
<1> QED
    BY <1>7, <1>8, <1>9 DEF ProcessPacket

LEMMA LoopKeeps == ASSUME IInv, crashed = "no", EventLoop PROVE IInv'
<1> USE DEF IInv, TypeInv, memberVars, offerVars, chanVars, pcVars, histVars
<1>1. UNCHANGED <<pc, track, offers, handler, offer, setupFor, chan, proc, gaveUp>>
    BY DEF EventLoop, VideoBegin, VideoTestOpen, VideoSend, CtlBegin, CtlWrite, CtlSend
<1>2. TypeInv' /\ OfferInv' /\ ChannelInv'
    BY <1>1 DEF EventLoop, VideoBegin, VideoTestOpen, VideoSend, CtlBegin, CtlWrite, CtlSend,
                OfferInv, ChannelInv
<1>3. TrackInv'
    BY <1>1 DEF TrackInv, SetUp
<1>4. VideoInv' /\ CrashNeeds'
    BY <1>1 DEF EventLoop, VideoBegin, VideoTestOpen, VideoSend, CtlBegin, CtlWrite, CtlSend,
                TestIfSet, VideoInv, CrashNeeds
<1> QED
    BY <1>2, <1>3, <1>4 DEF IInv

LEMMA NextInv == IInv /\ [Next]_vars => IInv'
<1> SUFFICES ASSUME IInv, [Next]_vars PROVE IInv'
    OBVIOUS
<1>1. CASE Next
    BY <1>1, SocketKeeps, CreateKeeps, ConnectionKeeps, PacketKeeps, LoopKeeps DEF Next
<1>2. CASE UNCHANGED vars
    <2>1. Frame
        BY <1>2 DEF vars, Frame, memberVars, offerVars, pcVars, chanVars, histVars
    <2> QED
        BY <2>1, FrameKeeps
<1> QED
    BY <1>1, <1>2

LEMMA Invariance == Spec => []IInv
    BY InitInv, NextInv, PTL DEF Spec
------------------------------------------------------------------------------
\* Whatever messages, commands and disconnects cross each other, the session uses
\* a null pointer only in the three ways that CrashNeeds lists.
THEOREM NullsAreKnown == Spec => []CrashNeeds
<1>1. IInv => CrashNeeds
    BY DEF IInv
<1> QED
    BY <1>1, Invariance, PTL
------------------------------------------------------------------------------
\* The rest of the invariant is about who may act, and holds as long as clients
\* come one after the other.

MoreTypes ==
    /\ offers \in 0..MaxOffers
    /\ mDc \in 0..MaxOffers
    /\ remote \in [Clients -> {"away", "here", "gone"}]
    /\ ws \in [Clients -> {"none", "open", "closed"}]
    /\ owner \in [Ids -> Clients \cup {NoClient}]
    /\ trackPc \in [Ids -> Nat]
    /\ applied \in [Ids -> SUBSET Clients]
    /\ cmd \in [Ids -> Commands \cup {"none"}]

\* A client that has not come yet has offered nothing, and a WebSocket is about to
\* report its end only if its client has left.
AwayInv ==
    \A c \in Clients :
        /\ remote[c] = "away" => offer[c] = Null
        /\ c \in closing => remote[c] = "gone"

\* Connections that no offer has created yet.
FreshInv ==
    \A n \in Ids : n > offers => applied[n] = {} /\ setupFor[n] = NoClient /\ chan[n] = "none"

\* Only the channel of the current connection is open.
OpenInv == \A n \in Ids : chan[n] = "open" => n = pc

Active(c) == remote[c] = "here" \/ Busy(c)

\* At most one client is here or has something that runs, and if it offered, its
\* offer is the last one.
OneInv ==
    ~overlap =>
        /\ \A c, d \in Clients : Active(c) /\ Active(d) => c = d
        /\ \A c \in Clients : Active(c) /\ offer[c] # Null => offer[c] = offers /\ owner[offers] = c

\* Commands are processed for the current connection.
ProcInv == ~overlap => \A n \in Ids : proc[n] # "idle" => n = pc

Who == MoreTypes /\ AwayInv /\ FreshInv /\ OpenInv /\ OneInv /\ ProcInv

LEMMA WhoInit == Init => Who
<1> SUFFICES ASSUME Init PROVE Who
    OBVIOUS
<1>1. MoreTypes
    <2>1. offers \in 0..MaxOffers /\ mDc \in 0..MaxOffers
        BY SessionAssumption DEF Init, Null
    <2>2. remote \in [Clients -> {"away", "here", "gone"}] /\ ws \in [Clients -> {"none", "open", "closed"}]
        BY DEF Init
    <2>3. owner \in [Ids -> Clients \cup {NoClient}] /\ trackPc \in [Ids -> Nat]
        BY DEF Init, Null
    <2>4. applied \in [Ids -> SUBSET Clients] /\ cmd \in [Ids -> Commands \cup {"none"}]
        BY DEF Init
    <2> QED
        BY <2>1, <2>2, <2>3, <2>4 DEF MoreTypes
<1>2. AwayInv /\ FreshInv /\ OpenInv
    BY DEF Init, AwayInv, FreshInv, OpenInv
<1>3. OneInv /\ ProcInv
    BY DEF Init, OneInv, ProcInv, Active, Busy
<1> QED
    BY <1>1, <1>2, <1>3 DEF Who

LEMMA MoreTypesStep == IInv /\ Who /\ [Next]_vars => MoreTypes'
<1> SUFFICES ASSUME IInv, Who, [Next]_vars PROVE MoreTypes'
    OBVIOUS
<1> USE SessionAssumption DEF Who, MoreTypes, memberVars, wsVars, offerVars, pcVars, chanVars, histVars,
                              Null
<1>1. ASSUME NEW c \in Clients, Socket(c) PROVE MoreTypes'
    <2>1. remote' \in [Clients -> {"away", "here", "gone"}]
        BY <1>1 DEF Socket, ClientConnected, Leave, SocketCloses, OnClosed
    <2>2. ws' \in [Clients -> {"none", "open", "closed"}]
        BY <1>1 DEF Socket, ClientConnected, Leave, SocketCloses, OnClosed, ReplaceClient
    <2>3. UNCHANGED <<offerVars, pcVars, chanVars, mDc>>
        BY <1>1 DEF Socket, ClientConnected, Leave, SocketCloses, OnClosed
    <2> QED
        BY <2>1, <2>2, <2>3
<1>2. ASSUME NEW c \in Clients, CreatePeerConnection(c) PROVE MoreTypes'
    <2> USE <1>2 DEF CreatePeerConnection, Offer, AddTrack, StoreTrack, PeerConnectionSetup,
                     SetRemoteDescription, AnswerOrCandidate
    <2>1. UNCHANGED <<mDc, remote, cmd>>
        OBVIOUS
    <2>2. offers' \in 0..MaxOffers
        OBVIOUS
    <2>3. ws' \in [Clients -> {"none", "open", "closed"}]
        BY DEF Dropped
    <2>4. owner' \in [Ids -> Clients \cup {NoClient}]
        OBVIOUS
    <2>5. trackPc' \in [Ids -> Nat]
        BY DEF IInv, TypeInv
    <2>6. applied' \in [Ids -> SUBSET Clients]
        OBVIOUS
    <2> QED
        BY <2>1, <2>2, <2>3, <2>4, <2>5, <2>6
<1>3. ASSUME NEW n \in Ids, Connection(n) \/ ProcessPacket(n) PROVE MoreTypes'
    <2> USE <1>3 DEF Connection, TrackOpens, OnDataChannel, ChannelCloses, OnChannelClosed,
                     ProcessPacket, Command, Reset, Run, DisconnectClose, DisconnectNull, SendReply
    <2>1. UNCHANGED <<remote, wsVars, offerVars, trackPc, applied>>
        OBVIOUS
    <2>2. mDc' \in 0..MaxOffers
        BY DEF StoreChannel, Ids
    <2>3. cmd' \in [Ids -> Commands \cup {"none"}]
        OBVIOUS
    <2> QED
        BY <2>1, <2>2, <2>3
<1>4. CASE EventLoop
    BY <1>4 DEF EventLoop, VideoBegin, VideoTestOpen, VideoSend, CtlBegin, CtlWrite, CtlSend
<1>5. CASE UNCHANGED vars
    BY <1>5 DEF vars
<1> QED
    BY <1>1, <1>2, <1>3, <1>4, <1>5 DEF Next

LEMMA AwayStep == IInv /\ Who /\ [Next]_vars => AwayInv'
<1> SUFFICES ASSUME IInv, Who, [Next]_vars PROVE AwayInv'
    OBVIOUS
<1> USE DEF Who, MoreTypes, AwayInv, memberVars, wsVars, offerVars, pcVars, chanVars, histVars
<1>1. ASSUME NEW c \in Clients, Socket(c) PROVE AwayInv'
    BY <1>1 DEF Socket, ClientConnected, Leave, SocketCloses, OnClosed
<1>2. ASSUME NEW c \in Clients, CreatePeerConnection(c) PROVE AwayInv'
    BY <1>2 DEF CreatePeerConnection, Offer, Message, AddTrack, StoreTrack, PeerConnectionSetup,
                SetRemoteDescription, AnswerOrCandidate, IInv, TypeInv
<1>3. ASSUME NEW n \in Ids, Connection(n) \/ ProcessPacket(n) PROVE AwayInv'
    BY <1>3 DEF Connection, TrackOpens, OnDataChannel, ChannelCloses, OnChannelClosed,
                ProcessPacket, Command, Reset, Run, DisconnectClose, DisconnectNull, SendReply
<1>4. CASE EventLoop
    BY <1>4 DEF EventLoop, VideoBegin, VideoTestOpen, VideoSend, CtlBegin, CtlWrite, CtlSend
<1>5. CASE UNCHANGED vars
    BY <1>5 DEF vars
<1> QED
    BY <1>1, <1>2, <1>3, <1>4, <1>5 DEF Next

LEMMA ChannelStep == IInv /\ Who /\ [Next]_vars => FreshInv' /\ OpenInv'
<1> SUFFICES ASSUME IInv, Who, [Next]_vars PROVE FreshInv' /\ OpenInv'
    OBVIOUS
<1> USE DEF Who, MoreTypes, FreshInv, OpenInv, memberVars, wsVars, offerVars, pcVars, chanVars, histVars
<1>1. ASSUME NEW c \in Clients, Socket(c) PROVE FreshInv' /\ OpenInv'
    BY <1>1 DEF Socket, ClientConnected, Leave, SocketCloses, OnClosed
<1>2. ASSUME NEW c \in Clients, CreatePeerConnection(c) PROVE FreshInv' /\ OpenInv'
    <2>1. CASE Offer(c)
        <3>1. FreshInv'
            BY <2>1, SessionAssumption DEF Offer, ClosesLater, Ids, IInv, TypeInv
        <3>2. OpenInv'
            BY <2>1 DEF Offer, ClosesLater, IInv, TypeInv
        <3> QED
            BY <3>1, <3>2
    <2>2. CASE AddTrack(c) \/ StoreTrack(c) \/ PeerConnectionSetup(c) \/ SetRemoteDescription(c)
               \/ AnswerOrCandidate(c)
        <3>1. UNCHANGED <<pc, offers, chan>>
            BY <2>2 DEF AddTrack, StoreTrack, PeerConnectionSetup, SetRemoteDescription,
                        AnswerOrCandidate
        <3>2. \A n \in Ids : n # pc => applied'[n] = applied[n] /\ setupFor'[n] = setupFor[n]
            BY <2>2 DEF AddTrack, StoreTrack, PeerConnectionSetup, SetRemoteDescription,
                        AnswerOrCandidate, IInv, TypeInv
        <3> QED
            BY <3>1, <3>2 DEF IInv, TypeInv, OfferInv
    <2> QED
        BY <1>2, <2>1, <2>2 DEF CreatePeerConnection
<1>3. ASSUME NEW n \in Ids, Connection(n) PROVE FreshInv' /\ OpenInv'
    <2>1. UNCHANGED <<pc, offers, setupFor, applied>>
        BY <1>3 DEF Connection, TrackOpens, OnDataChannel, ChannelCloses, OnChannelClosed
    <2>2. CASE TrackOpens(n)
        BY <2>1, <2>2 DEF TrackOpens
    <2>3. CASE OnDataChannel(n)
        <3>1. n = pc /\ chan' = [chan EXCEPT ![n] = "open"]
            BY <2>3 DEF OnDataChannel, Negotiated
        <3>2. \A m \in Ids : m # n => chan'[m] = chan[m]
            BY <3>1
        <3> QED
            BY <2>1, <3>1, <3>2 DEF IInv, TypeInv, OfferInv
    <2>4. CASE ChannelCloses(n) \/ OnChannelClosed(n)
        <3>1. PICK st \in {"closing", "closed"} : chan' = [chan EXCEPT ![n] = st]
            BY <2>4 DEF ChannelCloses, OnChannelClosed
        <3>2. chan[n] # "none"
            BY <2>4 DEF ChannelCloses, OnChannelClosed
        <3> QED
            BY <2>1, <3>1, <3>2 DEF IInv, TypeInv
    <2> QED
        BY <1>3, <2>2, <2>3, <2>4 DEF Connection
<1>4. ASSUME NEW n \in Ids, ProcessPacket(n) PROVE FreshInv' /\ OpenInv'
    BY <1>4 DEF ProcessPacket, Command, Reset, Run, DisconnectClose, DisconnectNull, SendReply
<1>5. CASE EventLoop
    BY <1>5 DEF EventLoop, VideoBegin, VideoTestOpen, VideoSend, CtlBegin, CtlWrite, CtlSend
<1>6. CASE UNCHANGED vars
    BY <1>6 DEF vars
<1> QED
    BY <1>1, <1>2, <1>3, <1>4, <1>5, <1>6 DEF Next

\* Only a new client becomes active.
LEMMA ActiveFacts ==
    ASSUME IInv, Who, [Next]_vars, NEW d \in Clients, Active(d)',
           ~ClientConnected(d)
    PROVE  Active(d)
<1> USE DEF Who, MoreTypes, memberVars, wsVars, offerVars, pcVars, chanVars, histVars, IInv, TypeInv
<1>1. ASSUME NEW c \in Clients, Socket(c) PROVE Active(d)
    <2>1. UNCHANGED <<handler, owner, proc>>
        BY <1>1 DEF Socket, ClientConnected, Leave, SocketCloses, OnClosed
    <2>2. remote'[d] = "here" => remote[d] = "here"
        BY <1>1 DEF Socket, ClientConnected, Leave, SocketCloses, OnClosed
    <2> QED
        BY <2>1, <2>2 DEF Active, Busy
<1>2. ASSUME NEW c \in Clients, CreatePeerConnection(c) PROVE Active(d)
    <2>1. UNCHANGED <<remote, proc>>
        BY <1>2 DEF CreatePeerConnection, Offer, AddTrack, StoreTrack, PeerConnectionSetup,
                    SetRemoteDescription, AnswerOrCandidate
    <2>2. handler'[d] # "idle" => handler[d] # "idle" \/ remote[d] = "here"
        <3>1. CASE d # c
            BY <1>2, <3>1 DEF CreatePeerConnection, Offer, AddTrack, StoreTrack, PeerConnectionSetup,
                              SetRemoteDescription, AnswerOrCandidate
        <3>2. handler[c] # "idle" \/ remote[c] = "here"
            BY <1>2 DEF CreatePeerConnection, Offer, Message, AddTrack, StoreTrack,
                        PeerConnectionSetup, SetRemoteDescription, AnswerOrCandidate
        <3> QED
            BY <3>1, <3>2
    <2>3. \A n \in Ids : n <= offers => owner'[n] = owner[n]
        <3>1. CASE Offer(c)
            <4>1. owner' = [owner EXCEPT ![offers + 1] = c]
                BY <3>1 DEF Offer
            <4>2. \A n \in Ids : n <= offers => n # offers + 1
                BY DEF Ids
            <4> QED
                BY <4>1, <4>2
        <3>2. CASE ~Offer(c)
            BY <1>2, <3>2 DEF CreatePeerConnection, AddTrack, StoreTrack, PeerConnectionSetup,
                              SetRemoteDescription, AnswerOrCandidate
        <3> QED
            BY <3>1, <3>2
    <2>4. \A n \in Ids : proc[n] # "idle" => n <= offers
        BY DEF FreshInv, ChannelInv, Ids
    <2> QED
        BY <2>1, <2>2, <2>3, <2>4 DEF Active, Busy
<1>3. ASSUME NEW n \in Ids, Connection(n) PROVE Active(d)
    BY <1>3 DEF Connection, TrackOpens, OnDataChannel, ChannelCloses, OnChannelClosed, Active, Busy
<1>4. ASSUME NEW n \in Ids, ProcessPacket(n) PROVE Active(d)
    <2>1. UNCHANGED <<remote, handler, owner>>
        BY <1>4 DEF ProcessPacket, Command, Reset, Run, DisconnectClose, DisconnectNull, SendReply
    <2>2. \A m \in Ids : proc'[m] # "idle" => proc[m] # "idle" \/ remote[owner[m]] = "here"
        BY <1>4 DEF ProcessPacket, Command, Reset, Run, DisconnectClose, DisconnectNull, SendReply
    <2> QED
        BY <2>1, <2>2 DEF Active, Busy
<1>5. CASE EventLoop
    BY <1>5 DEF EventLoop, VideoBegin, VideoTestOpen, VideoSend, CtlBegin, CtlWrite, CtlSend, Active,
                Busy
<1>6. CASE UNCHANGED vars
    BY <1>6 DEF vars, Active, Busy
<1> QED
    BY <1>1, <1>2, <1>3, <1>4, <1>5, <1>6 DEF Next

LEMMA OverlapStays == [Next]_vars /\ ~overlap' => ~overlap
    BY DEF Next, Socket, ClientConnected, Leave, SocketCloses, OnClosed, CreatePeerConnection, Offer,
           AddTrack, StoreTrack, PeerConnectionSetup, SetRemoteDescription, AnswerOrCandidate,
           Connection, TrackOpens, OnDataChannel, ChannelCloses, OnChannelClosed, ProcessPacket, Command,
           Reset, Run, DisconnectClose, DisconnectNull, SendReply, EventLoop, VideoBegin, VideoTestOpen,
           VideoSend, CtlBegin, CtlWrite, CtlSend, vars, histVars

LEMMA OneStep == IInv /\ Who /\ [Next]_vars => OneInv'
<1> SUFFICES ASSUME IInv, Who, [Next]_vars, ~overlap' PROVE OneInv'
    BY DEF OneInv
<1>0. ~overlap
    BY OverlapStays
<1>1. /\ \A c, d \in Clients : Active(c) /\ Active(d) => c = d
      /\ \A c \in Clients : Active(c) /\ offer[c] # Null => offer[c] = offers /\ owner[offers] = c
    BY <1>0 DEF Who, OneInv
<1>2. ASSUME NEW c \in Clients, ClientConnected(c) PROVE OneInv'
    <2>1. \A o \in Clients \ {c} : remote[o] # "here" /\ ~Busy(o)
        BY <1>2 DEF ClientConnected
    <2>2. \A o \in Clients \ {c} : ~Active(o)'
        BY <1>2, <2>1 DEF ClientConnected, Active, Busy, offerVars, chanVars, Who, MoreTypes
    <2>3. offer'[c] = Null
        BY <1>2 DEF ClientConnected, offerVars, Who, AwayInv
    <2> QED
        BY <2>2, <2>3 DEF OneInv
<1>3. ASSUME NEW c \in Clients, Offer(c) PROVE OneInv'
    <2>1. \A d \in Clients : Active(d)' => Active(d)
        BY <1>3, ActiveFacts DEF Offer, ClientConnected, Message
    <2>2. Active(c)
        BY <1>3 DEF Offer, Message, Active
    <2>3. offer'[c] = offers' /\ owner'[offers'] = c
        BY <1>3, SessionAssumption DEF Offer, IInv, TypeInv, Who, MoreTypes, Ids
    <2> QED
        BY <1>1, <2>1, <2>2, <2>3 DEF OneInv
<1>4. ASSUME ~(\E c \in Clients : ClientConnected(c) \/ Offer(c)) PROVE OneInv'
    <2>1. \A d \in Clients : Active(d)' => Active(d)
        BY <1>4, ActiveFacts
    <2>2. UNCHANGED <<offer, offers, owner>>
        BY <1>4 DEF Next, Socket, Leave, SocketCloses, OnClosed, CreatePeerConnection, AddTrack,
                    StoreTrack, PeerConnectionSetup, SetRemoteDescription, AnswerOrCandidate,
                    Connection, TrackOpens, OnDataChannel, ChannelCloses, OnChannelClosed,
                    ProcessPacket, Command, Reset, Run, DisconnectClose, DisconnectNull, SendReply,
                    EventLoop, VideoBegin, VideoTestOpen, VideoSend, CtlBegin, CtlWrite, CtlSend,
                    vars, offerVars
    <2> QED
        BY <1>1, <2>1, <2>2 DEF OneInv
<1> QED
    BY <1>2, <1>3, <1>4

LEMMA ProcStep == IInv /\ Who /\ [Next]_vars => ProcInv'
<1> SUFFICES ASSUME IInv, Who, [Next]_vars, ~overlap' PROVE ProcInv'
    BY DEF ProcInv
<1>1. \A n \in Ids : proc[n] # "idle" => n = pc
    BY OverlapStays DEF Who, ProcInv
<1>2. ASSUME NEW c \in Clients, Offer(c) PROVE ProcInv'
    BY <1>2 DEF Offer, ProcInv
<1>3. ASSUME NEW n \in Ids, ProcessPacket(n) PROVE ProcInv'
    <2>1. pc' = pc
        BY <1>3, ChannelFrame
    <2>2. \A m \in Ids : proc'[m] # "idle" => proc[m] # "idle" \/ chan[m] = "open"
        BY <1>3 DEF ProcessPacket, Command, Reset, Run, DisconnectClose, DisconnectNull, SendReply,
                    IInv, TypeInv
    <2> QED
        BY <1>1, <2>1, <2>2 DEF ProcInv, Who, OpenInv
<1>4. ASSUME ~(\E c \in Clients : Offer(c)), ~(\E n \in Ids : ProcessPacket(n)) PROVE ProcInv'
    <2>1. UNCHANGED <<pc, proc>>
        BY <1>4 DEF Next, Socket, ClientConnected, Leave, SocketCloses, OnClosed, CreatePeerConnection,
                    AddTrack, StoreTrack, PeerConnectionSetup, SetRemoteDescription, AnswerOrCandidate,
                    Connection, TrackOpens, OnDataChannel, ChannelCloses, OnChannelClosed,
                    EventLoop, VideoBegin, VideoTestOpen, VideoSend, CtlBegin, CtlWrite, CtlSend,
                    vars, memberVars, chanVars
    <2> QED
        BY <1>1, <2>1 DEF ProcInv
<1> QED
    BY <1>2, <1>3, <1>4

LEMMA WhoStep == IInv /\ Who /\ [Next]_vars => Who'
    BY MoreTypesStep, AwayStep, ChannelStep, OneStep, ProcStep DEF Who

LEMMA WhoInvariance == Spec => [](IInv /\ Who)
    BY InitInv, NextInv, WhoInit, WhoStep, PTL DEF Spec
------------------------------------------------------------------------------
\* SessionsAreIsolated, and between the steps of createPeerConnection.
TrackIsCurrent ==
    ~overlap /\ ~stray =>
        ((\A c \in Clients : handler[c] \notin {"addTrack", "store"}) => track \in {pc, Null})

Isolated == SessionsAreIsolated /\ TrackIsCurrent

\* The client that acts made the last offer.
LEMMA OfferIsOwn ==
    ASSUME IInv, Who, ~overlap, NEW c \in Clients, Active(c), offer[c] # Null
    PROVE  offer[c] = pc /\ owner[pc] = c /\ pc \in Ids
    BY DEF IInv, TypeInv, OfferInv, Who, MoreTypes, OneInv, Null, Ids

IsoParts ==
    /\ \A n \in Ids : applied[n] \subseteq {owner[n]} /\ setupFor[n] \in {owner[n], NoClient}
    /\ \A n \in Ids : trackPc[n] \in {n, Null}
    /\ (\A c \in Clients : handler[c] \notin {"addTrack", "store"}) => track \in {pc, Null}

LEMMA IsoMeans ==
    /\ IsoParts /\ ~overlap /\ ~stray => Isolated
    /\ overlap \/ stray => Isolated
    BY DEF IsoParts, Isolated, SessionsAreIsolated, TrackIsCurrent

LEMMA IsoInit == Init => Isolated
    BY DEF Init, Isolated, SessionsAreIsolated, TrackIsCurrent

LEMMA StrayStays == [Next]_vars /\ ~stray' => ~stray
    BY DEF Next, Socket, ClientConnected, Leave, SocketCloses, OnClosed, CreatePeerConnection, Offer,
           AddTrack, StoreTrack, PeerConnectionSetup, SetRemoteDescription, AnswerOrCandidate,
           Connection, TrackOpens, OnDataChannel, ChannelCloses, OnChannelClosed, ProcessPacket, Command,
           Reset, Run, DisconnectClose, DisconnectNull, SendReply, EventLoop, VideoBegin, VideoTestOpen,
           VideoSend, CtlBegin, CtlWrite, CtlSend, vars, histVars

LEMMA IsoStep == IInv /\ Who /\ Isolated /\ [Next]_vars => Isolated'
<1> SUFFICES ASSUME IInv, Who, Isolated, [Next]_vars, ~overlap', ~stray' PROVE IsoParts'
    BY DEF IsoParts, Isolated, SessionsAreIsolated, TrackIsCurrent
<1>0. ~overlap /\ ~stray
    BY OverlapStays, StrayStays
<1> USE DEF memberVars, wsVars, offerVars, pcVars, chanVars, histVars
<1>1. IsoParts
    BY <1>0 DEF IsoParts, Isolated, SessionsAreIsolated, TrackIsCurrent
<1>2. ASSUME NEW c \in Clients, CreatePeerConnection(c) PROVE IsoParts'
    <2> USE DEF IInv, TypeInv, Who, MoreTypes
    <2>1. CASE Offer(c)
        <3>1. UNCHANGED <<trackPc, setupFor, applied, track>> /\ owner' = [owner EXCEPT ![offers + 1] = c]
            BY <2>1 DEF Offer
        <3>2. offers + 1 \in Ids /\ applied[offers + 1] = {} /\ setupFor[offers + 1] = NoClient
            BY <2>1, SessionAssumption DEF Offer, FreshInv, Ids
        <3>3. handler'[c] = "addTrack"
            BY <2>1 DEF Offer
        <3>4. \A n \in Ids : applied'[n] \subseteq {owner'[n]} /\ setupFor'[n] \in {owner'[n], NoClient}
            BY <1>1, <3>1, <3>2 DEF IsoParts
        <3> QED
            BY <1>1, <3>1, <3>3, <3>4 DEF IsoParts
    <2>2. CASE AddTrack(c)
        <3>1. offer[c] = pc /\ owner[pc] = c /\ pc \in Ids
            BY <1>0, <2>2, OfferIsOwn DEF AddTrack, Active, Busy, OfferInv
        <3>2. trackPc' = [trackPc EXCEPT ![pc] = pc]
            BY <2>2, <3>1 DEF AddTrack
        <3>3. handler'[c] = "store"
            BY <2>2 DEF AddTrack
        <3>4. UNCHANGED <<owner, setupFor, applied>>
            BY <2>2 DEF AddTrack
        <3> QED
            BY <1>1, <3>2, <3>3, <3>4 DEF IsoParts
    <2>3. CASE StoreTrack(c)
        <3>1. offer[c] = pc
            BY <1>0, <2>3, OfferIsOwn DEF StoreTrack, Active, Busy, OfferInv
        <3>2. track' = pc' /\ UNCHANGED <<owner, setupFor, applied, trackPc>>
            BY <2>3, <3>1 DEF StoreTrack, Stored
        <3> QED
            BY <1>1, <3>2 DEF IsoParts
    <2>4. CASE PeerConnectionSetup(c)
        <3>1. owner[pc] = c /\ pc \in Ids
            BY <1>0, <2>4, OfferIsOwn DEF PeerConnectionSetup, Active, Busy, OfferInv
        <3>2. setupFor' = [setupFor EXCEPT ![pc] = c]
            BY <2>4 DEF PeerConnectionSetup
        <3>3. UNCHANGED <<pc, owner, applied, trackPc, track>>
            BY <2>4 DEF PeerConnectionSetup
        <3>4. \A d \in Clients : handler'[d] \notin {"addTrack", "store"}
                                    => handler[d] \notin {"addTrack", "store"}
            BY <2>4 DEF PeerConnectionSetup
        <3> QED
            BY <1>1, <3>1, <3>2, <3>3, <3>4 DEF IsoParts
    <2>5. CASE SetRemoteDescription(c) \/ AnswerOrCandidate(c)
        <3>1. Active(c) /\ offer[c] # Null
            BY <2>5 DEF SetRemoteDescription, AnswerOrCandidate, Message, Active, Busy, OfferInv
        <3>2. owner[pc] = c /\ pc \in Ids
            BY <1>0, <3>1, OfferIsOwn
        <3>3. applied' \in {applied, [applied EXCEPT ![pc] = @ \cup {c}]}
            BY <2>5 DEF SetRemoteDescription, AnswerOrCandidate
        <3>4. UNCHANGED <<pc, owner, setupFor, trackPc, track>>
            BY <2>5 DEF SetRemoteDescription, AnswerOrCandidate
        <3>5. \A d \in Clients : handler'[d] \notin {"addTrack", "store"}
                                    => handler[d] \notin {"addTrack", "store"}
            BY <2>5 DEF SetRemoteDescription, AnswerOrCandidate
        <3>6. \A n \in Ids : applied'[n] \subseteq {owner'[n]}
            BY <1>1, <3>2, <3>3, <3>4 DEF IsoParts
        <3> QED
            BY <1>1, <3>4, <3>5, <3>6 DEF IsoParts
    <2> QED
        BY <1>2, <2>1, <2>2, <2>3, <2>4, <2>5 DEF CreatePeerConnection
<1>3. ASSUME NEW n \in Ids, Connection(n) \/ ProcessPacket(n) PROVE IsoParts'
    <2>1. UNCHANGED <<pc, owner, handler, setupFor, applied, trackPc>>
        BY <1>3 DEF Connection, TrackOpens, OnDataChannel, ChannelCloses, OnChannelClosed,
                    ProcessPacket, Command, Reset, Run, DisconnectClose, DisconnectNull, SendReply
    <2>2. track' \in {track, Null}
        BY <1>3 DEF Connection, TrackOpens, OnDataChannel, ChannelCloses, OnChannelClosed,
                    ProcessPacket, Command, Reset, Run, DisconnectClose, DisconnectNull, SendReply
    <2> QED
        BY <1>1, <2>1, <2>2 DEF IsoParts
<1>4. ASSUME ~(\E c \in Clients : CreatePeerConnection(c)),
             ~(\E n \in Ids : Connection(n) \/ ProcessPacket(n))
      PROVE  IsoParts'
    <2>1. UNCHANGED <<pc, track, owner, handler, setupFor, applied, trackPc>>
        BY <1>4 DEF Next, Socket, ClientConnected, Leave, SocketCloses, OnClosed, EventLoop, VideoBegin,
                    VideoTestOpen, VideoSend, CtlBegin, CtlWrite, CtlSend, vars
    <2> QED
        BY <1>1, <2>1 DEF IsoParts
<1> QED
    BY <1>2, <1>3, <1>4

\* Any number of clients that come one after the other never meet: the track, the
\* answers and the descriptions of a connection are those of its own client.
THEOREM SessionsNeverMeet == Spec => []SessionsAreIsolated
<1>1. Isolated => SessionsAreIsolated
    BY DEF Isolated
<1> QED
    BY <1>1, WhoInvariance, IsoInit, IsoStep, PTL DEF Spec
------------------------------------------------------------------------------
\* NewestIsKept, whose parts need each other only through Who.
KeptParts ==
    /\ \A c \in Clients : remote[c] = "here" => client = c /\ ws[c] = "open"
    /\ \A n \in Ids : chan[n] = "open" => mDc = n
    /\ mDc # Null => chan[mDc] \in {"open", "closing"}

LEMMA LateStays == [Next]_vars /\ ~late' => ~late
    BY DEF Next, Socket, ClientConnected, Leave, SocketCloses, OnClosed, CreatePeerConnection, Offer,
           AddTrack, StoreTrack, PeerConnectionSetup, SetRemoteDescription, AnswerOrCandidate,
           Connection, TrackOpens, OnDataChannel, ChannelCloses, OnChannelClosed, ProcessPacket, Command,
           Reset, Run, DisconnectClose, DisconnectNull, SendReply, EventLoop, VideoBegin, VideoTestOpen,
           VideoSend, CtlBegin, CtlWrite, CtlSend, vars, histVars

LEMMA KeptStep == IInv /\ Who /\ NewestIsKept /\ [Next]_vars => NewestIsKept'
<1> SUFFICES ASSUME IInv, Who, NewestIsKept, [Next]_vars, ~overlap', ~late' PROVE KeptParts'
    BY DEF KeptParts, NewestIsKept
<1>0. ~overlap /\ ~late
    BY OverlapStays, LateStays
<1> USE SessionAssumption
        DEF memberVars, wsVars, offerVars, pcVars, chanVars, histVars, IInv, TypeInv, Who, MoreTypes
<1>1. KeptParts
    BY <1>0 DEF KeptParts, NewestIsKept
<1>2. ASSUME NEW c \in Clients, Socket(c) PROVE KeptParts'
    <2>1. UNCHANGED <<chan, mDc>>
        BY <1>2 DEF Socket, ClientConnected, Leave, SocketCloses, OnClosed
    <2>2. CASE ClientConnected(c)
        <3>1. \A o \in Clients \ {c} : remote[o] # "here"
            BY <2>2 DEF ClientConnected
        <3>2. client' = c /\ ws'[c] = "open"
            BY <2>2 DEF ClientConnected, ReplaceClient
        <3>3. \A o \in Clients \ {c} : remote'[o] # "here"
            BY <2>2, <3>1 DEF ClientConnected
        <3> QED
            BY <1>1, <2>1, <3>2, <3>3 DEF KeptParts
    <2>3. CASE Leave(c)
        BY <1>1, <2>1, <2>3 DEF Leave, KeptParts
    <2>4. CASE SocketCloses(c)
        BY <1>1, <2>1, <2>4 DEF SocketCloses, KeptParts
    <2>5. CASE OnClosed(c)
        <3>1. remote[c] = "gone" /\ remote' = remote
            BY <2>5 DEF OnClosed, AwayInv
        <3>2. client \in {c, NoClient}
            BY <2>5 DEF OnClosed
        <3>3. \A d \in Clients : remote'[d] # "here"
            BY <1>1, <3>1, <3>2 DEF KeptParts
        <3> QED
            BY <1>1, <2>1, <3>3 DEF KeptParts
    <2> QED
        BY <1>2, <2>2, <2>3, <2>4, <2>5 DEF Socket
<1>3. ASSUME NEW c \in Clients, CreatePeerConnection(c) PROVE KeptParts'
    <2>1. UNCHANGED <<remote, client, mDc>>
        BY <1>3 DEF CreatePeerConnection, Offer, AddTrack, StoreTrack, PeerConnectionSetup,
                    SetRemoteDescription, AnswerOrCandidate
    <2>2. \A d \in Clients : client = d => ws'[d] = ws[d]
        BY <1>3 DEF CreatePeerConnection, Offer, AddTrack, StoreTrack, PeerConnectionSetup,
                    SetRemoteDescription, AnswerOrCandidate, Dropped
    <2>3. CASE Offer(c)
        <3>1. chan' = [n \in Ids |-> IF n = pc THEN ClosesLater(n) ELSE chan[n]]
            BY <2>3 DEF Offer
        <3>2. \A n \in Ids : /\ chan'[n] = "open" => chan[n] = "open"
                             /\ chan[n] \in {"open", "closing"} => chan'[n] \in {"open", "closing"}
            BY <3>1 DEF ClosesLater
        <3>3. mDc # Null => mDc \in Ids
            BY DEF Null, Ids
        <3> QED
            BY <1>1, <2>1, <2>2, <3>2, <3>3 DEF KeptParts
    <2>4. CASE ~Offer(c)
        <3>1. chan' = chan
            BY <1>3, <2>4 DEF CreatePeerConnection, AddTrack, StoreTrack, PeerConnectionSetup,
                              SetRemoteDescription, AnswerOrCandidate
        <3> QED
            BY <1>1, <2>1, <2>2, <3>1 DEF KeptParts
    <2> QED
        BY <2>3, <2>4
<1>4. ASSUME NEW n \in Ids, Connection(n) PROVE KeptParts'
    <2>1. UNCHANGED <<remote, client, ws>>
        BY <1>4 DEF Connection, TrackOpens, OnDataChannel, ChannelCloses, OnChannelClosed
    <2>2. CASE TrackOpens(n)
        BY <1>1, <2>1, <2>2 DEF TrackOpens, KeptParts
    <2>3. CASE OnDataChannel(n)
        <3>1. n = pc /\ mDc' = n /\ chan' = [chan EXCEPT ![n] = "open"]
            BY <2>3 DEF OnDataChannel, Negotiated, StoreChannel
        <3>2. \A m \in Ids : chan'[m] = "open" => m = n
            BY <3>1 DEF OpenInv
        <3> QED
            BY <1>1, <2>1, <3>1, <3>2 DEF KeptParts
    <2>4. CASE ChannelCloses(n)
        <3>1. mDc' = mDc /\ chan' = [chan EXCEPT ![n] = "closing"]
            BY <2>4 DEF ChannelCloses
        <3>2. mDc # Null => mDc \in Ids
            BY DEF Null, Ids
        <3> QED
            BY <1>1, <2>1, <3>1, <3>2 DEF KeptParts
    <2>5. CASE OnChannelClosed(n)
        <3>1. mDc' = Null /\ chan' = [chan EXCEPT ![n] = "closed"] /\ chan[n] = "closing"
            BY <2>5 DEF OnChannelClosed
        <3>2. mDc \in {n, Null}
            BY <2>5 DEF OnChannelClosed
        <3>3. \A m \in Ids : chan'[m] # "open"
            BY <1>1, <3>1, <3>2 DEF KeptParts, Null, Ids
        <3> QED
            BY <1>1, <2>1, <3>1, <3>3 DEF KeptParts
    <2> QED
        BY <1>4, <2>2, <2>3, <2>4, <2>5 DEF Connection
<1>5. ASSUME ~(\E c \in Clients : Socket(c) \/ CreatePeerConnection(c)), ~(\E n \in Ids : Connection(n))
      PROVE  KeptParts'
    <2>1. UNCHANGED <<remote, client, ws, chan, mDc>>
        BY <1>5 DEF Next, ProcessPacket, Command, Reset, Run, DisconnectClose, DisconnectNull, SendReply,
                    EventLoop, VideoBegin, VideoTestOpen, VideoSend, CtlBegin, CtlWrite, CtlSend, vars
    <2> QED
        BY <1>1, <2>1 DEF KeptParts
<1> QED
    BY <1>2, <1>3, <1>4, <1>5

\* The client and the data channel that came last are the ones that are kept, unless
\* clients overlap or a close takes effect after its successor came.
THEOREM LastClientIsKept == Spec => []NewestIsKept
<1>1. Init => NewestIsKept
    BY DEF Init, NewestIsKept
<1> QED
    BY <1>1, WhoInvariance, KeptStep, PTL DEF Spec
------------------------------------------------------------------------------
\* RepliesAreOwn: what outputBuf holds where a command or the event loop stands.

\* The reply that processPacket has written so far.
Written(n) == IF proc[n] = "send" THEN Expected(n) ELSE ErrorReply(n)

ReplyParts ==
    /\ \A n \in Ids : proc[n] \in Processing => n \in mixed \/ outputBuf = Written(n)
    /\ \A n \in Ids : /\ proc[n] = "run" => cmd[n] \notin {"unknown", "disconnect"}
                      /\ proc[n] \in {"close", "null"} => cmd[n] = "disconnect"

ReplyInv == ~overlap => ReplyParts

\* The position update knows of every command that may write before it is sent.
PosInv ==
    loop = "posSend" =>
        /\ Null \in mixed \/ outputBuf = Pos
        /\ \A n \in Ids : proc[n] \in Processing \ {"send"} => Null \in mixed

LEMMA ReplyInit == Init => ReplyInv /\ PosInv
    BY DEF Init, ReplyInv, ReplyParts, PosInv, Processing

LEMMA PosStep == IInv /\ PosInv /\ [Next]_vars => PosInv'
<1> SUFFICES ASSUME IInv, PosInv, [Next]_vars, loop' = "posSend" PROVE PosInv'
    BY DEF PosInv
<1> USE DEF memberVars, wsVars, offerVars, pcVars, chanVars, histVars, PosInv, Processing, IInv, TypeInv
<1>1. ASSUME NEW n \in Ids, ProcessPacket(n) PROVE PosInv'
    <2>1. loop = "posSend"
        BY <1>1, ChannelFrame
    <2>2. n # Null
        BY DEF Ids, Null
    <2>3. CASE Reset(n)
        BY <2>1, <2>3 DEF Reset
    <2>4. CASE Run(n) \/ DisconnectNull(n)
        <3>1. Null \in mixed /\ mixed' = mixed
            BY <2>1, <2>4 DEF Run, DisconnectNull
        <3> QED
            BY <3>1
    <2>5. CASE (\E k \in Commands : Command(n, k)) \/ DisconnectClose(n) \/ SendReply(n)
        <3>1. outputBuf' = outputBuf /\ (Null \in mixed => Null \in mixed')
            BY <2>2, <2>5 DEF Command, DisconnectClose, SendReply
        <3>2. \A m \in Ids : proc'[m] \in Processing \ {"send"} => proc[m] \in Processing \ {"send"}
            BY <2>5 DEF Command, DisconnectClose, SendReply
        <3> QED
            BY <2>1, <3>1, <3>2
    <2> QED
        BY <1>1, <2>3, <2>4, <2>5 DEF ProcessPacket
<1>2. CASE CtlWrite
    <2>1. outputBuf' = Pos /\ proc' = proc
        BY <1>2 DEF CtlWrite
    <2>2. (\E n \in Ids : proc[n] \in Processing \ {"send"}) => Null \in mixed'
        BY <1>2 DEF CtlWrite
    <2> QED
        BY <2>1, <2>2
<1>3. CASE VideoBegin \/ VideoTestOpen \/ VideoSend \/ CtlBegin \/ CtlSend
    <2>1. loop = "posSend" /\ UNCHANGED <<proc, mixed, outputBuf>>
        BY <1>3 DEF VideoBegin, VideoTestOpen, VideoSend, CtlBegin, CtlSend, TestIfSet
    <2> QED
        BY <2>1
<1>4. ASSUME ~EventLoop, ~(\E n \in Ids : ProcessPacket(n)) PROVE PosInv'
    <2>1. UNCHANGED <<loop, proc, mixed, outputBuf>>
        BY <1>4 DEF Next, Socket, ClientConnected, Leave, SocketCloses, OnClosed, CreatePeerConnection,
                    Offer, AddTrack, StoreTrack, PeerConnectionSetup, SetRemoteDescription,
                    AnswerOrCandidate, Connection, TrackOpens, OnDataChannel, ChannelCloses,
                    OnChannelClosed, vars
    <2> QED
        BY <2>1
<1> QED
    BY <1>1, <1>2, <1>3, <1>4 DEF EventLoop

LEMMA ReplyStep == IInv /\ Who /\ ReplyInv /\ [Next]_vars => ReplyInv'
<1> SUFFICES ASSUME IInv, Who, ReplyInv, [Next]_vars, ~overlap' PROVE ReplyParts'
    BY DEF ReplyInv
<1>0. ~overlap
    BY OverlapStays
<1> USE DEF memberVars, wsVars, offerVars, pcVars, chanVars, histVars, Processing, IInv, TypeInv,
            Who, MoreTypes
<1>1. ReplyParts
    BY <1>0 DEF ReplyInv
<1>2. ASSUME NEW n \in Ids, ProcessPacket(n) PROVE ReplyParts'
    <2>1. \A m \in Ids \ {n} : proc[m] # "idle" => proc[n] = "idle"
        BY <1>0 DEF ProcInv
    <2>2. \A m \in Ids \ {n} : proc'[m] = proc[m] /\ cmd'[m] = cmd[m]
        BY <1>2 DEF ProcessPacket, Command, Reset, Run, DisconnectClose, DisconnectNull, SendReply
    <2>3. CASE \E k \in Commands : Command(n, k)
        <3>1. proc'[n] = "reset" /\ outputBuf' = outputBuf /\ mixed' = mixed
            BY <2>3 DEF Command
        <3> QED
            BY <1>1, <2>2, <3>1 DEF ReplyParts, Written, Expected, ErrorReply
    <2>4. ASSUME proc[n] # "idle", cmd'[n] = cmd[n],
                 proc'[n] \in Processing => n \in mixed' \/ outputBuf' = Written(n)',
                 /\ proc'[n] = "run" => cmd[n] \notin {"unknown", "disconnect"}
                 /\ proc'[n] \in {"close", "null"} => cmd[n] = "disconnect"
          PROVE  ReplyParts'
        <3>1. \A m \in Ids \ {n} : proc'[m] = "idle"
            BY <2>1, <2>2, <2>4
        <3> QED
            BY <2>4, <3>1 DEF ReplyParts
    <2>5. CASE Reset(n)
        <3>1. outputBuf' = ErrorReply(n) /\ cmd' = cmd
            BY <2>5 DEF Reset
        <3>2. proc'[n] = CASE cmd[n] = "unknown"    -> "send"
                           [] cmd[n] = "disconnect" -> "close"
                           [] OTHER                 -> "run"
            BY <2>5 DEF Reset
        <3>3. Written(n)' = ErrorReply(n)
            BY <3>1, <3>2 DEF Written, Expected, ErrorReply
        <3>4. proc[n] # "idle"
            BY <2>5 DEF Reset
        <3> QED
            BY <2>4, <3>1, <3>2, <3>3, <3>4
    <2>6. CASE Run(n)
        <3>1. proc[n] = "run" /\ proc'[n] = "send" /\ cmd' = cmd /\ mixed' = mixed
            BY <2>6 DEF Run
        <3>2. outputBuf' = IF cmd[n] = "ok" THEN OkReply(n) ELSE outputBuf
            BY <2>6 DEF Run
        <3>3. n \in mixed \/ outputBuf = ErrorReply(n)
            BY <1>1, <3>1 DEF ReplyParts, Written
        <3>4. Written(n)' = IF cmd[n] = "ok" THEN OkReply(n) ELSE ErrorReply(n)
            BY <1>1, <3>1 DEF ReplyParts, Written, Expected, OkReply, ErrorReply
        <3> QED
            BY <2>4, <3>1, <3>2, <3>3, <3>4
    <2>7. CASE DisconnectClose(n)
        <3>1. proc[n] = "close" /\ proc'[n] = "null" /\ UNCHANGED <<cmd, mixed, outputBuf>>
            BY <2>7 DEF DisconnectClose
        <3>2. Written(n)' = Written(n)
            BY <3>1 DEF Written, ErrorReply
        <3> QED
            BY <1>1, <2>4, <3>1, <3>2 DEF ReplyParts
    <2>8. CASE DisconnectNull(n)
        <3>1. proc[n] = "null" /\ proc'[n] = "send" /\ cmd' = cmd /\ outputBuf' = OkReply(n)
            BY <2>8 DEF DisconnectNull
        <3>2. Written(n)' = OkReply(n)
            BY <1>1, <3>1 DEF ReplyParts, Written, Expected, OkReply
        <3> QED
            BY <2>4, <3>1, <3>2
    <2>9. CASE SendReply(n)
        <3>1. proc[n] # "idle" /\ proc'[n] = "idle"
            BY <2>9 DEF SendReply
        <3>2. \A m \in Ids \ {n} : proc'[m] = "idle"
            BY <2>1, <2>2, <3>1
        <3> QED
            BY <3>1, <3>2 DEF ReplyParts
    <2> QED
        BY <1>2, <2>3, <2>5, <2>6, <2>7, <2>8, <2>9 DEF ProcessPacket
<1>3. CASE CtlWrite
    <2>1. \A n \in Ids : proc[n] \in Processing => n \in mixed'
        BY <1>3 DEF CtlWrite
    <2>2. proc' = proc /\ cmd' = cmd
        BY <1>3 DEF CtlWrite
    <2> QED
        BY <1>1, <2>1, <2>2 DEF ReplyParts
<1>4. CASE CtlSend
    <2>1. UNCHANGED <<proc, cmd, outputBuf>>
        BY <1>4 DEF CtlSend
    <2>2. \A n \in Ids : n \in mixed => n \in mixed'
        BY <1>4 DEF CtlSend, Ids, Null
    <2> QED
        BY <1>1, <2>1, <2>2 DEF ReplyParts, Written, Expected, ErrorReply
<1>5. ASSUME ~CtlWrite, ~CtlSend, ~(\E n \in Ids : ProcessPacket(n)) PROVE ReplyParts'
    <2>1. UNCHANGED <<proc, cmd, mixed, outputBuf>>
        BY <1>5 DEF Next, Socket, ClientConnected, Leave, SocketCloses, OnClosed, CreatePeerConnection,
                    Offer, AddTrack, StoreTrack, PeerConnectionSetup, SetRemoteDescription,
                    AnswerOrCandidate, Connection, TrackOpens, OnDataChannel, ChannelCloses,
                    OnChannelClosed, EventLoop, VideoBegin, VideoTestOpen, VideoSend, CtlBegin, vars
    <2> QED
        BY <1>1, <2>1 DEF ReplyParts, Written, Expected, ErrorReply
<1> QED
    BY <1>2, <1>3, <1>4, <1>5

LEMMA ReplyInvariance == Spec => [](ReplyInv /\ PosInv)
    BY WhoInvariance, ReplyInit, ReplyStep, PosStep, PTL DEF Spec

ReplyIsOwn ==
    ~overlap =>
        /\ \A n \in Ids : proc[n] = "send" /\ proc'[n] = "idle" =>
              n \in mixed \/ outputBuf = Expected(n)
        /\ loop = "posSend" /\ loop' = "idle" => Null \in mixed \/ outputBuf = Pos

\* Both users of outputBuf send what they wrote, unless one of them wrote between the
\* writing and the sending of the other, for any number of clients and commands.
THEOREM OnlyInterleavingMixesReplies == Spec => RepliesAreOwn
<1>1. ReplyInv /\ PosInv => ReplyIsOwn
    BY DEF ReplyInv, ReplyParts, PosInv, ReplyIsOwn, Written, Processing
<1>2. ReplyInv /\ PosInv /\ [Next]_vars => [ReplyIsOwn]_vars
    BY <1>1
<1> QED
    BY <1>2, ReplyInvariance, PTL DEF Spec, RepliesAreOwn, ReplyIsOwn
==============================================================================
