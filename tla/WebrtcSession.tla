---------------------------- MODULE WebrtcSession ----------------------------
(***************************************************************************)
(* src/webrtc/Webrtc: what the callbacks of libdatachannel do to the five  *)
(* members they share without a lock (client, pc, track, mDc, outputBuf),  *)
(* against the event loop that sends video packets and position updates.   *)
(* Callbacks of one WebSocket and of one peer connection run one after     *)
(* another, those of different ones at the same time.  The n-th offer      *)
(* creates peer connection n and track n; the data channel of a connection *)
(* has its number.  0 is a null pointer.  Of libdatachannel the model has  *)
(* which objects are open, and that an object is destroyed with its last   *)
(* shared_ptr.                                                             *)
(***************************************************************************)
EXTENDS Integers

CONSTANTS Clients, NoClient,
          MaxOffers,   \* bound: offers handled
          Commands     \* kinds of command: "ok", "fail", "unknown", "disconnect"

ASSUME SessionAssumption ==
    /\ NoClient \notin Clients
    /\ MaxOffers \in Nat
    /\ Commands \subseteq {"ok", "fail", "unknown", "disconnect"}

Ids == 1..MaxOffers
Null == 0
Garbage == <<0, "none">>   \* outputBuf as new leaves it
Pos == <<0, "pos">>        \* a position update

VARIABLES client, pc, track, mDc,
          outputBuf,        \* what was written last: <<connection, result>> or Pos
          remote,           \* of each client: "away", "here" or "gone"
          ws,               \* WebSocket of each client: "none", "open" or "closed"
          closing,          \* clients whose onClosed is about to set client to null
          handler,          \* where createPeerConnection is for each client
          offer,            \* the offer it handles
          offers,           \* number of offers handled
          owner,            \* history: client that made the n-th offer
          trackPc, trackSt, \* connection and state of each track
          setupFor,         \* client that gets the answers of each connection
          applied,          \* history: clients whose messages each connection was given
          chan,             \* state of each data channel
          proc, cmd,        \* where processPacket is for each channel, and its command
          loop,             \* where the event loop is
          crashed,          \* where a null pointer was used, or "no"
          overlap,          \* history: a client came, or offered, before the last one was
                            \* gone or while a command was being processed
          stray,            \* history: a client's first message was not an offer
          late,             \* history: a close took effect after its successor was there
          mixed,            \* history: channels whose command met a position update, and
                            \* Null if the position update met a command
          gaveUp,           \* history: a disconnect since the last track was stored
          nulled            \* history: track became null during sendVideoPacket


memberVars == <<client, pc, track, mDc, outputBuf>>
wsVars     == <<ws, closing>>
offerVars  == <<handler, offer, offers, owner>>
pcVars     == <<trackPc, trackSt, setupFor, applied>>
chanVars   == <<chan, proc, cmd>>
histVars   == <<overlap, stray, late, mixed, gaveUp, nulled>>
vars == <<memberVars, remote, wsVars, offerVars, pcVars, chanVars, loop, crashed, histVars>>

Init ==
    /\ client = NoClient /\ pc = Null /\ track = Null /\ mDc = Null
    /\ outputBuf = Garbage
    /\ remote = [c \in Clients |-> "away"]
    /\ ws = [c \in Clients |-> "none"]
    /\ closing = {}
    /\ handler = [c \in Clients |-> "idle"]
    /\ offer = [c \in Clients |-> Null]
    /\ offers = 0
    /\ owner = [n \in Ids |-> NoClient]
    /\ trackPc = [n \in Ids |-> Null]
    /\ trackSt = [n \in Ids |-> "new"]
    /\ setupFor = [n \in Ids |-> NoClient]
    /\ applied = [n \in Ids |-> {}]
    /\ chan = [n \in Ids |-> "none"]
    /\ proc = [n \in Ids |-> "idle"]
    /\ cmd = [n \in Ids |-> "none"]
    /\ loop = "idle"
    /\ crashed = "no"
    /\ overlap = FALSE
    /\ stray = FALSE
    /\ late = FALSE
    /\ mixed = {}
    /\ gaveUp = FALSE
    /\ nulled = FALSE
------------------------------------------------------------------------------
\* WebSockets.  The member client holds the only lasting reference; a handler
\* that runs holds another.

Busy(c) == handler[c] # "idle" \/ \E n \in Ids : owner[n] = c /\ proc[n] # "idle"

Dropped(c) == [ws EXCEPT ![c] = "closed"]

\* The member is assigned, and the WebSocket it held is destroyed.
ReplaceClient(new, sockets) ==
    /\ client' = new
    /\ ws' = IF client \in Clients \ {new} /\ handler[client] = "idle"
             THEN [sockets EXCEPT ![client] = "closed"]
             ELSE sockets

ClientConnected(c) ==
    /\ remote[c] = "away"
    /\ remote' = [remote EXCEPT ![c] = "here"]
    /\ ReplaceClient(c, [ws EXCEPT ![c] = "open"])
    /\ overlap' = (overlap \/ \E o \in Clients \ {c} : remote[o] = "here" \/ Busy(o))
    /\ UNCHANGED <<pc, track, mDc, outputBuf, closing, offerVars, pcVars, chanVars, loop,
                   crashed, stray, late, mixed, gaveUp, nulled>>

Leave(c) ==
    /\ remote[c] = "here"
    /\ remote' = [remote EXCEPT ![c] = "gone"]
    /\ UNCHANGED <<memberVars, wsVars, offerVars, pcVars, chanVars, loop, crashed, histVars>>

\* The WebSocket of a client that left closes, sooner or later, after its messages.
SocketCloses(c) ==
    /\ remote[c] = "gone"
    /\ ws[c] = "open"
    /\ handler[c] = "idle"
    /\ ws' = [ws EXCEPT ![c] = "closed"]
    /\ closing' = closing \cup {c}
    /\ UNCHANGED <<memberVars, remote, offerVars, pcVars, chanVars, loop, crashed, histVars>>

OnClosed(c) ==
    /\ c \in closing
    /\ closing' = closing \ {c}
    /\ ReplaceClient(NoClient, ws)
    /\ late' = (late \/ client \notin {c, NoClient})
    /\ UNCHANGED <<pc, track, mDc, outputBuf, remote, offerVars, pcVars, chanVars, loop,
                   crashed, overlap, stray, mixed, gaveUp, nulled>>
------------------------------------------------------------------------------
\* createPeerConnection.

Message(c) == remote[c] = "here" /\ ws[c] = "open" /\ handler[c] = "idle"

Close(states, ids) == [n \in Ids |-> IF n \in ids THEN "closed" ELSE states[n]]
ClosesLater(n) == IF chan[n] = "open" THEN "closing" ELSE chan[n]

\* pc = make_shared: the connection before is destroyed, with its track and channel.
Offer(c) ==
    /\ Message(c)
    /\ offers < MaxOffers
    /\ offers' = offers + 1
    /\ offer' = [offer EXCEPT ![c] = offers + 1]
    /\ owner' = [owner EXCEPT ![offers + 1] = c]
    /\ pc' = offers + 1
    /\ trackSt' = Close(trackSt, {n \in Ids : pc # Null /\ trackPc[n] = pc})
    /\ chan' = [n \in Ids |-> IF n = pc THEN ClosesLater(n) ELSE chan[n]]
    /\ handler' = [handler EXCEPT ![c] = "addTrack"]
    /\ overlap' = (overlap \/ \E n \in Ids : proc[n] # "idle")
    /\ UNCHANGED <<client, track, mDc, outputBuf, remote, wsVars, trackPc, setupFor, applied,
                   proc, cmd, loop, crashed, stray, late, mixed, gaveUp, nulled>>

\* Between these steps pc is read again, as the member that it is.
AddTrack(c) ==
    /\ handler[c] = "addTrack"
    /\ trackPc' = [trackPc EXCEPT ![offer[c]] = pc]
    /\ handler' = [handler EXCEPT ![c] = "store"]
    /\ UNCHANGED <<memberVars, remote, wsVars, offer, offers, owner, trackSt, setupFor, applied,
                   chanVars, loop, crashed, histVars>>

KeepFirst(n) == IF track = Null THEN n ELSE track
Stored(n) == n

StoreTrack(c) ==
    /\ handler[c] = "store"
    /\ track' = Stored(offer[c])
    /\ gaveUp' = FALSE
    /\ handler' = [handler EXCEPT ![c] = "setup"]
    /\ UNCHANGED <<client, pc, mDc, outputBuf, remote, wsVars, offer, offers, owner, pcVars,
                   chanVars, loop, crashed, overlap, stray, late, mixed, nulled>>

PeerConnectionSetup(c) ==
    /\ handler[c] = "setup"
    /\ setupFor' = [setupFor EXCEPT ![pc] = c]
    /\ handler' = [handler EXCEPT ![c] = "describe"]
    /\ UNCHANGED <<memberVars, remote, wsVars, offer, offers, owner, trackPc, trackSt, applied,
                   chanVars, loop, crashed, histVars>>

\* The handler ends, and with it the reference it held to the WebSocket.
SetRemoteDescription(c) ==
    /\ handler[c] = "describe"
    /\ applied' = [applied EXCEPT ![pc] = @ \cup {c}]
    /\ handler' = [handler EXCEPT ![c] = "idle"]
    /\ ws' = IF client = c THEN ws ELSE Dropped(c)
    /\ UNCHANGED <<memberVars, remote, closing, offer, offers, owner, trackPc, trackSt, setupFor,
                   chanVars, loop, crashed, histVars>>

\* An answer or a candidate; nothing tests pc.
AnswerOrCandidate(c) ==
    /\ Message(c)
    /\ IF pc = Null THEN crashed' = "pc" /\ UNCHANGED applied
                    ELSE applied' = [applied EXCEPT ![pc] = @ \cup {c}] /\ UNCHANGED crashed
    /\ stray' = (stray \/ offer[c] = Null)
    /\ UNCHANGED <<memberVars, remote, wsVars, offerVars, trackPc, trackSt, setupFor, chanVars,
                   loop, overlap, late, mixed, gaveUp, nulled>>
------------------------------------------------------------------------------
\* The current peer connection comes up; the one before was destroyed.

Negotiated(n) == n = pc /\ setupFor[n] # NoClient /\ applied[n] # {}

TrackOpens(n) ==
    /\ trackSt[n] = "new"
    /\ trackPc[n] # Null
    /\ Negotiated(trackPc[n])
    /\ trackSt' = [trackSt EXCEPT ![n] = "open"]
    /\ UNCHANGED <<memberVars, remote, wsVars, offerVars, trackPc, setupFor, applied, chanVars,
                   loop, crashed, histVars>>

DontStore(n) == mDc
StoreChannel(n) == n

\* onDataChannel sets the callbacks and, last, stores the channel.
OnDataChannel(n) ==
    /\ Negotiated(n)
    /\ chan[n] = "none"
    /\ chan' = [chan EXCEPT ![n] = "open"]
    /\ mDc' = StoreChannel(n)
    /\ UNCHANGED <<client, pc, track, outputBuf, remote, wsVars, offerVars, pcVars, proc, cmd,
                   loop, crashed, histVars>>

\* The peer of an open channel is gone.
ChannelCloses(n) ==
    /\ chan[n] = "open"
    /\ remote[owner[n]] = "gone"
    /\ chan' = [chan EXCEPT ![n] = "closing"]
    /\ UNCHANGED <<memberVars, remote, wsVars, offerVars, pcVars, proc, cmd, loop, crashed,
                   histVars>>

\* The channel's onClosed, after the callbacks of its messages.
OnChannelClosed(n) ==
    /\ chan[n] = "closing"
    /\ proc[n] = "idle"
    /\ chan' = [chan EXCEPT ![n] = "closed"]
    /\ mDc' = Null
    /\ late' = (late \/ mDc \notin {n, Null})
    /\ UNCHANGED <<client, pc, track, outputBuf, remote, wsVars, offerVars, pcVars, proc, cmd,
                   loop, crashed, overlap, stray, mixed, gaveUp, nulled>>
------------------------------------------------------------------------------
\* processPacket and the command processors, among them clientDisconnected.

Command(n, k) ==
    /\ chan[n] = "open"
    /\ remote[owner[n]] = "here"
    /\ proc[n] = "idle"
    /\ proc' = [proc EXCEPT ![n] = "reset"]
    /\ cmd' = [cmd EXCEPT ![n] = k]
    /\ UNCHANGED <<memberVars, remote, wsVars, offerVars, pcVars, chan, loop, crashed, histVars>>

KeepReply(n) == outputBuf
ErrorReply(n) == <<n, "err">>
OkReply(n) == <<n, "ok">>

Reset(n) ==
    /\ proc[n] = "reset"
    /\ outputBuf' = ErrorReply(n)
    /\ proc' = [proc EXCEPT ![n] = CASE cmd[n] = "unknown"    -> "send"
                                     [] cmd[n] = "disconnect" -> "close"
                                     [] OTHER                 -> "run"]
    /\ mixed' = IF loop = "posSend" THEN mixed \cup {Null} ELSE mixed
    /\ UNCHANGED <<client, pc, track, mDc, remote, wsVars, offerVars, pcVars, chan, cmd,
                   loop, crashed, overlap, stray, late, gaveUp, nulled>>

\* A processor that fails leaves the error in place.
Run(n) ==
    /\ proc[n] = "run"
    /\ outputBuf' = IF cmd[n] = "ok" THEN OkReply(n) ELSE outputBuf
    /\ proc' = [proc EXCEPT ![n] = "send"]
    /\ UNCHANGED <<client, pc, track, mDc, remote, wsVars, offerVars, pcVars, chan, cmd,
                   loop, crashed, histVars>>

DisconnectClose(n) ==
    /\ proc[n] = "close"
    /\ IF track = Null THEN crashed' = "disconnect" /\ UNCHANGED trackSt
                       ELSE trackSt' = Close(trackSt, {track}) /\ UNCHANGED crashed
    /\ proc' = [proc EXCEPT ![n] = "null"]
    /\ UNCHANGED <<memberVars, remote, wsVars, offerVars, trackPc, setupFor, applied, chan, cmd,
                   loop, histVars>>

DisconnectNull(n) ==
    /\ proc[n] = "null"
    /\ track' = Null
    /\ gaveUp' = TRUE
    /\ nulled' = (nulled \/ loop \in {"videoTest", "videoSend"})
    /\ outputBuf' = OkReply(n)
    /\ proc' = [proc EXCEPT ![n] = "send"]
    /\ UNCHANGED <<client, pc, mDc, remote, wsVars, offerVars, pcVars, chan, cmd, loop,
                   crashed, overlap, stray, late, mixed>>

Expected(n) == IF cmd[n] \in {"ok", "disconnect"} THEN <<n, "ok">> ELSE <<n, "err">>

SendReply(n) ==
    /\ proc[n] = "send"
    /\ mixed' = mixed \ {n}
    /\ proc' = [proc EXCEPT ![n] = "idle"]
    /\ cmd' = [cmd EXCEPT ![n] = "none"]
    /\ UNCHANGED <<memberVars, remote, wsVars, offerVars, pcVars, chan, loop, crashed,
                   overlap, stray, late, gaveUp, nulled>>
------------------------------------------------------------------------------
\* The event loop: sendVideoPacket reads track three times, sendCtlPacket loads
\* mDc once.

AlwaysTest == "videoTest"
TestIfSet == IF track = Null THEN "idle" ELSE "videoTest"

VideoBegin ==
    /\ loop = "idle"
    /\ loop' = TestIfSet
    /\ nulled' = FALSE
    /\ UNCHANGED <<memberVars, remote, wsVars, offerVars, pcVars, chanVars, crashed,
                   overlap, stray, late, mixed, gaveUp>>

VideoTestOpen ==
    /\ loop = "videoTest"
    /\ IF track = Null THEN crashed' = "video" /\ UNCHANGED loop
       ELSE /\ loop' = IF trackSt[track] = "open" THEN "videoSend" ELSE "idle"
            /\ UNCHANGED crashed
    /\ UNCHANGED <<memberVars, remote, wsVars, offerVars, pcVars, chanVars, histVars>>

VideoSend ==
    /\ loop = "videoSend"
    /\ IF track = Null THEN crashed' = "video" /\ UNCHANGED loop
                       ELSE loop' = "idle" /\ UNCHANGED crashed
    /\ UNCHANGED <<memberVars, remote, wsVars, offerVars, pcVars, chanVars, histVars>>

CtlBegin ==
    /\ loop = "idle"
    /\ mDc # Null
    /\ loop' = "posWrite"
    /\ UNCHANGED <<memberVars, remote, wsVars, offerVars, pcVars, chanVars, crashed, histVars>>

\* Where processPacket has written to outputBuf and not sent it yet.
Processing == {"run", "close", "null", "send"}

CtlWrite ==
    /\ loop = "posWrite"
    /\ outputBuf' = Pos
    /\ loop' = "posSend"
    /\ mixed' = {n \in Ids : n \in mixed \/ proc[n] \in Processing}
                \cup (IF \E n \in Ids : proc[n] \in Processing \ {"send"} THEN {Null} ELSE {})
    /\ UNCHANGED <<client, pc, track, mDc, remote, wsVars, offerVars, pcVars, chanVars,
                   crashed, overlap, stray, late, gaveUp, nulled>>

CtlSend ==
    /\ loop = "posSend"
    /\ loop' = "idle"
    /\ mixed' = mixed \ {Null}
    /\ UNCHANGED <<memberVars, remote, wsVars, offerVars, pcVars, chanVars, crashed, overlap,
                   stray, late, gaveUp, nulled>>
------------------------------------------------------------------------------
Socket(c) == ClientConnected(c) \/ Leave(c) \/ SocketCloses(c) \/ OnClosed(c)

CreatePeerConnection(c) ==
    \/ Offer(c)
    \/ AddTrack(c)
    \/ StoreTrack(c)
    \/ PeerConnectionSetup(c)
    \/ SetRemoteDescription(c)
    \/ AnswerOrCandidate(c)

Connection(n) == TrackOpens(n) \/ OnDataChannel(n) \/ ChannelCloses(n) \/ OnChannelClosed(n)

ProcessPacket(n) ==
    \/ \E k \in Commands : Command(n, k)
    \/ Reset(n)
    \/ Run(n)
    \/ DisconnectClose(n)
    \/ DisconnectNull(n)
    \/ SendReply(n)

EventLoop == VideoBegin \/ VideoTestOpen \/ VideoSend \/ CtlBegin \/ CtlWrite \/ CtlSend

Next ==
    /\ crashed = "no"
    /\ \/ \E c \in Clients : Socket(c) \/ CreatePeerConnection(c)
       \/ \E n \in Ids : Connection(n) \/ ProcessPacket(n)
       \/ EventLoop

Spec == Init /\ [][Next]_vars
------------------------------------------------------------------------------
TypeOK ==
    /\ client \in Clients \cup {NoClient}
    /\ pc \in 0..MaxOffers /\ track \in 0..MaxOffers /\ mDc \in 0..MaxOffers
    /\ outputBuf \in (0..MaxOffers) \X {"none", "pos", "err", "ok"}
    /\ remote \in [Clients -> {"away", "here", "gone"}]
    /\ ws \in [Clients -> {"none", "open", "closed"}]
    /\ closing \in SUBSET Clients
    /\ handler \in [Clients -> {"idle", "addTrack", "store", "setup", "describe"}]
    /\ offer \in [Clients -> 0..MaxOffers]
    /\ offers \in 0..MaxOffers
    /\ owner \in [Ids -> Clients \cup {NoClient}]
    /\ trackPc \in [Ids -> 0..MaxOffers]
    /\ trackSt \in [Ids -> {"new", "open", "closed"}]
    /\ setupFor \in [Ids -> Clients \cup {NoClient}]
    /\ applied \in [Ids -> SUBSET Clients]
    /\ chan \in [Ids -> {"none", "open", "closing", "closed"}]
    /\ proc \in [Ids -> {"idle", "reset", "run", "close", "null", "send"}]
    /\ cmd \in [Ids -> Commands \cup {"none"}]
    /\ loop \in {"idle", "videoTest", "videoSend", "posWrite", "posSend"}
    /\ crashed \in {"no", "pc", "disconnect", "video"}
    /\ overlap \in BOOLEAN /\ stray \in BOOLEAN /\ late \in BOOLEAN /\ gaveUp \in BOOLEAN /\ nulled \in BOOLEAN
    /\ mixed \in SUBSET (0..MaxOffers)

\* The null pointers this code can meet, and when: pc before the first offer is
\* handled; track in sendVideoPacket when a disconnect falls between its reads, and
\* in clientDisconnected when another disconnect came after the last track.
CrashNeeds ==
    /\ crashed = "pc" => offers = 0
    /\ crashed = "video" => nulled
    /\ crashed = "disconnect" => gaveUp

\* Clients that come one after the other never meet: track and answers are those
\* of the peer connection in use, which was told only what its own client said.
SessionsAreIsolated ==
    ~overlap /\ ~stray =>
        /\ \A n \in Ids : applied[n] \subseteq {owner[n]} /\ setupFor[n] \in {owner[n], NoClient}
        /\ \A n \in Ids : trackPc[n] \in {n, Null}
        /\ (\A c \in Clients : handler[c] = "idle") => track \in {pc, Null}

\* With one client at a time the reply to a command is the one its processor
\* produced, and a position update carries a position, unless one of the two was
\* written to outputBuf between the writing and the sending of the other.
RepliesAreOwn ==
    [][~overlap =>
        /\ \A n \in Ids : proc[n] = "send" /\ proc'[n] = "idle" =>
              n \in mixed \/ outputBuf = Expected(n)
        /\ loop = "posSend" /\ loop' = "idle" => Null \in mixed \/ outputBuf = Pos]_vars

\* The client that came last is the one that is kept, and its data channel the one
\* that position updates go to, unless the onClosed of an earlier one came late.
NewestIsKept ==
    ~overlap /\ ~late =>
        /\ \A c \in Clients : remote[c] = "here" => client = c /\ ws[c] = "open"
        /\ \A n \in Ids : chan[n] = "open" => mDc = n
        /\ mDc # Null => chan[mDc] \in {"open", "closing"}
==============================================================================
