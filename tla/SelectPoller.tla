----------------------------- MODULE SelectPoller -----------------------------
(***************************************************************************)
(* src/poller/select/SelectPoller.cpp and src/event/Event: a table of      *)
(* IOEvents by descriptor, the descriptor sets given to select, and one    *)
(* iteration of the event loop, which collects the events select reports   *)
(* and then calls their handlers.  Handlers run inside the iteration and   *)
(* may add, change, remove and delete events.  One thread does all of it.  *)
(* The three descriptor sets are one function from the kind of event.  A   *)
(* negative descriptor, for which both calls return false, is left out, and*)
(* so are iterations that change nothing: select times out, is interrupted,*)
(* or fails because a descriptor it was given is closed.                   *)
(***************************************************************************)
EXTENDS Integers, FiniteSets

CONSTANTS Events,     \* IOEvent objects; each is allocated at most once
          Fds,        \* descriptor numbers
          FdOf,       \* mFd of each event
          Kinds,      \* kinds in use, of EVENT_READ 1, EVENT_WRITE 2, EVENT_ERROR 4
          Masks,      \* of each event: the sets of kinds that are enabled together
          NoEvent

EVENT_ERROR == 4

ASSUME PollerAssumption ==
    /\ Fds \subseteq Nat
    /\ IsFiniteSet(Fds)
    /\ FdOf \in [Events -> Fds]
    /\ Kinds \subseteq {1, 2, EVENT_ERROR}
    /\ Masks \in [Events -> SUBSET SUBSET Kinds]
    /\ NoEvent \notin Events

\* A callback is set for every kind that is enabled at some time.
Callbacks == [e \in Events |-> UNION Masks[e]]

VARIABLES mEventMap,       \* event of each descriptor
          watched,         \* mReadSet, mWriteSet, mExceptionSet
          mMaxNumSockets,
          mEvents,         \* the part of the list whose handlers are still to be called
          mEvent,          \* of each event: the kinds it handles
          mREvent,         \* of each event: the kinds reported, until its handler is done
          life,            \* of each event: "none", "alive" or "deleted"
          open, ready,     \* descriptors open, <<descriptor, kind>> that are ready
          loop,            \* where handleEvent is; clients act in "idle" and "callback"
          cur, left,       \* the event whose handler runs, the kinds it has left
          registered,      \* history: events added and not removed by the client
          removedNow,      \* history: events removed during this iteration
          crossed,         \* history: descriptors that two events competed for
          misused          \* history: an event was deleted too early

tableVars  == <<mEventMap, watched, mMaxNumSockets>>
kernelVars == <<open, ready>>
loopVars   == <<loop, cur, left, mEvents, mREvent>>
histVars   == <<registered, removedNow, crossed, misused>>
vars == <<tableVars, mEvent, life, kernelVars, loopVars, histVars>>

\* mMaxNumSockets has no initial value.
Init ==
    /\ mEventMap = [f \in Fds |-> NoEvent]
    /\ watched = [k \in Kinds |-> {}]
    /\ mMaxNumSockets \in {0} \cup {f + 1 : f \in Fds}
    /\ mEvents = {}
    /\ mEvent = [e \in Events |-> {}]
    /\ mREvent = [e \in Events |-> {}]
    /\ life = [e \in Events |-> "none"]
    /\ open = {}
    /\ ready = {}
    /\ loop = "idle"
    /\ cur = NoEvent
    /\ left = {}
    /\ registered = {}
    /\ removedNow = {}
    /\ crossed = {}
    /\ misused = FALSE
------------------------------------------------------------------------------
\* The kernel and the clients.

Arrive(f, k) ==
    /\ f \in open
    /\ ready' = ready \cup {<<f, k>>}
    /\ UNCHANGED <<tableVars, mEvent, life, open, loopVars, histVars>>

ClientRuns == loop \in {"idle", "callback"}

New(e) ==
    /\ ClientRuns
    /\ life[e] = "none"
    /\ life' = [life EXCEPT ![e] = "alive"]
    /\ open' = open \cup {FdOf[e]}
    /\ UNCHANGED <<tableVars, mEvent, ready, loopVars, histVars>>

Close(f) ==
    /\ ClientRuns
    /\ f \in open
    /\ open' = open \ {f}
    /\ ready' = {r \in ready : r[1] # f}
    /\ UNCHANGED <<tableVars, mEvent, life, loopVars, histVars>>

Delete(e) ==
    /\ ClientRuns
    /\ life[e] = "alive"
    /\ life' = [life EXCEPT ![e] = "deleted"]
    /\ misused' = (misused \/ e \in registered \cup removedNow)
    /\ UNCHANGED <<tableVars, mEvent, kernelVars, loopVars, registered, removedNow, crossed>>
------------------------------------------------------------------------------
\* addIOEvent and updateIOEvent, and removeIOEvent.

Used(map) == {f \in Fds : map[f] # NoEvent}
Last(map) == CHOOSE n \in {0} \cup Used(map) : \A f \in Used(map) : f <= n
LastPlusOne(map) == IF Used(map) = {} THEN 0 ELSE Last(map) + 1

OnlySet(f, m) == [k \in Kinds |-> IF k \in m THEN watched[k] \cup {f} ELSE watched[k]]
Watch(f, m) == [k \in Kinds |-> IF k \in m THEN watched[k] \cup {f} ELSE watched[k] \ {f}]

Rivals(e) == {o \in registered \ {e} : FdOf[o] = FdOf[e]}

\* The handlings are enabled or disabled and the event is added or updated: both
\* are the same call, which keeps an event already known for the descriptor.
Update(e, m) ==
    /\ ClientRuns
    /\ life[e] = "alive"
    /\ mEvent' = [mEvent EXCEPT ![e] = m]
    /\ watched' = Watch(FdOf[e], m)
    /\ mEventMap' = [mEventMap EXCEPT ![FdOf[e]] = IF @ = NoEvent THEN e ELSE @]
    /\ mMaxNumSockets' = LastPlusOne(mEventMap')
    /\ registered' = registered \cup {e}
    /\ removedNow' = removedNow \ {e}
    /\ crossed' = crossed \cup {FdOf[o] : o \in Rivals(e)}
    /\ UNCHANGED <<life, kernelVars, loopVars, misused>>

KeepEntry(f) == mEventMap
Erase(f) == [mEventMap EXCEPT ![f] = NoEvent]

\* The entry of the descriptor is erased, whichever event it holds.
Remove(e) ==
    /\ ClientRuns
    /\ life[e] = "alive"
    /\ watched' = Watch(FdOf[e], {})
    /\ mEventMap' = Erase(FdOf[e])
    /\ mMaxNumSockets' = LastPlusOne(mEventMap')
    /\ registered' = registered \ {e}
    /\ removedNow' = IF loop = "callback" /\ e \in registered THEN removedNow \cup {e}
                                                               ELSE removedNow
    /\ crossed' = crossed \cup {FdOf[o] : o \in Rivals(e)}
    /\ UNCHANGED <<mEvent, life, kernelVars, loopVars, misused>>
------------------------------------------------------------------------------
\* handleEvent.

Reported(e) == {k \in Kinds : /\ FdOf[e] \in watched[k]
                              /\ FdOf[e] < mMaxNumSockets
                              /\ <<FdOf[e], k>> \in ready}

Collected == {e \in {mEventMap[f] : f \in Fds} \ {NoEvent} : Reported(e) # {}}

BadDescriptor == \E k \in Kinds : \E f \in watched[k] : f \notin open /\ f < mMaxNumSockets

Select ==
    /\ loop = "idle"
    /\ ~BadDescriptor
    /\ Collected # {}
    /\ mEvents' = Collected
    /\ mREvent' = [e \in Events |-> IF e \in Collected THEN Reported(e) ELSE mREvent[e]]
    /\ loop' = IF \E e \in Collected : life[e] # "alive" THEN "dangling" ELSE "dispatch"
    /\ UNCHANGED <<tableVars, mEvent, life, kernelVars, cur, left, histVars>>

\* Handlers are called in the order of the map.
CallHandler(e) ==
    /\ loop = "dispatch"
    /\ e \in mEvents
    /\ \A o \in mEvents : FdOf[e] <= FdOf[o]
    /\ mEvents' = mEvents \ {e}
    /\ cur' = e
    /\ left' = mREvent[e] \cap Callbacks[e]
    /\ loop' = IF life[e] = "alive" THEN "handler" ELSE "dangling"
    /\ UNCHANGED <<tableVars, mEvent, life, kernelVars, mREvent, histVars>>

EndPass ==
    /\ loop = "dispatch"
    /\ mEvents = {}
    /\ loop' = "idle"
    /\ removedNow' = {}
    /\ UNCHANGED <<tableVars, mEvent, life, kernelVars, cur, left, mEvents, mREvent, registered,
                   crossed, misused>>

Kind == CHOOSE k \in left : \A l \in left : k <= l

\* The callback takes what made the descriptor ready.
BeginCallback ==
    /\ loop = "handler"
    /\ left # {}
    /\ ready' = ready \ {<<FdOf[cur], Kind>>}
    /\ loop' = "callback"
    /\ UNCHANGED <<tableVars, mEvent, life, open, cur, left, mEvents, mREvent, histVars>>

\* IOEvent::handleEvent goes on to its next callback, which it reads from the
\* object, unless this was the last one.
EndCallback ==
    /\ loop = "callback"
    /\ left' = left \ {Kind}
    /\ loop' = IF Kind # EVENT_ERROR /\ life[cur] # "alive" THEN "dangling" ELSE "handler"
    /\ UNCHANGED <<tableVars, mEvent, life, kernelVars, cur, mEvents, mREvent, histVars>>

HandlerReturns ==
    /\ loop = "handler"
    /\ left = {}
    /\ cur' = NoEvent
    /\ mREvent' = [mREvent EXCEPT ![cur] = {}]
    /\ loop' = "dispatch"
    /\ UNCHANGED <<tableVars, mEvent, life, kernelVars, left, mEvents, histVars>>
------------------------------------------------------------------------------
HandleEvent ==
    \/ Select
    \/ \E e \in Events : CallHandler(e)
    \/ EndPass
    \/ BeginCallback
    \/ EndCallback
    \/ HandlerReturns

Client ==
    \/ \E e \in Events : New(e) \/ Delete(e) \/ Remove(e)
    \/ \E e \in Events : \E m \in Masks[e] : Update(e, m)
    \/ \E f \in Fds : Close(f)

Next ==
    \/ HandleEvent
    \/ Client
    \/ \E e \in Events : \E k \in Callbacks[e] : Arrive(FdOf[e], k)

Spec == Init /\ [][Next]_vars

\* scheduler->loop() calls handleEvent for ever, and callbacks return.
FairSpec == Spec /\ WF_vars(HandleEvent)
------------------------------------------------------------------------------
TypeOK ==
    /\ mEventMap \in [Fds -> Events \cup {NoEvent}]
    /\ watched \in [Kinds -> SUBSET Fds]
    /\ mMaxNumSockets \in Nat
    /\ mEvents \in SUBSET Events
    /\ mEvent \in [Events -> SUBSET Kinds]
    /\ mREvent \in [Events -> SUBSET Kinds]
    /\ life \in [Events -> {"none", "alive", "deleted"}]
    /\ open \in SUBSET Fds
    /\ ready \in SUBSET (Fds \X Kinds)
    /\ loop \in {"idle", "dispatch", "handler", "callback", "dangling"}
    /\ cur \in Events \cup {NoEvent}
    /\ left \in SUBSET Kinds
    /\ registered \in SUBSET Events
    /\ removedNow \in SUBSET Events
    /\ crossed \in SUBSET Fds
    /\ misused \in BOOLEAN

\* What a client has to respect so that the loop never uses a deleted event:
\* remove it before deleting it, and do not delete it in the iteration that it
\* was removed in, since the list of that iteration may still hold it and its own
\* handler still reads it.  Removing it first is not enough.
OnlyMisuseDangles == loop = "dangling" => misused

\* As long as no two events competed for a descriptor, select watches exactly
\* what the events registered for it ask for, at descriptors it looks at, and
\* finds that event in the map.
Watched ==
    \A f \in Fds \ crossed :
        /\ \A e \in registered : FdOf[e] = f =>
              mEventMap[f] = e /\ f < mMaxNumSockets
        /\ \A k \in Kinds : f \in watched[k] <=>
              \E e \in registered : FdOf[e] = f /\ k \in mEvent[e]

\* A callback of an event begins only while the event is registered, or in the
\* iteration that it was removed in.
NoLateCallback ==
    [][loop # "callback" /\ loop' = "callback" => cur \in registered \cup removedNow]_vars

Asks(e, k) ==
    /\ e \in registered
    /\ k \in mEvent[e] \cap Callbacks[e]
    /\ FdOf[e] \notin crossed

\* What becomes ready is handled, whatever the handlers before it do, as long as
\* no descriptor is closed while select still watches it.
ReadyIsServed ==
    \A e \in Events, k \in Kinds :
        (Asks(e, k) /\ <<FdOf[e], k>> \in ready)
            ~> (~Asks(e, k) \/ <<FdOf[e], k>> \notin ready \/ BadDescriptor \/ loop = "dangling")
==============================================================================
