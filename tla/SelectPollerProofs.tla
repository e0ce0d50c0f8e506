-------------------------- MODULE SelectPollerProofs ---------------------------
(***************************************************************************)
(* What the event loop never does, for any number of events, descriptors   *)
(* and kinds: proofs about SelectPoller.                                   *)
(***************************************************************************)
EXTENDS SelectPoller, FiniteSetTheorems, WellFoundedInduction, TLAPS

\* The types that the argument uses.
TypeInv ==
    /\ mEventMap \in [Fds -> Events \cup {NoEvent}]
    /\ life \in [Events -> {"none", "alive", "deleted"}]
    /\ registered \subseteq Events
    /\ removedNow \subseteq Events

\* An event in the map is registered, and is that of its descriptor.
MapInv ==
    \A f \in Fds : mEventMap[f] # NoEvent =>
        mEventMap[f] \in registered /\ FdOf[mEventMap[f]] = f

\* The events that an iteration may use.
Current == registered \cup removedNow

\* The events whose handlers are called, or still to be called, are among them.
ListInv ==
    /\ mEvents \subseteq Current
    /\ loop = "idle" => mEvents = {}
    /\ loop \in {"handler", "callback"} => cur \in Current

\* As long as clients respect the rule, those events exist.
AliveInv ==
    ~misused =>
        /\ \A e \in Current : life[e] = "alive"
        /\ loop # "dangling"

IInv == TypeInv /\ MapInv /\ ListInv /\ AliveInv
------------------------------------------------------------------------------
LEMMA FdOfType == \A e \in Events : FdOf[e] \in Fds
    BY PollerAssumption

\* What select reports is registered.
LEMMA CollectedFacts ==
    ASSUME TypeInv, MapInv
    PROVE  Collected \subseteq registered
<1>1. SUFFICES ASSUME NEW e \in Collected PROVE e \in registered
    OBVIOUS
<1>2. PICK f \in Fds : e = mEventMap[f] /\ e # NoEvent
    BY <1>1 DEF Collected
<1> QED
    BY <1>2 DEF MapInv

LEMMA InitInv == Init => IInv
<1> SUFFICES ASSUME Init PROVE IInv
    OBVIOUS
<1>1. TypeInv /\ MapInv
    BY DEF Init, TypeInv, MapInv
<1>2. ListInv /\ AliveInv
    BY DEF Init, ListInv, AliveInv, Current
<1> QED
    BY <1>1, <1>2 DEF IInv
------------------------------------------------------------------------------
\* One lemma for each part of the invariant; the steps that touch none of its
\* variables come last.

LEMMA TypeStep == IInv /\ [Next]_vars => TypeInv'
<1> SUFFICES ASSUME IInv, [Next]_vars PROVE TypeInv'
    OBVIOUS
<1> USE FdOfType DEF IInv, TypeInv
<1>1. CASE \E e \in Events : New(e) \/ Delete(e)
    BY <1>1 DEF New, Delete, tableVars, histVars
<1>2. ASSUME NEW e \in Events, Remove(e) PROVE TypeInv'
    <2>1. mEventMap' \in [Fds -> Events \cup {NoEvent}]
        BY <1>2 DEF Remove, Erase
    <2>2. registered' \subseteq Events /\ removedNow' \subseteq Events
        BY <1>2 DEF Remove
    <2> QED
        BY <1>2, <2>1, <2>2 DEF Remove
<1>3. ASSUME NEW e \in Events, NEW m \in Masks[e], Update(e, m) PROVE TypeInv'
    <2>1. mEventMap' \in [Fds -> Events \cup {NoEvent}]
        BY <1>3 DEF Update
    <2>2. registered' \subseteq Events /\ removedNow' \subseteq Events
        BY <1>3 DEF Update
    <2> QED
        BY <1>3, <2>1, <2>2 DEF Update
<1>4. CASE HandleEvent
    BY <1>4 DEF HandleEvent, Select, CallHandler, EndPass, BeginCallback, EndCallback,
                HandlerReturns, tableVars, histVars
<1>5. CASE (\E f \in Fds : Close(f)) \/ (\E e \in Events : \E k \in Callbacks[e] : Arrive(FdOf[e], k))
    BY <1>5 DEF Close, Arrive, tableVars, histVars
<1>6. CASE UNCHANGED vars
    BY <1>6 DEF vars, tableVars, histVars
<1> QED
    BY <1>1, <1>2, <1>3, <1>4, <1>5, <1>6 DEF Next, Client

LEMMA MapStep == IInv /\ [Next]_vars => MapInv'
<1> SUFFICES ASSUME IInv, [Next]_vars PROVE MapInv'
    OBVIOUS
<1> USE FdOfType, PollerAssumption DEF IInv, TypeInv, MapInv
<1>1. CASE \E e \in Events : New(e) \/ Delete(e)
    BY <1>1 DEF New, Delete, tableVars, histVars
<1>2. ASSUME NEW e \in Events, Remove(e) PROVE MapInv'
    BY <1>2 DEF Remove, Erase
<1>3. ASSUME NEW e \in Events, NEW m \in Masks[e], Update(e, m) PROVE MapInv'
    BY <1>3 DEF Update
<1>4. CASE HandleEvent
    BY <1>4 DEF HandleEvent, Select, CallHandler, EndPass, BeginCallback, EndCallback,
                HandlerReturns, tableVars, histVars
<1>5. CASE (\E f \in Fds : Close(f)) \/ (\E e \in Events : \E k \in Callbacks[e] : Arrive(FdOf[e], k))
    BY <1>5 DEF Close, Arrive, tableVars, histVars
<1>6. CASE UNCHANGED vars
    BY <1>6 DEF vars, tableVars, histVars
<1> QED
    BY <1>1, <1>2, <1>3, <1>4, <1>5, <1>6 DEF Next, Client

\* Nothing that a client does takes an event from those the iteration may use.
LEMMA ClientKeepsCurrent ==
    ASSUME Client, loop # "idle"
    PROVE  Current \subseteq Current'
<1>1. ASSUME NEW e \in Events, Remove(e) PROVE Current \subseteq Current'
    <2>1. loop = "callback"
        BY <1>1 DEF Remove, ClientRuns
    <2> QED
        BY <1>1, <2>1 DEF Remove, Current
<1>2. ASSUME NEW e \in Events, NEW m \in Masks[e], Update(e, m) PROVE Current \subseteq Current'
    BY <1>2 DEF Update, Current
<1>3. CASE (\E e \in Events : New(e) \/ Delete(e)) \/ (\E f \in Fds : Close(f))
    BY <1>3 DEF New, Delete, Close, Current, histVars
<1> QED
    BY <1>1, <1>2, <1>3 DEF Client

LEMMA ListStep == IInv /\ [Next]_vars => ListInv'
<1> SUFFICES ASSUME IInv, [Next]_vars PROVE ListInv'
    OBVIOUS
<1> USE DEF ListInv
<1>1. CASE Client
    <2>1. UNCHANGED loopVars
        BY <1>1 DEF Client, New, Delete, Remove, Update, Close
    <2>2. loop # "idle" => Current \subseteq Current'
        BY <1>1, ClientKeepsCurrent
    <2> QED
        BY <2>1, <2>2 DEF IInv, loopVars
<1>2. CASE Select
    <2>1. Collected \subseteq Current
        BY CollectedFacts DEF IInv, Current
    <2> QED
        BY <1>2, <2>1 DEF IInv, Select, Current, histVars
<1>3. ASSUME NEW e \in Events, CallHandler(e) PROVE ListInv'
    BY <1>3 DEF IInv, CallHandler, Current, histVars
<1>4. CASE EndPass
    BY <1>4 DEF EndPass
<1>5. CASE BeginCallback \/ EndCallback \/ HandlerReturns
    BY <1>5 DEF IInv, BeginCallback, EndCallback, HandlerReturns, Current, histVars
<1>6. CASE \E e \in Events : \E k \in Callbacks[e] : Arrive(FdOf[e], k)
    BY <1>6 DEF IInv, Arrive, Current, histVars, loopVars
<1>7. CASE UNCHANGED vars
    BY <1>7 DEF IInv, vars, Current, histVars, loopVars
<1> QED
    BY <1>1, <1>2, <1>3, <1>4, <1>5, <1>6, <1>7 DEF Next, HandleEvent

LEMMA AliveStep == IInv /\ [Next]_vars => AliveInv'
<1> SUFFICES ASSUME IInv, [Next]_vars, ~misused' PROVE AliveInv'
    BY DEF AliveInv
<1> USE DEF AliveInv
<1>1. ASSUME NEW e \in Events, New(e) PROVE AliveInv'
    <2>1. \A o \in Current : life'[o] = "alive"
        BY <1>1 DEF New, IInv, TypeInv, Current, histVars
    <2> QED
        BY <1>1, <2>1 DEF New, IInv, Current, histVars, loopVars
<1>2. ASSUME NEW e \in Events, Delete(e) PROVE AliveInv'
    <2>1. ~misused /\ e \notin Current
        BY <1>2 DEF Delete, Current
    <2>2. \A o \in Current : life'[o] = "alive"
        BY <1>2, <2>1 DEF Delete, IInv, TypeInv, Current
    <2> QED
        BY <1>2, <2>1, <2>2 DEF Delete, IInv, Current, loopVars
<1>3. ASSUME NEW e \in Events, Remove(e) PROVE AliveInv'
    <2>1. Current' \subseteq Current
        BY <1>3 DEF Remove, Current
    <2> QED
        BY <1>3, <2>1 DEF Remove, IInv, loopVars
<1>4. ASSUME NEW e \in Events, NEW m \in Masks[e], Update(e, m) PROVE AliveInv'
    <2>1. Current' \subseteq Current \cup {e} /\ life[e] = "alive"
        BY <1>4 DEF Update, Current
    <2> QED
        BY <1>4, <2>1 DEF Update, IInv, loopVars
<1>5. CASE Select
    <2>1. ~misused /\ Current' = Current
        BY <1>5 DEF Select, Current, histVars
    <2>2. \A e \in Collected : life[e] = "alive"
        BY <2>1, CollectedFacts DEF IInv, Current
    <2> QED
        BY <1>5, <2>1, <2>2 DEF Select, IInv
<1>6. ASSUME NEW e \in Events, CallHandler(e) PROVE AliveInv'
    <2>1. ~misused /\ Current' = Current
        BY <1>6 DEF CallHandler, Current, histVars
    <2>2. life[e] = "alive"
        BY <1>6, <2>1 DEF CallHandler, IInv, ListInv
    <2> QED
        BY <1>6, <2>1, <2>2 DEF CallHandler, IInv
<1>7. CASE EndPass
    BY <1>7 DEF EndPass, IInv, Current
<1>8. CASE EndCallback
    <2>1. ~misused /\ Current' = Current
        BY <1>8 DEF EndCallback, Current, histVars
    <2>2. life[cur] = "alive"
        BY <1>8, <2>1 DEF EndCallback, IInv, ListInv
    <2> QED
        BY <1>8, <2>1, <2>2 DEF EndCallback, IInv
<1>9. CASE BeginCallback \/ HandlerReturns
    BY <1>9 DEF BeginCallback, HandlerReturns, IInv, Current, histVars
<1>10. CASE (\E f \in Fds : Close(f)) \/ (\E e \in Events : \E k \in Callbacks[e] : Arrive(FdOf[e], k))
    BY <1>10 DEF Close, Arrive, IInv, Current, histVars, loopVars
<1>11. CASE UNCHANGED vars
    BY <1>11 DEF vars, IInv, Current, histVars, loopVars
<1> QED
    BY <1>1, <1>2, <1>3, <1>4, <1>5, <1>6, <1>7, <1>8, <1>9, <1>10, <1>11
    DEF Next, HandleEvent, Client

LEMMA NextInv == IInv /\ [Next]_vars => IInv'
    BY TypeStep, MapStep, ListStep, AliveStep DEF IInv

LEMMA Invariance == Spec => []IInv
    BY InitInv, NextInv, PTL DEF Spec
------------------------------------------------------------------------------
\* The event loop uses a deleted event only after a client broke the rule of
\* OnlyMisuseDangles, however many events there are and whatever handlers do.
THEOREM LoopUsesLiveEvents == Spec => []OnlyMisuseDangles
<1>1. IInv => OnlyMisuseDangles
    BY DEF IInv, AliveInv, OnlyMisuseDangles
<1> QED
    BY <1>1, Invariance, PTL

\* handleEvent begins a callback only for an event that is registered, or was
\* until the iteration it is in.
THEOREM CallbacksAreCurrent == Spec => NoLateCallback
<1>1. IInv /\ [Next]_vars => [loop # "callback" /\ loop' = "callback"
                                  => cur \in registered \cup removedNow]_vars
    <2> SUFFICES ASSUME IInv, Next, loop # "callback", loop' = "callback"
                 PROVE  cur \in registered \cup removedNow
        OBVIOUS
    <2>1. loop = "handler"
        BY DEF Next, HandleEvent, Client, Select, CallHandler, EndPass, BeginCallback,
               EndCallback, HandlerReturns, New, Delete, Remove, Update, Close, Arrive, loopVars
    <2> QED
        BY <2>1 DEF IInv, ListInv, Current
<1> QED
    BY <1>1, Invariance, PTL DEF Spec, NoLateCallback
------------------------------------------------------------------------------
\* A set of natural numbers has a least element, and if it is finite a greatest one:
\* the one that the fewest are above.
LEMMA NatMin == ASSUME NEW T \in SUBSET Nat, T # {} PROVE \E x \in T : \A y \in T : x <= y
<1> DEFINE R == OpToRel(<, Nat)
<1>1. \A x, y \in Nat : <<x, y>> \in R <=> x < y
    BY DEF OpToRel
<1>2. IsWellFoundedOn(R, Nat)
    BY NatLessThanWellFounded
<1> HIDE DEF R
<1>3. PICK x \in T : \A y \in T : ~(<<y, x>> \in R)
    BY <1>2, WFMin
<1>4. \A y \in T : y \in Nat /\ x \in Nat
    OBVIOUS
<1>5. \A y \in T : ~(y < x)
    BY <1>1, <1>3, <1>4
<1> QED
    BY <1>4, <1>5

LEMMA FiniteMax == ASSUME NEW S \in SUBSET Nat, IsFiniteSet(S), S # {}
                   PROVE  \E x \in S : \A y \in S : y <= x
<1> DEFINE Above(s) == {t \in S : t > s}
           C == {Cardinality(Above(s)) : s \in S}
<1>1. \A s \in S : Above(s) \subseteq S /\ IsFiniteSet(Above(s)) /\ Cardinality(Above(s)) \in Nat
    BY FS_Subset, FS_CardinalityType
<1>2. PICK s \in S : \A t \in S : Cardinality(Above(s)) <= Cardinality(Above(t))
    <2>1. C \in SUBSET Nat /\ C # {}
        BY <1>1
    <2>2. PICK k \in C : \A l \in C : k <= l
        BY <2>1, NatMin
    <2> QED
        BY <2>2
<1>3. ASSUME NEW t \in S, t > s PROVE FALSE
    <2>0. \A u \in S : u \in Nat
        OBVIOUS
    <2>1. Above(t) \in SUBSET Above(s) /\ t \in Above(s) /\ t \notin Above(t)
        <3>1. \A u \in S : u > t => u > s
            BY <1>3, <2>0
        <3>2. ~(t > t)
            BY <2>0
        <3> QED
            BY <1>3, <3>1, <3>2
    <2>2. Cardinality(Above(t)) <= Cardinality(Above(s)) /\ Cardinality(Above(t)) # Cardinality(Above(s))
        BY <1>1, <2>1, FS_Subset
    <2> QED
        BY <1>1, <1>2, <2>2
<1> QED
    BY <1>3

\* mMaxNumSockets, as it is computed, is greater than every descriptor in use.
LEMMA LastIsBound ==
    ASSUME NEW map, NEW f \in Fds, map[f] # NoEvent
    PROVE  f < LastPlusOne(map)
<1>1. f \in Used(map) /\ Used(map) \subseteq Fds /\ Fds \subseteq Nat
    BY PollerAssumption DEF Used
<1>2. Used(map) \in SUBSET Nat /\ IsFiniteSet(Used(map))
    BY <1>1, FS_Subset, PollerAssumption
<1>3. PICK n \in Used(map) : \A g \in Used(map) : g <= n
    BY <1>1, <1>2, FiniteMax
<1>4. \E m \in {0} \cup Used(map) : \A g \in Used(map) : g <= m
    BY <1>3
<1>5. Last(map) \in {0} \cup Used(map) /\ \A g \in Used(map) : g <= Last(map)
    BY <1>4 DEF Last
<1>6. Last(map) \in Nat /\ f \in Nat /\ f <= Last(map)
    <2>1. \A g \in {0} \cup Used(map) : g \in Nat
        BY <1>1
    <2>2. Last(map) \in Nat
        BY <1>5, <2>1
    <2>3. f \in Nat
        BY <1>1
    <2> QED
        BY <1>1, <1>5, <2>2, <2>3
<1>7. LastPlusOne(map) = Last(map) + 1
    BY <1>1 DEF LastPlusOne
<1> QED
    BY <1>6, <1>7
------------------------------------------------------------------------------
\* Descriptors in the map are below mMaxNumSockets.
BoundInv == \A f \in Fds : mEventMap[f] # NoEvent => f < mMaxNumSockets

\* Each descriptor that no two events competed for is watched as Watched says.
SoleInv ==
    \A f \in Fds \ crossed :
        /\ \A e \in registered : FdOf[e] = f => mEventMap[f] = e
        /\ \A k \in Kinds : f \in watched[k] <=>
              \E e \in registered : FdOf[e] = f /\ k \in mEvent[e]

WatchTypes ==
    /\ watched \in [Kinds -> SUBSET Fds]
    /\ mEvent \in [Events -> SUBSET Kinds]
    /\ crossed \subseteq Fds

WatchInv == WatchTypes /\ BoundInv /\ SoleInv

LEMMA WatchInit == Init => WatchInv
    BY DEF Init, WatchInv, WatchTypes, BoundInv, SoleInv

LEMMA UpdateKeepsWatch ==
    ASSUME IInv, WatchInv, NEW e \in Events, NEW m \in Masks[e], Update(e, m)
    PROVE  WatchInv'
<1> USE DEF IInv, TypeInv, WatchInv, WatchTypes
<1>1. m \subseteq Kinds /\ FdOf[e] \in Fds
    BY PollerAssumption
<1>2. /\ mEvent' = [mEvent EXCEPT ![e] = m]
      /\ watched' = [k \in Kinds |-> IF k \in m THEN watched[k] \cup {FdOf[e]}
                                                ELSE watched[k] \ {FdOf[e]}]
      /\ mEventMap' = [mEventMap EXCEPT ![FdOf[e]] = IF @ = NoEvent THEN e ELSE @]
      /\ mMaxNumSockets' = LastPlusOne(mEventMap')
      /\ registered' = registered \cup {e}
      /\ crossed' = crossed \cup {FdOf[o] : o \in Rivals(e)}
    BY DEF Update, Watch
<1>3. watched' \in [Kinds -> SUBSET Fds]
    BY <1>1, <1>2
<1>4. mEvent' \in [Events -> SUBSET Kinds]
    BY <1>1, <1>2
<1>5. crossed' \subseteq Fds
    BY <1>2, FdOfType DEF Rivals
<1>6. BoundInv'
    BY <1>2, LastIsBound DEF BoundInv
<1>7. SoleInv'
    <2> SUFFICES ASSUME NEW f \in Fds, f \notin crossed'
                 PROVE  /\ \A o \in registered' : FdOf[o] = f => mEventMap'[f] = o
                        /\ \A k \in Kinds : f \in watched'[k] <=>
                              \E o \in registered' : FdOf[o] = f /\ k \in mEvent'[o]
        BY DEF SoleInv
    <2>1. f \notin crossed
        BY <1>2
    <2>2. CASE f = FdOf[e]
        <3>1. \A o \in registered' : FdOf[o] = f => o = e
            BY <1>2, <2>2 DEF Rivals
        <3>2. mEventMap'[f] = e
            BY <1>1, <1>2, <2>2, <3>1 DEF MapInv
        <3>3. \A k \in Kinds : f \in watched'[k] <=> k \in m
            BY <1>2, <2>2
        <3>4. mEvent'[e] = m /\ e \in registered'
            BY <1>2
        <3> QED
            BY <2>2, <3>1, <3>2, <3>3, <3>4
    <2>3. CASE f # FdOf[e]
        <3>1. mEventMap'[f] = mEventMap[f]
            BY <1>2, <2>3
        <3>2. \A k \in Kinds : f \in watched'[k] <=> f \in watched[k]
            BY <1>2, <2>3
        <3>3. \A o \in Events : FdOf[o] = f => mEvent'[o] = mEvent[o]
                                             /\ (o \in registered' <=> o \in registered)
            BY <1>2, <2>3
        <3>4. registered' \subseteq Events
            BY <1>2
        <3> QED
            BY <2>1, <3>1, <3>2, <3>3, <3>4 DEF SoleInv
    <2> QED
        BY <2>2, <2>3
<1> QED
    BY <1>3, <1>4, <1>5, <1>6, <1>7

LEMMA RemoveKeepsWatch ==
    ASSUME IInv, WatchInv, NEW e \in Events, Remove(e)
    PROVE  WatchInv'
<1> USE DEF IInv, TypeInv, WatchInv, WatchTypes
<1>1. FdOf[e] \in Fds
    BY PollerAssumption
<1>2. /\ watched' = [k \in Kinds |-> watched[k] \ {FdOf[e]}]
      /\ mEventMap' = [mEventMap EXCEPT ![FdOf[e]] = NoEvent]
      /\ mMaxNumSockets' = LastPlusOne(mEventMap')
      /\ registered' = registered \ {e}
      /\ crossed' = crossed \cup {FdOf[o] : o \in Rivals(e)}
      /\ mEvent' = mEvent
    BY DEF Remove, Watch, Erase
<1>3. WatchTypes'
    BY <1>2, FdOfType DEF Rivals
<1>4. BoundInv'
    BY <1>2, LastIsBound DEF BoundInv
<1>5. SoleInv'
    <2> SUFFICES ASSUME NEW f \in Fds, f \notin crossed'
                 PROVE  /\ \A o \in registered' : FdOf[o] = f => mEventMap'[f] = o
                        /\ \A k \in Kinds : f \in watched'[k] <=>
                              \E o \in registered' : FdOf[o] = f /\ k \in mEvent'[o]
        BY DEF SoleInv
    <2>1. f \notin crossed
        BY <1>2
    <2>2. CASE f = FdOf[e]
        <3>1. \A o \in registered' : FdOf[o] # f
            BY <1>2, <2>2 DEF Rivals
        <3>2. \A k \in Kinds : f \notin watched'[k]
            BY <1>2, <2>2
        <3> QED
            BY <3>1, <3>2
    <2>3. CASE f # FdOf[e]
        <3>1. mEventMap'[f] = mEventMap[f]
            BY <1>2, <2>3
        <3>2. \A k \in Kinds : f \in watched'[k] <=> f \in watched[k]
            BY <1>2, <2>3
        <3>3. \A o \in Events : FdOf[o] = f => (o \in registered' <=> o \in registered)
            BY <1>2, <2>3
        <3> QED
            BY <1>2, <2>1, <3>1, <3>2, <3>3 DEF SoleInv
    <2> QED
        BY <2>2, <2>3
<1> QED
    BY <1>3, <1>4, <1>5

LEMMA WatchStep == IInv /\ WatchInv /\ [Next]_vars => WatchInv'
<1> SUFFICES ASSUME IInv, WatchInv, [Next]_vars PROVE WatchInv'
    OBVIOUS
<1>1. CASE \E e \in Events : Remove(e)
    BY <1>1, RemoveKeepsWatch
<1>2. CASE \E e \in Events : \E m \in Masks[e] : Update(e, m)
    BY <1>2, UpdateKeepsWatch
<1>3. CASE ~(\E e \in Events : Remove(e) \/ \E m \in Masks[e] : Update(e, m))
    <2>1. UNCHANGED <<tableVars, mEvent, registered, crossed>>
        BY <1>3 DEF Next, Client, New, Delete, Close, HandleEvent, Select, CallHandler, EndPass,
                    BeginCallback, EndCallback, HandlerReturns, Arrive, vars, histVars
    <2> QED
        BY <2>1 DEF WatchInv, WatchTypes, BoundInv, SoleInv, tableVars
<1> QED
    BY <1>1, <1>2, <1>3

\* select watches, for every descriptor that only one event at a time was added for,
\* what that event asks for, whatever else is added, changed and removed.
THEOREM EventsAreWatched == Spec => []Watched
<1>1. IInv /\ WatchInv => Watched
    BY PollerAssumption DEF IInv, TypeInv, WatchInv, BoundInv, SoleInv, Watched
<1> QED
    BY <1>1, Invariance, WatchInit, WatchStep, PTL DEF Spec
==============================================================================
