---------------------------- MODULE TimerService -----------------------------
(***************************************************************************)
(* What a timer manager promises to the code that gives it a callback,     *)
(* without queues, deadlines or locks.  Callbacks run one at a time, and   *)
(* only those of timers that were added and not removed.  Removing a timer *)
(* returns at once: a callback that has begun still runs to its end.       *)
(***************************************************************************)
VARIABLES known,   \* timers that were ever added; a timer is added once
          armed,   \* those of them whose callback may still begin
          firing,  \* the timer whose callback is running, or NoTimer
          open     \* the service still begins callbacks

CONSTANT NoTimer

tvars == <<known, armed, firing, open>>

TInit ==
    /\ known = {}
    /\ armed = {}
    /\ firing = NoTimer
    /\ open = TRUE

Add(t) ==
    /\ t \notin known
    /\ known' = known \cup {t}
    /\ armed' = armed \cup {t}
    /\ UNCHANGED <<firing, open>>

Remove(t) ==
    /\ t \in known
    /\ armed' = armed \ {t}
    /\ UNCHANGED <<known, firing, open>>

Begin(t) ==
    /\ open
    /\ firing = NoTimer
    /\ t \in armed
    /\ firing' = t
    /\ UNCHANGED <<known, armed, open>>

\* A timer that does not repeat, or that the manager is closing on, ends here.
End ==
    /\ firing # NoTimer
    /\ firing' = NoTimer
    /\ armed' \in {armed, armed \ {firing}}
    /\ UNCHANGED <<known, open>>

Close ==
    /\ open
    /\ open' = FALSE
    /\ UNCHANGED <<known, armed, firing>>

Discard ==
    /\ ~open
    /\ firing = NoTimer
    /\ armed' = {}
    /\ UNCHANGED <<known, firing, open>>

TNext(T) ==
    \/ \E t \in T : Add(t) \/ Remove(t) \/ Begin(t)
    \/ End
    \/ Close
    \/ Discard
==============================================================================
