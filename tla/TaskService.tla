----------------------------- MODULE TaskService -----------------------------
(***************************************************************************)
(* What a thread pool promises to the code that hands it tasks, without    *)
(* threads, locks or condition variables.  Tasks are numbered in the order *)
(* they are submitted.  Each one is started at most once, in submission    *)
(* order; the service may begin to close only when no task is waiting, and *)
(* it is closed only when no task is running either.                       *)
(***************************************************************************)
EXTENDS Naturals, Sequences

VARIABLES pending,    \* tasks submitted and not started, oldest first
          running,    \* tasks started and not finished
          finished,   \* tasks that ran to their end
          submitted,  \* how many tasks were submitted
          phase       \* "open", "closing" or "closed"

svars == <<pending, running, finished, submitted, phase>>

SInit ==
    /\ pending = <<>>
    /\ running = {}
    /\ finished = {}
    /\ submitted = 0
    /\ phase = "open"

Submit ==
    /\ submitted' = submitted + 1
    /\ pending' = Append(pending, submitted + 1)
    /\ UNCHANGED <<running, finished, phase>>

Start ==
    /\ phase = "open"
    /\ pending # <<>>
    /\ pending' = Tail(pending)
    /\ running' = running \cup {Head(pending)}
    /\ UNCHANGED <<finished, submitted, phase>>

Complete ==
    /\ \E t \in running : /\ running' = running \ {t}
                          /\ finished' = finished \cup {t}
    /\ UNCHANGED <<pending, submitted, phase>>

BeginClose ==
    /\ phase = "open"
    /\ pending = <<>>
    /\ phase' = "closing"
    /\ UNCHANGED <<pending, running, finished, submitted>>

EndClose ==
    /\ phase = "closing"
    /\ running = {}
    /\ phase' = "closed"
    /\ UNCHANGED <<pending, running, finished, submitted>>

Reopen ==
    /\ phase = "closed"
    /\ phase' = "open"
    /\ UNCHANGED <<pending, running, finished, submitted>>

SNext ==
    Submit \/ Start \/ Complete \/ BeginClose \/ EndClose \/ Reopen

SSpec == SInit /\ [][SNext]_svars
==============================================================================
