---------------------------- MODULE MCSelectPoller ----------------------------
\* Two descriptors and three events.  The first event has two callbacks, the last
\* of which is the last that IOEvent::handleEvent examines; the second is also
\* disabled; the third has the descriptor of the second, after it or beside it.
EXTENDS SelectPoller, TLC

CONSTANTS e1, e2, e3

MCFdOf == (e1 :> 1) @@ (e2 :> 2) @@ (e3 :> 2)
MCMasks == (e1 :> {{1, 4}}) @@ (e2 :> {{1}, {}}) @@ (e3 :> {{1}})
==============================================================================
