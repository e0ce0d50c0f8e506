---------------------------- MODULE MCWebrtcSession ----------------------------
\* Two clients, one after the other or together, and an offer of each, or two of
\* the same.
EXTENDS WebrtcSession, TLC

CONSTANTS c1, c2

ClientSymmetry == Permutations(Clients)
==============================================================================
