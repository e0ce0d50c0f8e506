----------------------------- MODULE MCWinCapture -----------------------------
\* Two frames and three screen frames, so that a sample meets an empty input
\* queue, and two starts of the sink.
EXTENDS WinCapture
==============================================================================
