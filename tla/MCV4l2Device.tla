----------------------------- MODULE MCV4l2Device -----------------------------
\* Three devices, and the four buffers that videoInit asks for, of two planes (NV12
\* on a driver with planes of their own): an mmap that fails can have buffers and
\* planes before and after it.
EXTENDS V4l2Device, TLC

DevSymmetry == Permutations(Devs)
==============================================================================
