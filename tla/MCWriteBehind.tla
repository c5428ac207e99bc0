--------------------------- MODULE MCWriteBehind ---------------------------
(* Small instances of WriteBehind for TLC.                                    *)
EXTENDS WriteBehind, TLC

CONSTANTS T1, T2, T3

ThreeThreads == {T1, T2, T3}

\* The threads are interchangeable; used by the runs without liveness.
Symmetry == Permutations(Threads)
=============================================================================
