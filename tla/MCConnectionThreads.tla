------------------------- MODULE MCConnectionThreads -------------------------
(* Instances of ConnectionThreads for TLC.                                   *)
EXTENDS ConnectionThreads, TLC

\* Threads and application threads are interchangeable (safety runs only).
Symmetry == Permutations(Users) \cup Permutations(Threads)
==============================================================================
