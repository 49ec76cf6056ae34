---------------------------- MODULE SafeQueueMC -----------------------------
(* Small instances of SafeQueueClients for TLC. *)
EXTENDS SafeQueueClients, TLC

CONSTANTS t1, t2, t3, j1, j2, j3

ThreeThreads == {t1, t2, t3}
TwoThreads == {t1, t2}
ThreeJobs == {j1, j2, j3}
TwoJobs == {j1, j2}

\* Threads and jobs are interchangeable.
SymmetryJobs3 == Permutations(ThreeThreads) \cup Permutations(ThreeJobs)
=============================================================================
