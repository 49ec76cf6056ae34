---------------------------- MODULE ThreadPoolMC ----------------------------
(* Small instances of ThreadPool for TLC. *)
EXTENDS ThreadPool, TLC

CONSTANTS w1, w2

TwoWorkers == {Main, w1, w2}

Plain4(workers) ==
    [threads |-> workers, buffered |-> FALSE, events |-> 4,
     throwing |-> {"initialize", "task", "finalize"}]

Buffer(n) == [threads |-> Workers, buffered |-> TRUE, events |-> n, throwing |-> {}]

AllPools == {Plain4(Workers), Plain4({}), Buffer(3)}

BufferedPool == {Buffer(NumEvents)}

\* Workers are interchangeable.
TwoWorkerSymmetry == Permutations({w1, w2})
=============================================================================
