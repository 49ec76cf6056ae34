-------------------------- MODULE AlignmentRefitMC --------------------------
(* Small instances of AlignmentRefit for TLC. *)
EXTENDS AlignmentRefit, TLC

CONSTANTS w1, w2

TwoWorkers == {Main, w1, w2}

RefitPools ==
    {[threads |-> workers, buffered |-> FALSE, events |-> NumEvents, throwing |-> {"task"}] :
        workers \in {{}, Workers}}
=============================================================================
