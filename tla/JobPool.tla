------------------------------ MODULE JobPool ------------------------------
(***************************************************************************)
(* What the interface of ThreadPool promises to those who submit jobs, with *)
(* neither workers nor locks: plain jobs begin in the order they were      *)
(* accepted, an ordered job begins when the events before its own are      *)
(* complete, a job is refused or dropped only once the pool has stopped,   *)
(* and every job has one end.                                              *)
(***************************************************************************)
EXTENDS Integers, Sequences

CONSTANTS NumEvents     \* the jobs are those of events 0..NumEvents-1

VARIABLES state,        \* of every job
          line,         \* the plain jobs that wait, in order
          complete,     \* the events that are marked complete
          open          \* the pool has not stopped

jobVars == <<state, line, complete, open>>

Job == [event : 0..(NumEvents - 1), ordered : BOOLEAN]

JobInit ==
    /\ state = [j \in Job |-> "none"]
    /\ line = <<>>
    /\ complete = {}
    /\ open = TRUE

Become(j, from, to) == state[j] = from /\ state' = [state EXCEPT ![j] = to]

Submit(j) == Become(j, "none", "submitted") /\ UNCHANGED <<line, complete, open>>

Accept(j) ==
    /\ open
    /\ Become(j, "submitted", "queued")
    /\ line' = IF j.ordered THEN line ELSE Append(line, j)
    /\ UNCHANGED <<complete, open>>

Refuse(j) ==
    /\ ~open
    /\ Become(j, "submitted", "nostate")
    /\ UNCHANGED <<line, complete, open>>

Start(j) ==
    /\ Become(j, "queued", "running")
    /\ IF j.ordered
       THEN 0..(j.event - 1) \subseteq complete /\ UNCHANGED line
       ELSE line # <<>> /\ Head(line) = j /\ line' = Tail(line)
    /\ UNCHANGED <<complete, open>>

MarkComplete(j) ==
    /\ state[j] = "running"
    /\ complete' = complete \cup {j.event}
    /\ UNCHANGED <<state, line, open>>

\* Without workers the job runs when it is submitted.
End(j) ==
    /\ \E from \in {"running", "none"}, to \in {"value", "exception"} : Become(j, from, to)
    /\ UNCHANGED <<line, complete, open>>

Stop ==
    /\ open' = FALSE
    /\ line' = <<>>
    /\ state' = [j \in Job |-> IF state[j] = "queued" THEN "broken" ELSE state[j]]
    /\ UNCHANGED complete

JobNext ==
    \/ \E j \in Job :
        Submit(j) \/ Accept(j) \/ Refuse(j) \/ Start(j) \/ MarkComplete(j) \/ End(j)
    \/ Stop

JobSpec == JobInit /\ [][JobNext]_jobVars
=============================================================================
