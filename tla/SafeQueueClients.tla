-------------------------- MODULE SafeQueueClients --------------------------
(***************************************************************************)
(* SafeQueue under every caller its interface allows: any thread may pop,  *)
(* push to either queue, complete an identifier or invalidate the queue.   *)
(* The callers keep what the asserts of the code and the documentation of  *)
(* the interface ask for: a job is pushed once, an identifier is completed *)
(* once, and only when no priority job of that identifier is on its way.   *)
(***************************************************************************)
EXTENDS SafeQueue

CONSTANTS
    MaxId,          \* bound: the identifiers are 0..MaxId
    StandardWait,   \* the values of wait in push(value, wait)
    PriorityWait    \* the values of wait in push(n, value, wait)

ASSUME ClientsAssumption ==
    /\ IsFiniteSet(Threads)
    /\ MaxId \in Nat
    /\ StandardWait \subseteq BOOLEAN
    /\ PriorityWait \subseteq BOOLEAN

VARIABLES unpushed, uncompleted

vars == <<queueVars, unpushed, uncompleted>>

\* A priority job of identifier n waits in the queue or is being pushed.
Pending(n) ==
    \/ \E e \in priority_queue : e.id = n
    \/ \E t \in Threads : at[t] = "push_priority" /\ num[t] = n

ClientPop(t) ==
    /\ CallPop(t)
    /\ UNCHANGED <<unpushed, uncompleted>>

ClientPush(t) ==
    /\ \E j \in unpushed, wait \in StandardWait :
        /\ CallPush(t, j, wait)
        /\ unpushed' = unpushed \ {j}
    /\ UNCHANGED uncompleted

\* assert(n >= current_id_): the identifier is not completed yet.
ClientPushPriority(t) ==
    /\ \E j \in unpushed, n \in uncompleted, wait \in PriorityWait :
        /\ ~Pending(n)
        /\ CallPushPriority(t, n, j, wait)
        /\ unpushed' = unpushed \ {j}
    /\ UNCHANGED uncompleted

ClientComplete(t) ==
    /\ \E n \in uncompleted :
        /\ ~Pending(n)
        /\ CallComplete(t, n)
        /\ uncompleted' = uncompleted \ {n}
    /\ UNCHANGED unpushed

ClientInvalidate(t) ==
    /\ at[t] = "idle"
    /\ Invalidate
    /\ UNCHANGED <<frames, unpushed, uncompleted>>

InsideQueue(t) == QueueStep(t) /\ UNCHANGED <<unpushed, uncompleted>>

Wakeup == SpuriousWake /\ UNCHANGED <<unpushed, uncompleted>>

Init ==
    /\ QueueInit
    /\ unpushed = Jobs
    /\ uncompleted = 0..MaxId

ThreadStep(t) ==
    \/ ClientPop(t) \/ ClientPush(t) \/ ClientPushPriority(t)
    \/ ClientComplete(t) \/ ClientInvalidate(t) \/ InsideQueue(t)

Next == Wakeup \/ \E t \in Threads : ThreadStep(t)

Spec == Init /\ [][Next]_vars

-----------------------------------------------------------------------------
\* Types of the queue and of its callers.
TypeOK ==
    /\ QueueTypeOK
    /\ unpushed \in SUBSET Jobs
    /\ uncompleted \in SUBSET (0..MaxId)

\* Neither queue outgrows its limit, whoever is pushing: the pusher that was
\* woken tests the size again in the critical section it pushes in.
Bounded ==
    /\ Len(queue) <= MaxStandard
    /\ Cardinality(priority_queue) <= MaxPriority

\* The two sets of complete() partition what was ever completed: every
\* identifier below current_id_ has been completed, and the others wait in
\* completed_ids_, even when two threads advance current_id_ in turn through
\* the windows in which complete() has released the mutex.
Prefix ==
    /\ \A i \in 0..(current_id - 1) : i \in completed
    /\ completed_ids = {i \in completed : i >= current_id}

\* complete() leaves no leading identifier behind: one that is completed and
\* equal to current_id_ has a thread on its way to erase it.
NoStall ==
    current_id \in completed_ids =>
        \E t \in Threads : at[t] \in {"advanced", "relock"}

\* A job of the priority queue leaves it only when every smaller identifier
\* has been completed (or when the queue is invalidated).
LinearRelease ==
    [][\A e \in priority_queue \ priority_queue' :
            valid' => \A i \in 0..(e.id - 1) : i \in completed]_vars

\* Nobody sleeps on a queue that has been invalidated: neither condition
\* variable will be notified again.
NoSleepAfterInvalidate == ~valid => pop_waiters = {} /\ push_waiters = {}

\* The notifications of pop are not lost: while a pusher sleeps for a place in
\* the standard queue, each free place has a popper about to notify or such a
\* pusher that is awake and will test the size.
NoLostPush ==
    (\E t \in push_waiters : at[t] = "push") =>
        MaxStandard - Len(queue) <=
              Cardinality({t \in Threads : at[t] = "popped"})
            + Cardinality({t \in Threads : InPush(t) /\ at[t] = "push"})

\* complete() never reads through an iterator whose element another thread
\* has erased while the mutex was released.
IteratorsValid == \A t \in Threads : at[t] = "relock" => ~Dangling(t)
=============================================================================
