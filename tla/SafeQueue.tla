------------------------------ MODULE SafeQueue ------------------------------
(***************************************************************************)
(* The queue inside corryvreckan::ThreadPool                               *)
(* (src/core/utils/ThreadPool.tpp, ThreadPool.hpp): a bounded FIFO for     *)
(* standard jobs and a bounded priority queue whose jobs leave in the      *)
(* order of their identifiers, guarded by one mutex and two condition      *)
(* variables.                                                              *)
(*                                                                         *)
(* One critical section of mutex_ is one step.  A notify_one that follows  *)
(* the unlock is a step of its own, because another thread may enter       *)
(* between the two.  A thread asleep on a condition variable is a member   *)
(* of that variable's waiter set; once it has left the set it is awake and *)
(* will test its condition again when it next gets the mutex.              *)
(*                                                                         *)
(* The module defines the steps of a thread inside the queue's functions.  *)
(* Who calls them, and when, is said by the modules that use it.           *)
(***************************************************************************)
EXTENDS Integers, Sequences, FiniteSets

CONSTANTS
    Threads,        \* every thread that may call the queue
    Jobs,           \* the values a caller can push
    NoJob,          \* the empty std::unique_ptr of a caller without a job
    MaxStandard,    \* max_standard_size_
    MaxPriority,    \* max_priority_size_
    BufferLeft      \* the buffer_left every pop is called with

ASSUME SafeQueueAssumption ==
    /\ NoJob \notin Jobs
    /\ MaxStandard \in Nat
    /\ MaxPriority \in Nat
    /\ BufferLeft \in 0..MaxPriority    \* the assert that opens pop

VARIABLES
    queue,          \* queue_
    priority_queue, \* priority_queue_: a set of [id, job], a heap in the code
    completed_ids,  \* completed_ids_
    current_id,     \* current_id_
    valid,          \* valid_
    pop_waiters,    \* threads asleep on pop_condition_
    push_waiters,   \* threads asleep on push_condition_
    at,             \* where a thread is in the queue's code, "idle" outside
    job,            \* the job a thread pushes, or the one its last pop took
    num,            \* the identifier it pushes or completes; then its iterator
    block,          \* the wait parameter of its push
    ok,             \* what its last call returned
    completed       \* history: every identifier complete() was called with

data == <<queue, priority_queue, completed_ids, current_id, valid, completed>>
sleepers == <<pop_waiters, push_waiters>>
frames == <<at, job, num, block, ok>>
queueVars == <<data, sleepers, frames>>

End == -1           \* completed_ids_.end(), and the num of a thread without one

Entry == [id : Nat, job : Jobs]

Labels == {"idle", "pop", "popped_priority", "popped", "push",
           "push_priority", "pushed", "complete", "advanced", "relock"}

(***************************************************************************)
(* Types.                                                                  *)
(***************************************************************************)
QueueTypeOK ==
    /\ queue \in Seq(Jobs)
    /\ priority_queue \in SUBSET Entry
    /\ completed_ids \in SUBSET Nat
    /\ completed \in SUBSET Nat
    /\ current_id \in Nat
    /\ valid \in BOOLEAN
    /\ pop_waiters \in SUBSET Threads
    /\ push_waiters \in SUBSET Threads
    /\ at \in [Threads -> Labels]
    /\ job \in [Threads -> Jobs \cup {NoJob}]
    /\ num \in [Threads -> Nat \cup {End}]
    /\ block \in [Threads -> BOOLEAN]
    /\ ok \in [Threads -> BOOLEAN]
    /\ \A t \in Threads :
        /\ at[t] \in {"push", "push_priority"} => job[t] \in Jobs
        /\ at[t] \in {"push_priority", "complete"} => num[t] \in Nat

QueueInit ==
    /\ queue = <<>>
    /\ priority_queue = {}
    /\ completed_ids = {}
    /\ completed = {}
    /\ current_id = 0
    /\ valid = TRUE
    /\ pop_waiters = {}
    /\ push_waiters = {}
    /\ at = [t \in Threads |-> "idle"]
    /\ job = [t \in Threads |-> NoJob]
    /\ num = [t \in Threads |-> End]
    /\ block = [t \in Threads |-> FALSE]
    /\ ok = [t \in Threads |-> FALSE]

(***************************************************************************)
(* Condition variables.                                                    *)
(***************************************************************************)
NotifyPop ==
    \/ pop_waiters = {} /\ UNCHANGED pop_waiters
    \/ \E w \in pop_waiters : pop_waiters' = pop_waiters \ {w}

NotifyPush ==
    \/ push_waiters = {} /\ UNCHANGED push_waiters
    \/ \E w \in push_waiters : push_waiters' = push_waiters \ {w}

\* std::condition_variable::wait may return without a notification.
SpuriousWake ==
    /\ \/ \E w \in pop_waiters :
            /\ pop_waiters' = pop_waiters \ {w}
            /\ UNCHANGED push_waiters
       \/ \E w \in push_waiters :
            /\ push_waiters' = push_waiters \ {w}
            /\ UNCHANGED pop_waiters
    /\ UNCHANGED <<data, frames>>

(***************************************************************************)
(* A thread enters and leaves the functions of the queue.                  *)
(***************************************************************************)
Enter(t, label, j, n, wait) ==
    /\ at[t] = "idle"
    /\ at' = [at EXCEPT ![t] = label]
    /\ job' = [job EXCEPT ![t] = j]
    /\ num' = [num EXCEPT ![t] = n]
    /\ block' = [block EXCEPT ![t] = wait]
    /\ UNCHANGED <<data, sleepers, ok>>

CallPop(t) == Enter(t, "pop", NoJob, End, FALSE)
CallPush(t, j, wait) == Enter(t, "push", j, End, wait)
CallPushPriority(t, n, j, wait) == Enter(t, "push_priority", j, n, wait)
CallComplete(t, n) == Enter(t, "complete", NoJob, n, FALSE)

\* The call of t returns r, with j in its out parameter.
Leave(t, r, j) ==
    /\ at' = [at EXCEPT ![t] = "idle"]
    /\ job' = [job EXCEPT ![t] = j]
    /\ num' = [num EXCEPT ![t] = End]
    /\ block' = [block EXCEPT ![t] = FALSE]
    /\ ok' = [ok EXCEPT ![t] = r]

Goto(t, label) ==
    /\ at' = [at EXCEPT ![t] = label]
    /\ UNCHANGED <<job, num, block, ok>>

(***************************************************************************)
(* pop(out, buffer_left)                                                   *)
(***************************************************************************)
\* priority_queue_.top(); equal identifiers are ordered by address, that is
\* arbitrarily.
Top == {e \in priority_queue : \A f \in priority_queue : e.id <= f.id}

CanPopPriority == \E e \in Top : e.id = current_id
\* Mutation: the places reserved in the priority queue are ignored.
CanPopStandardUnreserved == queue # <<>>

CanPopStandard ==
    /\ queue # <<>>
    /\ Cardinality(priority_queue) + BufferLeft <= MaxPriority

InPop(t) == at[t] = "pop" /\ t \notin pop_waiters

PopInvalid(t) ==
    /\ InPop(t)
    /\ ~valid
    /\ Leave(t, FALSE, NoJob)
    /\ UNCHANGED <<data, sleepers>>
\* Mutation: the state of the queue is not tested before waiting.
PopSleepUnchecked(t) ==
    /\ InPop(t)
    /\ ~CanPopPriority
    /\ ~CanPopStandard
    /\ pop_waiters' = pop_waiters \cup {t}
    /\ UNCHANGED <<data, push_waiters, frames>>

PopSleep(t) ==
    /\ InPop(t)
    /\ valid
    /\ ~CanPopPriority
    /\ ~CanPopStandard
    /\ pop_waiters' = pop_waiters \cup {t}
    /\ UNCHANGED <<data, push_waiters, frames>>
\* Mutation: the top of the priority queue is taken whatever its identifier.
PopPriorityAny(t) ==
    /\ InPop(t)
    /\ valid
    /\ \E e \in Top :
        /\ priority_queue' = priority_queue \ {e}
        /\ job' = [job EXCEPT ![t] = e.job]
    /\ at' = [at EXCEPT ![t] = "popped_priority"]
    /\ UNCHANGED <<queue, completed_ids, current_id, valid, completed,
                   sleepers, num, block, ok>>

PopPriority(t) ==
    /\ InPop(t)
    /\ valid
    /\ \E e \in Top :
        /\ e.id = current_id
        /\ priority_queue' = priority_queue \ {e}
        /\ job' = [job EXCEPT ![t] = e.job]
    /\ at' = [at EXCEPT ![t] = "popped_priority"]
    /\ UNCHANGED <<queue, completed_ids, current_id, valid, completed,
                   sleepers, num, block, ok>>

PopStandard(t) ==
    /\ InPop(t)
    /\ valid
    /\ ~CanPopPriority
    /\ CanPopStandard
    /\ job' = [job EXCEPT ![t] = Head(queue)]
    /\ queue' = Tail(queue)
    /\ at' = [at EXCEPT ![t] = "popped"]
    /\ UNCHANGED <<priority_queue, completed_ids, current_id, valid, completed,
                   sleepers, num, block, ok>>

PopNotifyPop(t) ==
    /\ at[t] = "popped_priority"
    /\ NotifyPop
    /\ Goto(t, "popped")
    /\ UNCHANGED <<data, push_waiters>>
\* Mutation: the pushers are not notified.
PopNotifyNobody(t) ==
    /\ at[t] = "popped"
    /\ Leave(t, TRUE, job[t])
    /\ UNCHANGED <<data, sleepers>>

PopNotifyPush(t) ==
    /\ at[t] = "popped"
    /\ NotifyPush
    /\ Leave(t, TRUE, job[t])
    /\ UNCHANGED <<data, pop_waiters>>

(***************************************************************************)
(* push(value, wait) and push(n, value, wait)                              *)
(***************************************************************************)
InPush(t) == at[t] \in {"push", "push_priority"} /\ t \notin push_waiters

\* The queue that t pushes to has no room.
Full(t) ==
    IF at[t] = "push" THEN Len(queue) >= MaxStandard
                      ELSE Cardinality(priority_queue) >= MaxPriority

PushRefused(t) ==
    /\ InPush(t)
    /\ ~valid \/ (Full(t) /\ ~block[t])
    /\ Leave(t, FALSE, NoJob)
    /\ UNCHANGED <<data, sleepers>>

PushSleep(t) ==
    /\ InPush(t)
    /\ valid
    /\ Full(t)
    /\ block[t]
    /\ push_waiters' = push_waiters \cup {t}
    /\ UNCHANGED <<data, pop_waiters, frames>>

PushStandard(t) ==
    /\ InPush(t)
    /\ at[t] = "push"
    /\ valid
    /\ ~Full(t)
    /\ queue' = Append(queue, job[t])
    /\ Goto(t, "pushed")
    /\ UNCHANGED <<priority_queue, completed_ids, current_id, valid, completed,
                   sleepers>>

PushPriority(t) ==
    /\ InPush(t)
    /\ at[t] = "push_priority"
    /\ valid
    /\ ~Full(t)
    /\ priority_queue' = priority_queue \cup {[id |-> num[t], job |-> job[t]]}
    /\ Goto(t, "pushed")
    /\ UNCHANGED <<queue, completed_ids, current_id, valid, completed, sleepers>>
\* Mutation: the poppers are not notified.
PushNotifyNobody(t) ==
    /\ at[t] = "pushed"
    /\ Leave(t, TRUE, NoJob)
    /\ UNCHANGED <<data, sleepers>>

PushNotify(t) ==
    /\ at[t] = "pushed"
    /\ NotifyPop
    /\ Leave(t, TRUE, NoJob)
    /\ UNCHANGED <<data, push_waiters>>

(***************************************************************************)
(* complete(n): insert n, then erase the leading identifiers one by one,   *)
(* leaving the critical section after each to notify.  The iterator, kept  *)
(* across the unlocked window, is the identifier it refers to.             *)
(***************************************************************************)
IsLeast(i, S) == i \in S /\ \A k \in S : i <= k
\* Mutation: current_id_ is decremented.
AdvanceBack(t, ids, i) ==
    /\ completed_ids' = ids \ {i}
    /\ current_id' = current_id - 1
    /\ num' = [num EXCEPT ![t] = End]
    /\ at' = [at EXCEPT ![t] = "advanced"]
    /\ UNCHANGED <<job, block, ok>>

\* The loop body on the element i of ids, when it is the current identifier:
\* erase() returns the iterator to the element after i.
Advance(t, ids, i) ==
    /\ completed_ids' = ids \ {i}
    /\ current_id' = current_id + 1
    /\ LET later == {k \in ids : k > i}
       IN  \/ \E n \in later : IsLeast(n, later) /\ num' = [num EXCEPT ![t] = n]
           \/ later = {} /\ num' = [num EXCEPT ![t] = End]
    /\ at' = [at EXCEPT ![t] = "advanced"]
    /\ UNCHANGED <<job, block, ok>>
\* Mutation: the first identifier is erased without a look at current_id_.
CompleteAny(t) ==
    /\ at[t] = "complete"
    /\ completed' = completed \cup {num[t]}
    /\ LET ids == completed_ids \cup {num[t]}
       IN  \E i \in ids : IsLeast(i, ids) /\ Advance(t, ids, i)
    /\ UNCHANGED <<queue, priority_queue, valid, sleepers>>

Complete(t) ==
    /\ at[t] = "complete"
    /\ completed' = completed \cup {num[t]}
    /\ LET ids == completed_ids \cup {num[t]}
       IN  IF IsLeast(current_id, ids)
           THEN Advance(t, ids, current_id)
           ELSE /\ completed_ids' = ids
                /\ Leave(t, TRUE, NoJob)
                /\ UNCHANGED current_id
    /\ UNCHANGED <<queue, priority_queue, valid, sleepers>>

CompleteNotify(t) ==
    /\ at[t] = "advanced"
    /\ NotifyPop
    /\ Goto(t, "relock")
    /\ UNCHANGED <<data, push_waiters>>

\* The iterator of t refers to an element that another thread has erased.
Dangling(t) == num[t] # End /\ num[t] \notin completed_ids

\* What reading *iter can give.  The memory of an erased element holds its old
\* value, or a later insert got the same node and an element of the set is there.
Dereferenced(t) ==
    IF Dangling(t) THEN completed_ids \cup {num[t]} ELSE {num[t]}
\* Mutation: complete() erases one identifier and returns.
CompleteOnce(t) ==
    /\ at[t] = "relock"
    /\ Leave(t, TRUE, NoJob)
    /\ UNCHANGED <<data, sleepers>>

CompleteScan(t) ==
    /\ at[t] = "relock"
    /\ \E i \in Dereferenced(t) :
        IF i = current_id /\ i \in completed_ids
        THEN Advance(t, completed_ids, i)
        ELSE /\ Leave(t, TRUE, NoJob)
             /\ UNCHANGED <<completed_ids, current_id>>
    /\ UNCHANGED <<queue, priority_queue, valid, completed, sleepers>>

(***************************************************************************)
(* invalidate().  Nobody can fall asleep once valid_ is false, so the two  *)
(* notify_all after the unlock belong to the same step.                    *)
(***************************************************************************)
Invalidate ==
    /\ queue' = <<>>
    /\ priority_queue' = {}
    /\ valid' = FALSE
    /\ pop_waiters' = {}
    /\ push_waiters' = {}
    /\ UNCHANGED <<completed_ids, current_id, completed>>

\* One step of t inside the queue.
PopStep(t) ==
    \/ PopInvalid(t) \/ PopSleep(t) \/ PopPriority(t) \/ PopStandard(t)
    \/ PopNotifyPop(t) \/ PopNotifyPush(t)

PushStep(t) ==
    \/ PushRefused(t) \/ PushSleep(t) \/ PushStandard(t) \/ PushPriority(t)
    \/ PushNotify(t)

CompleteStep(t) == Complete(t) \/ CompleteNotify(t) \/ CompleteScan(t)

QueueStep(t) == PopStep(t) \/ PushStep(t) \/ CompleteStep(t)
=============================================================================
