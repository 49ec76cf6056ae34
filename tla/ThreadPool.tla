----------------------------- MODULE ThreadPool -----------------------------
(***************************************************************************)
(* corryvreckan::ThreadPool (src/core/utils/ThreadPool.{hpp,cpp,tpp}): the *)
(* main thread submits jobs, worker threads take them from the SafeQueue   *)
(* and run them.  The pool is modelled with the queue it contains, at the  *)
(* queue's granularity: one critical section of mutex_ or run_mutex_ is    *)
(* one step.  A section that holds run_mutex_ while it invalidates the     *)
(* queue is one step as well, since whatever it lets another thread see in *)
(* between could have been seen before it.                                 *)
(*                                                                         *)
(* A job is an event number with a flag.  The plain job of an event goes   *)
(* to the standard queue.  In a pool with buffered jobs it either marks    *)
(* the event complete or, when the work has to be done in the order of the *)
(* events, submits the ordered job of the event to the priority queue;     *)
(* that one marks the event complete.  This is the use the priority queue  *)
(* is documented for; a pool without buffered jobs (the one the alignment  *)
(* modules create) runs plain jobs only.                                   *)
(***************************************************************************)
EXTENDS SafeQueue

CONSTANTS
    Main,           \* the thread that owns the pool; the others are workers
    NumEvents,      \* bound: the events of the jobs are below NumEvents
    Pools           \* the pools the main thread may create: see below

Workers == Threads \ {Main}
Events == 0..(NumEvents - 1)
Task == [event : Events, ordered : BOOLEAN]
Plain(n) == [event |-> n, ordered |-> FALSE]
Ordered(n) == [event |-> n, ordered |-> TRUE]

\* threads: the workers it has, or none (num_threads = 0); buffered: with_buffered_;
\* throwing: which functions the workers call may throw; events: how many jobs the
\* main thread submits.
Pool ==
    [threads : {{}, Workers}, buffered : BOOLEAN, events : 0..NumEvents,
     throwing : SUBSET {"initialize", "task", "finalize"}]

\* A pool without buffered jobs has MaxPriority and BufferLeft 0; its priority queue
\* stays empty, and any limits that let a thread pop then do the same.
ASSUME ThreadPoolAssumption ==
    /\ Main \in Threads
    /\ IsFiniteSet(Threads)
    /\ NumEvents \in Nat
    /\ Pools \subseteq Pool
    /\ Jobs = Task
    /\ \A p \in Pools : p.buffered =>
        \* min(num_threads, max_buffered_size), with the assert of the constructor
        /\ p.threads = Workers
        /\ MaxPriority >= Cardinality(Workers)
        /\ BufferLeft = Cardinality(Workers)

VARIABLES
    pool,           \* the pool that was created
    done,           \* done_
    run_cnt,        \* run_cnt_, -1 for the wrapped unsigned value
    exception,      \* what exception_ptr_ holds, "none" for nullptr
    asleep,         \* the main thread sleeps on run_condition_
    next,           \* the next event the main thread submits a job for
    future,         \* the shared state of the future of every job
    wpc,            \* where a worker is outside the queue
    task,           \* the job a worker runs
    mpc             \* which function of the pool the main thread is in

poolVars == <<done, run_cnt, exception, asleep, next, future, wpc, task, mpc>>
vars == <<queueVars, poolVars, pool>>

threads == pool.threads
Buffered == pool.buffered
Throwing == pool.throwing

Init ==
    /\ QueueInit
    /\ pool \in Pools
    /\ done = FALSE
    /\ run_cnt = 0
    /\ exception = "none"
    /\ asleep = FALSE
    /\ next = 0
    /\ future = [j \in Task |-> "none"]
    /\ wpc = [w \in Workers |-> "start"]
    /\ task = [w \in Workers |-> NoJob]
    /\ mpc = "idle"

\* Invalidating the queue destroys the jobs in it, and with them the promises.
Queued(j) ==
    \/ \E i \in 1..Len(queue) : queue[i] = j
    \/ \E e \in priority_queue : e.job = j

Drop == future' = [j \in Task |-> IF Queued(j) THEN "broken" ELSE future[j]]

(***************************************************************************)
(* worker()                                                                *)
(***************************************************************************)
GotoW(w, label) == wpc' = [wpc EXCEPT ![w] = label]

\* Register the thread and run the initialization function.
WorkerStart(w) ==
    /\ w \in threads
    /\ wpc[w] = "start"
    /\ GotoW(w, "loop") \/ ("initialize" \in Throwing /\ GotoW(w, "catch"))
    /\ UNCHANGED <<queueVars, done, run_cnt, exception, asleep, next, future,
                   task, mpc>>

\* while(!done_) { ... queue_.pop(task, min_thread_buffer)
WorkerPop(w) ==
    /\ wpc[w] = "loop"
    /\ ~done
    /\ CallPop(w)
    /\ GotoW(w, "popping")
    /\ UNCHANGED <<done, run_cnt, exception, asleep, next, future, task, mpc>>

\* The pop has returned.
WorkerPopped(w) ==
    /\ wpc[w] = "popping"
    /\ at[w] = "idle"
    /\ IF ok[w]
       THEN GotoW(w, "run") /\ task' = [task EXCEPT ![w] = job[w]]
       ELSE GotoW(w, "loop") /\ UNCHANGED task
    /\ UNCHANGED <<queueVars, done, run_cnt, exception, asleep, next, future, mpc>>

\* The job submits the ordered job of its event.
TaskSubmit(w) ==
    /\ wpc[w] = "run"
    /\ Buffered
    /\ ~task[w].ordered
    /\ LET n == task[w].event
       IN  /\ CallPushPriority(w, n, Ordered(n), FALSE)
           /\ future' = [future EXCEPT ![Ordered(n)] = "pending"]
    /\ GotoW(w, "submitting")
    /\ UNCHANGED <<done, run_cnt, exception, asleep, next, task, mpc>>

\* The rest of that submit: run_cnt_ is incremented once the push has returned,
\* whether it succeeded or not; a failed push gives a future without a state.
TaskSubmitted(w) ==
    /\ wpc[w] = "submitting"
    /\ at[w] = "idle"
    /\ run_cnt' = run_cnt + 1
    /\ future' = IF ok[w] THEN future
                 ELSE [future EXCEPT ![Ordered(task[w].event)] = "nostate"]
    /\ GotoW(w, "ran")
    /\ UNCHANGED <<queueVars, done, exception, asleep, next, task, mpc>>

\* The job calls markComplete for its event.
TaskComplete(w) ==
    /\ wpc[w] = "run"
    /\ Buffered
    /\ CallComplete(w, task[w].event)
    /\ GotoW(w, "completing")
    /\ UNCHANGED <<done, run_cnt, exception, asleep, next, future, task, mpc>>

TaskCompleted(w) ==
    /\ wpc[w] = "completing"
    /\ at[w] = "idle"
    /\ GotoW(w, "ran")
    /\ UNCHANGED <<queueVars, done, run_cnt, exception, asleep, next, future,
                   task, mpc>>

\* The job returns; its future is ready.
TaskReturn(w) ==
    /\ wpc[w] = IF Buffered THEN "ran" ELSE "run"
    /\ future' = [future EXCEPT ![task[w]] = "value"]
    /\ GotoW(w, "finish")
    /\ UNCHANGED <<queueVars, done, run_cnt, exception, asleep, next, task, mpc>>
\* Mutation: the job is counted off before its future is fetched.
TaskThrowCounted(w) ==
    /\ "task" \in Throwing
    /\ wpc[w] \in {"run", "ran"}
    /\ run_cnt' = run_cnt - 1
    /\ asleep' = (asleep /\ run_cnt' # 0)
    /\ future' = [future EXCEPT ![task[w]] = "exception"]
    /\ GotoW(w, "catch")
    /\ UNCHANGED <<queueVars, done, exception, next, task, mpc>>

\* The job throws; get_future().get() rethrows in the worker.
TaskThrow(w) ==
    /\ "task" \in Throwing
    /\ wpc[w] \in {"run", "ran"}
    /\ future' = [future EXCEPT ![task[w]] = "exception"]
    /\ GotoW(w, "catch")
    /\ UNCHANGED <<queueVars, done, run_cnt, exception, asleep, next, task, mpc>>

\* Mutation: the main thread is not notified.
WorkerFinishSilent(w) ==
    /\ wpc[w] = "finish"
    /\ run_cnt' = run_cnt - 1
    /\ task' = [task EXCEPT ![w] = NoJob]
    /\ GotoW(w, "loop")
    /\ UNCHANGED <<queueVars, done, exception, asleep, next, future, mpc>>

\* if(--run_cnt_ == 0) run_condition_.notify_all()
WorkerFinish(w) ==
    /\ wpc[w] = "finish"
    /\ run_cnt' = run_cnt - 1
    /\ asleep' = (asleep /\ run_cnt' # 0)
    /\ task' = [task EXCEPT ![w] = NoJob]
    /\ GotoW(w, "loop")
    /\ UNCHANGED <<queueVars, done, exception, next, future, mpc>>

\* Leave the loop; the finalization function may throw.
WorkerLeave(w) ==
    /\ wpc[w] = "loop"
    /\ done
    /\ GotoW(w, "exited") \/ ("finalize" \in Throwing /\ GotoW(w, "catch"))
    /\ UNCHANGED <<queueVars, done, run_cnt, exception, asleep, next, future,
                   task, mpc>>

\* catch(...): the first exception is kept and invalidates the queue.
WorkerCatch(w) ==
    /\ wpc[w] = "catch"
    /\ IF exception = "none"
       THEN exception' = "thrown" /\ Invalidate /\ Drop
       ELSE UNCHANGED <<exception, data, sleepers, future>>
    /\ asleep' = FALSE
    /\ task' = [task EXCEPT ![w] = NoJob]
    /\ GotoW(w, "exited")
    /\ UNCHANGED <<frames, done, run_cnt, next, mpc>>

(***************************************************************************)
(* The functions the main thread calls.                                    *)
(***************************************************************************)
\* submit(UINT64_MAX, ...) with worker threads.
Submit ==
    /\ mpc = "idle"
    /\ threads # {}
    /\ next < pool.events
    /\ CallPush(Main, Plain(next), TRUE)
    /\ future' = [future EXCEPT ![Plain(next)] = "pending"]
    /\ mpc' = "submitting"
    /\ UNCHANGED <<done, run_cnt, exception, asleep, next, wpc, task>>

Submitted ==
    /\ mpc = "submitting"
    /\ at[Main] = "idle"
    /\ run_cnt' = run_cnt + 1
    /\ future' = IF ok[Main] THEN future
                 ELSE [future EXCEPT ![Plain(next)] = "nostate"]
    /\ next' = next + 1
    /\ mpc' = "idle"
    /\ UNCHANGED <<queueVars, done, exception, asleep, wpc, task>>

\* submit without worker threads runs the job at once; what it throws leaves
\* submit and is not kept in exception_ptr_.
SubmitInline ==
    /\ mpc = "idle"
    /\ threads = {}
    /\ next < pool.events
    /\ \E r \in {"value", "exception"} :
        /\ r = "exception" => "task" \in Throwing
        /\ future' = [future EXCEPT ![Plain(next)] = r]
    /\ next' = next + 1
    /\ UNCHANGED <<queueVars, done, run_cnt, exception, asleep, wpc, task, mpc>>
\* Mutation: wait() watches the queue instead of the count.
WaitOverEmpty == exception # "none" \/ queue = <<>> \/ done

\* The predicate of wait().
WaitOver == exception # "none" \/ run_cnt = 0 \/ done

Wait ==
    /\ mpc = "idle"
    /\ mpc' = "waiting"
    /\ UNCHANGED <<queueVars, done, run_cnt, exception, asleep, next, future,
                   wpc, task>>

WaitSleep ==
    /\ mpc = "waiting"
    /\ ~asleep
    /\ ~WaitOver
    /\ asleep' = TRUE
    /\ UNCHANGED <<queueVars, done, run_cnt, exception, next, future, wpc, task,
                   mpc>>

WaitReturn ==
    /\ mpc = "waiting"
    /\ ~asleep
    /\ WaitOver
    /\ mpc' = "idle"
    /\ UNCHANGED <<queueVars, done, run_cnt, exception, asleep, next, future,
                   wpc, task>>

WaitSpurious ==
    /\ asleep
    /\ asleep' = FALSE
    /\ UNCHANGED <<queueVars, done, run_cnt, exception, next, future, wpc, task,
                   mpc>>

\* The first part of destroy(), under run_mutex_.  It is called by the owner, by
\* the destructor, or by checkException() before that rethrows exception_ptr_.
Destroy ==
    /\ mpc = "idle"
    /\ done' = TRUE
    /\ Invalidate
    /\ Drop
    /\ mpc' = "joining"
    /\ UNCHANGED <<frames, run_cnt, exception, asleep, next, wpc, task>>

\* The joins of destroy().
Join ==
    /\ mpc = "joining"
    /\ \A w \in threads : wpc[w] = "exited"
    /\ mpc' = "dead"
    /\ UNCHANGED <<queueVars, done, run_cnt, exception, asleep, next, future,
                   wpc, task>>

(***************************************************************************)
(* The specification.                                                      *)
(***************************************************************************)
InQueue(t) == QueueStep(t) /\ UNCHANGED poolVars

Wakeup == SpuriousWake /\ UNCHANGED poolVars

WorkerStep(w) ==
    /\ \/ WorkerStart(w) \/ WorkerPop(w) \/ WorkerPopped(w) \/ TaskSubmit(w)
       \/ TaskSubmitted(w) \/ TaskComplete(w) \/ TaskCompleted(w)
       \/ TaskReturn(w) \/ TaskThrow(w) \/ WorkerFinish(w) \/ WorkerLeave(w)
       \/ WorkerCatch(w) \/ InQueue(w)
    /\ UNCHANGED pool

\* What the main thread does once it is inside a function of the pool.
MainStep ==
    /\ Submitted \/ WaitSleep \/ WaitReturn \/ Join \/ InQueue(Main)
    /\ UNCHANGED pool

\* Which function it calls.
MainCall == (Submit \/ SubmitInline \/ Wait \/ Destroy) /\ UNCHANGED pool

Spurious == (Wakeup \/ WaitSpurious) /\ UNCHANGED pool

Next ==
    \/ \E w \in Workers : WorkerStep(w)
    \/ MainStep
    \/ MainCall
    \/ Spurious

Spec == Init /\ [][Next]_vars

\* Threads that can run are scheduled; the main thread may stop calling.
FairSpec ==
    /\ Spec
    /\ \A w \in Workers : WF_vars(WorkerStep(w))
    /\ WF_vars(MainStep)
-----------------------------------------------------------------------------
Returning == mpc = "waiting" /\ mpc' = "idle"

\* No job that was submitted is still to be run or running.
AllDone == \A j \in Task : future[j] # "pending"

\* wait() "waits for the worker threads to finish": when it returns and no
\* exception was thrown, every job has ended.
WaitMeansDone == [][Returning /\ exception = "none" => AllDone]_vars

\* That is so of a pool whose jobs submit no jobs.
PlainWaitMeansDone == [][Returning /\ exception = "none" /\ ~Buffered => AllDone]_vars

\* When wait() returns after a job has thrown in a worker, the exception is there
\* for checkException(): the count of a job that throws never reaches zero.
WaitReports ==
    [][Returning /\ threads # {} /\ (\E j \in Task : future[j] = "exception")
           => exception = "thrown"]_vars

\* A job that a worker has taken.
Taken(j) == \E w \in Workers : task[w] = j \/ (wpc[w] = "popping" /\ job[w] = j)

JobState ==
    [j \in Task |->
        IF future[j] # "pending" THEN future[j]
        ELSE IF Queued(j) THEN "queued"
        ELSE IF Taken(j) THEN "running" ELSE "submitted"]

Promise == INSTANCE JobPool WITH
    state <- JobState,
    line <- queue,
    complete <- completed,
    open <- valid

\* The pool does for its callers what JobPool says: jobs begin in order, an ordered
\* job waits for the events before it, none is lost, and the reserve of
\* min_thread_buffer places is enough, since no job is refused while the pool is open.
PromisesKept == Promise!JobSpec

\* Every function of the pool returns: submit() even if the queue is full when a worker
\* throws, wait() once the jobs have ended or one has thrown, destroy() once every
\* worker has left its loop, wherever it was.
CallsReturn == mpc \in {"submitting", "waiting", "joining"} ~> mpc \in {"idle", "dead"}

\* The futures of all jobs become ready: a job is run, or its promise is broken when
\* the queue is invalidated.  (The jobs are finitely many.)
FuturesReady == []<>AllDone
=============================================================================
