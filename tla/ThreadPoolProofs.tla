-------------------------- MODULE ThreadPoolProofs --------------------------
(***************************************************************************)
(* Theorems about ThreadPool, for any number of workers and jobs, every    *)
(* size of the queues and whatever the functions the workers call throw:   *)
(* what holds when wait() returns, and that ThreadPool implements JobPool. *)
(***************************************************************************)
EXTENDS AlignmentRefit, FiniteSetTheorems, TLAPS

-----------------------------------------------------------------------------
(* What one step inside SafeQueue preserves, whoever called it *)

\* A thread that leaves a function of the queue has a well-typed frame.
LEMMA LeaveType ==
    ASSUME QueueTypeOK, NEW t \in Threads, NEW r \in BOOLEAN,
           NEW j \in Jobs \cup {NoJob}, Leave(t, r, j)
    PROVE  /\ at' \in [Threads -> Labels]
           /\ job' \in [Threads -> Jobs \cup {NoJob}]
           /\ num' \in [Threads -> Nat \cup {End}]
           /\ block' \in [Threads -> BOOLEAN]
           /\ ok' \in [Threads -> BOOLEAN]
           /\ \A u \in Threads :
               /\ at'[u] \in {"push", "push_priority"} => job'[u] \in Jobs
               /\ at'[u] \in {"push_priority", "complete"} => num'[u] \in Nat
BY DEF QueueTypeOK, Leave, Labels

\* Entering a function of the queue keeps the types.
LEMMA EnterType ==
    ASSUME QueueTypeOK, NEW t \in Threads, NEW l \in Labels,
           NEW j \in Jobs \cup {NoJob}, NEW n \in Nat \cup {End},
           NEW b \in BOOLEAN, Enter(t, l, j, n, b),
           l \in {"push", "push_priority"} => j \in Jobs,
           l \in {"push_priority", "complete"} => n \in Nat
    PROVE  QueueTypeOK'
BY DEF QueueTypeOK, Enter, data, sleepers

\* So do the four calls.
LEMMA CallType ==
    ASSUME QueueTypeOK, NEW t \in Threads
    PROVE  /\ CallPop(t) => QueueTypeOK'
           /\ \A j \in Jobs, b \in BOOLEAN : CallPush(t, j, b) => QueueTypeOK'
           /\ \A n \in Nat, j \in Jobs, b \in BOOLEAN :
                CallPushPriority(t, n, j, b) => QueueTypeOK'
           /\ \A n \in Nat : CallComplete(t, n) => QueueTypeOK'
BY EnterType DEF CallPop, CallPush, CallPushPriority, CallComplete, Labels

\* Pop keeps the types.
LEMMA PopType ==
    ASSUME QueueTypeOK, NEW t \in Threads, PopStep(t)
    PROVE  QueueTypeOK'
<1>1. CASE PopInvalid(t)
  <2>1. Leave(t, FALSE, NoJob)
    BY <1>1 DEF PopInvalid
  <2> QED
    BY <1>1, <2>1, LeaveType DEF PopInvalid, QueueTypeOK, data, sleepers
<1>2. CASE PopSleep(t)
  BY <1>2 DEF PopSleep, QueueTypeOK, data, frames
<1>3. CASE PopPriority(t)
  BY <1>3 DEF PopPriority, InPop, Top, Entry, QueueTypeOK, sleepers, Labels
<1>4. CASE PopStandard(t)
  BY <1>4 DEF PopStandard, InPop, CanPopStandard, QueueTypeOK, sleepers, Labels
<1>5. CASE PopNotifyPop(t)
  BY <1>5 DEF PopNotifyPop, NotifyPop, Goto, QueueTypeOK, data, Labels
<1>6. CASE PopNotifyPush(t)
  <2>1. Leave(t, TRUE, job[t]) /\ job[t] \in Jobs \cup {NoJob}
    BY <1>6 DEF PopNotifyPush, QueueTypeOK
  <2>2. push_waiters' \in SUBSET Threads
    BY <1>6 DEF PopNotifyPush, NotifyPush, QueueTypeOK
  <2> QED
    BY <1>6, <2>1, <2>2, LeaveType DEF PopNotifyPush, QueueTypeOK, data
<1> QED
  BY <1>1, <1>2, <1>3, <1>4, <1>5, <1>6 DEF PopStep

\* Push keeps the types.
LEMMA PushType ==
    ASSUME QueueTypeOK, NEW t \in Threads, PushStep(t)
    PROVE  QueueTypeOK'
<1>1. CASE PushRefused(t)
  <2>1. Leave(t, FALSE, NoJob)
    BY <1>1 DEF PushRefused
  <2> QED
    BY <1>1, <2>1, LeaveType DEF PushRefused, QueueTypeOK, data, sleepers
<1>2. CASE PushSleep(t)
  BY <1>2 DEF PushSleep, QueueTypeOK, data, frames
<1>3. CASE PushStandard(t)
  BY <1>3 DEF PushStandard, Goto, QueueTypeOK, sleepers, Labels
<1>4. CASE PushPriority(t)
  BY <1>4 DEF PushPriority, Goto, Entry, QueueTypeOK, sleepers, Labels
<1>5. CASE PushNotify(t)
  <2>1. Leave(t, TRUE, NoJob)
    BY <1>5 DEF PushNotify
  <2>2. pop_waiters' \in SUBSET Threads
    BY <1>5 DEF PushNotify, NotifyPop, QueueTypeOK
  <2> QED
    BY <1>5, <2>1, <2>2, LeaveType DEF PushNotify, QueueTypeOK, data
<1> QED
  BY <1>1, <1>2, <1>3, <1>4, <1>5 DEF PushStep

\* The loop body of complete keeps the types.
LEMMA AdvanceType ==
    ASSUME QueueTypeOK, NEW t \in Threads, NEW ids \in SUBSET Nat,
           NEW i \in Nat, Advance(t, ids, i)
    PROVE  /\ completed_ids' \in SUBSET Nat
           /\ current_id' \in Nat
           /\ num' \in [Threads -> Nat \cup {End}]
           /\ at' \in [Threads -> Labels]
           /\ \A u \in Threads :
               /\ at'[u] \in {"push", "push_priority"} => job'[u] \in Jobs
               /\ at'[u] \in {"push_priority", "complete"} => num'[u] \in Nat
<1> DEFINE later == {k \in ids : k > i}
<1>1. \E n \in Nat \cup {End} : num' = [num EXCEPT ![t] = n]
  <2>1. later \in SUBSET Nat
    OBVIOUS
  <2>2. \/ \E n \in later : IsLeast(n, later) /\ num' = [num EXCEPT ![t] = n]
        \/ later = {} /\ num' = [num EXCEPT ![t] = End]
    BY DEF Advance
  <2> HIDE DEF later
  <2> QED
    BY <2>1, <2>2
<1>2. num' \in [Threads -> Nat \cup {End}]
  BY <1>1 DEF QueueTypeOK
<1>3. \A u \in Threads :
        /\ at'[u] \in {"push", "push_priority"} => job'[u] \in Jobs
        /\ at'[u] \in {"push_priority", "complete"} => num'[u] \in Nat
  BY <1>1 DEF Advance, QueueTypeOK
<1>4. /\ completed_ids' = ids \ {i}
      /\ current_id' = current_id + 1
      /\ at' = [at EXCEPT ![t] = "advanced"]
  BY DEF Advance
<1>5. at' \in [Threads -> Labels] /\ current_id' \in Nat
  BY <1>4 DEF QueueTypeOK, Labels
<1> QED
  BY <1>2, <1>3, <1>4, <1>5

\* Complete keeps the types.
LEMMA CompleteType ==
    ASSUME QueueTypeOK, NEW t \in Threads, CompleteStep(t)
    PROVE  QueueTypeOK'
<1>1. CASE Complete(t)
  <2> DEFINE ids == completed_ids \cup {num[t]}
  <2>1. num[t] \in Nat /\ ids \in SUBSET Nat /\ completed' \in SUBSET Nat
    BY <1>1 DEF Complete, QueueTypeOK
  <2>2. CASE Advance(t, ids, current_id)
    <3> HIDE DEF ids
    <3>1. current_id \in Nat
      BY DEF QueueTypeOK
    <3>2. UNCHANGED <<job, block, ok>>
      BY <2>2 DEF Advance
    <3> QED
      BY <1>1, <2>1, <2>2, <3>1, <3>2, AdvanceType
      DEF Complete, QueueTypeOK, sleepers
  <2>3. CASE Leave(t, TRUE, NoJob) /\ completed_ids' = ids /\ UNCHANGED current_id
    BY <1>1, <2>1, <2>3, LeaveType DEF Complete, QueueTypeOK, sleepers
  <2>4. IF IsLeast(current_id, ids)
        THEN Advance(t, ids, current_id)
        ELSE /\ completed_ids' = ids
             /\ Leave(t, TRUE, NoJob)
             /\ UNCHANGED current_id
    BY <1>1 DEF Complete
  <2> QED
    BY <2>2, <2>3, <2>4
<1>2. CASE CompleteNotify(t)
  BY <1>2 DEF CompleteNotify, NotifyPop, Goto, QueueTypeOK, data, Labels
<1>3. CASE CompleteScan(t)
  <2>1. CASE Advance(t, completed_ids, current_id)
    <3>1. current_id \in Nat /\ completed_ids \in SUBSET Nat
      BY DEF QueueTypeOK
    <3>2. UNCHANGED <<job, block, ok>>
      BY <2>1 DEF Advance
    <3> QED
      BY <1>3, <2>1, <3>1, <3>2, AdvanceType
      DEF CompleteScan, QueueTypeOK, sleepers
  <2>2. CASE Leave(t, TRUE, NoJob) /\ UNCHANGED <<completed_ids, current_id>>
    BY <1>3, <2>2, LeaveType DEF CompleteScan, QueueTypeOK, sleepers
  <2>3. PICK i \in Dereferenced(t) :
          IF i = current_id /\ i \in completed_ids
          THEN Advance(t, completed_ids, i)
          ELSE /\ Leave(t, TRUE, NoJob)
               /\ UNCHANGED <<completed_ids, current_id>>
    BY <1>3 DEF CompleteScan
  <2>4. CASE i = current_id /\ i \in completed_ids
    <3>1. Advance(t, completed_ids, i)
      BY <2>3, <2>4
    <3> QED
      BY <2>1, <2>4, <3>1
  <2>5. CASE ~(i = current_id /\ i \in completed_ids)
    <3>1. Leave(t, TRUE, NoJob) /\ UNCHANGED <<completed_ids, current_id>>
      BY <2>3, <2>5
    <3> QED
      BY <2>2, <3>1
  <2> QED
    BY <2>4, <2>5
<1> QED
  BY <1>1, <1>2, <1>3 DEF CompleteStep

\* Every step inside the queue keeps the types.
LEMMA QueueStepType ==
    ASSUME QueueTypeOK, NEW t \in Threads, QueueStep(t)
    PROVE  QueueTypeOK'
BY PopType, PushType, CompleteType DEF QueueStep

\* So do the initial state, an invalidation and a spurious wake-up.
LEMMA QueueTypeRest ==
    /\ QueueInit => QueueTypeOK
    /\ QueueTypeOK /\ Invalidate /\ UNCHANGED frames => QueueTypeOK'
    /\ QueueTypeOK /\ SpuriousWake => QueueTypeOK'
    /\ QueueTypeOK /\ UNCHANGED queueVars => QueueTypeOK'
<1>1. QueueInit => QueueTypeOK
  BY DEF QueueInit, QueueTypeOK, Labels
<1>2. QueueTypeOK /\ Invalidate /\ UNCHANGED frames => QueueTypeOK'
  <2> SUFFICES ASSUME QueueTypeOK, Invalidate, UNCHANGED frames
               PROVE  QueueTypeOK'
    OBVIOUS
  <2>1. queue' \in Seq(Jobs)
    BY DEF Invalidate
  <2>2. /\ priority_queue' \in SUBSET Entry
        /\ pop_waiters' \in SUBSET Threads
        /\ push_waiters' \in SUBSET Threads
    BY DEF Invalidate
  <2>3. valid' \in BOOLEAN
    BY DEF Invalidate
  <2> QED
    BY <2>1, <2>2, <2>3 DEF Invalidate, QueueTypeOK, frames
<1>3. QueueTypeOK /\ SpuriousWake => QueueTypeOK'
  BY DEF SpuriousWake, QueueTypeOK, data, frames
<1>4. QueueTypeOK /\ UNCHANGED queueVars => QueueTypeOK'
  BY DEF QueueTypeOK, queueVars, data, sleepers, frames
<1> QED
  BY <1>1, <1>2, <1>3, <1>4

-----------------------------------------------------------------------------
States == {"none", "pending", "value", "exception", "broken", "nostate"}

WorkerLabels ==
    {"start", "loop", "popping", "run", "submitting", "completing", "ran",
     "finish", "catch", "exited"}

MainLabels == {"idle", "submitting", "waiting", "joining", "dead"}

TypeOK ==
    /\ QueueTypeOK
    /\ pool \in Pools
    /\ done \in BOOLEAN /\ asleep \in BOOLEAN
    /\ run_cnt \in Int
    /\ exception \in {"none", "thrown"}
    /\ next \in 0..pool.events
    /\ future \in [Task -> States]
    /\ wpc \in [Workers -> WorkerLabels]
    /\ task \in [Workers -> Task \cup {NoJob}]
    /\ mpc \in MainLabels

-----------------------------------------------------------------------------
(***************************************************************************)
(* Where a thread is in the queue, by the function of the pool it is in.   *)
(***************************************************************************)
InQueueOfPop(w) ==
    \/ at[w] = "pop" /\ job[w] = NoJob
    \/ at[w] \in {"popped_priority", "popped"} /\ job[w] \in Task
    \/ at[w] = "idle" /\ (ok[w] <=> job[w] \in Task)

InQueueOfSubmit(w) ==
    \/ /\ at[w] = "push_priority"
       /\ job[w] = Ordered(task[w].event) /\ num[w] = task[w].event /\ ~block[w]
    \/ at[w] \in {"pushed", "idle"}

InQueueOfComplete(w) ==
    \/ at[w] = "complete" /\ num[w] = task[w].event
    \/ at[w] \in {"advanced", "relock", "idle"}

\* A worker in its loop has a job exactly while it runs it.
WorkerInv(w) ==
    /\ wpc[w] = "popping" => InQueueOfPop(w)
    /\ wpc[w] = "submitting" => InQueueOfSubmit(w) /\ Buffered /\ ~task[w].ordered
    /\ wpc[w] = "completing" => InQueueOfComplete(w)
    /\ wpc[w] \notin {"popping", "submitting", "completing"} => at[w] = "idle"
    /\ wpc[w] \in {"run", "submitting", "completing", "ran", "finish"} => task[w] \in Task
    /\ wpc[w] \in {"start", "loop", "popping", "exited"} => task[w] = NoJob
    /\ wpc[w] # "start" => w \in threads

MainInv ==
    /\ mpc = "submitting" =>
        /\ \/ at[Main] = "push" /\ job[Main] = Plain(next) /\ block[Main]
           \/ at[Main] \in {"pushed", "idle"}
        /\ next < pool.events /\ threads # {}
    /\ mpc # "submitting" => at[Main] = "idle"

\* The queue is valid until the first exception or destroy().
StopInv ==
    /\ valid <=> exception = "none" /\ ~done
    /\ done <=> mpc \in {"joining", "dead"}

ControlInv == (\A w \in Workers : WorkerInv(w)) /\ MainInv /\ StopInv

-----------------------------------------------------------------------------
(***************************************************************************)
(* Where the jobs are.                                                     *)
(***************************************************************************)
\* The job a worker has taken.
Hand == [w \in Workers |-> IF wpc[w] = "popping" THEN job[w] ELSE task[w]]

\* The job a thread submits until submit() has counted it.
Submitting ==
    [t \in Threads |->
        IF t = Main
        THEN IF mpc = "submitting" THEN Plain(next) ELSE NoJob
        ELSE IF wpc[t] = "submitting" THEN Ordered(task[t].event) ELSE NoJob]

\* The push has not put it into the queue, and if it has returned never will.
Open(t) == at[t] \in {"push", "push_priority"} \/ (at[t] = "idle" /\ ~ok[t])

Sent == [t \in Threads |-> IF Open(t) THEN Submitting[t] ELSE NoJob]

\* The workers that may still submit the ordered job of the event they have.
MayPush ==
    {w \in Workers : \/ wpc[w] = "popping" /\ job[w] \in Task
                     \/ wpc[w] = "run"
                     \/ wpc[w] = "submitting" /\ at[w] = "push_priority"}

\* The places of the priority queue that pop() leaves free are enough for them.
ReserveInv ==
    /\ IsFiniteSet(priority_queue)
    /\ Buffered => Cardinality(priority_queue) + Cardinality(MayPush) <= MaxPriority

\* Hence a push is refused by an invalid queue only.
RefusedInv == \A t \in Threads : Sent[t] # NoJob /\ at[t] = "idle" => ~valid

\* The future of a job in the hands of a worker.
Due(w) ==
    IF wpc[w] = "finish" THEN "value"
    ELSE IF wpc[w] = "catch" THEN "exception" ELSE "pending"

\* A job is at one place, and pending until it has run.
PlaceInv ==
    /\ \A i \in 1..Len(queue) :
        /\ ~queue[i].ordered /\ future[queue[i]] = "pending"
        /\ \A k \in 1..Len(queue) : queue[k] = queue[i] => k = i
        /\ \A w \in Workers : Hand[w] # queue[i]
    /\ \A e \in priority_queue :
        /\ e.job = Ordered(e.id) /\ future[e.job] = "pending"
        /\ \A w \in Workers : Hand[w] # e.job
    /\ \A w \in Workers : Hand[w] \in Task =>
        /\ future[Hand[w]] = Due(w)
        /\ \A v \in Workers : Hand[v] = Hand[w] => v = w
    /\ \A t \in Threads : Sent[t] \in Task =>
        /\ future[Sent[t]] = "pending" /\ ~Queued(Sent[t])
        /\ \A w \in Workers : Hand[w] # Sent[t]

\* Which jobs have been submitted.
FreshInv ==
    /\ \A t \in Threads : Submitting[t] \in Task => future[Submitting[t]] # "none"
    /\ \A n \in Events :
        future[Plain(n)] # "none" <=> n < next \/ (n = next /\ mpc = "submitting")
    /\ \A n \in Events : future[Ordered(n)] # "none" =>
        \/ future[Plain(n)] \in {"value", "exception"}
        \/ \E w \in Workers : task[w] = Plain(n) /\ wpc[w] \in {"submitting", "ran"}

\* Without workers a job has ended when submit() returns.
InlineInv == threads = {} => AllDone

\* What run_cnt_ counts: jobs are counted when submit() returns, and counted off
\* when they have returned a value.
Counted == {j \in Task : future[j] # "none" /\ \A t \in Threads : Submitting[t] # j}

CountedOff == {j \in Task : future[j] = "value" /\ \A w \in Workers : Hand[w] # j}

CountInv == threads # {} => run_cnt = Cardinality(Counted) - Cardinality(CountedOff)

\* The identifiers below current_id_ are completed.
CompletedInv == 0..(current_id - 1) \subseteq completed /\ completed_ids \subseteq completed

Inv ==
    /\ TypeOK
    /\ ControlInv
    /\ ReserveInv
    /\ RefusedInv
    /\ PlaceInv
    /\ FreshInv
    /\ InlineInv
    /\ CountInv
    /\ CompletedInv
-----------------------------------------------------------------------------
(***************************************************************************)
(* Constants and records.                                                  *)
(***************************************************************************)
\* The pool and the jobs of its events.
LEMMA PoolFacts ==
    ASSUME TypeOK
    PROVE  /\ Jobs = Task /\ NoJob \notin Task /\ Main \notin Workers
           /\ Workers \subseteq Threads /\ Main \in Threads
           /\ threads \in {{}, Workers} /\ Buffered \in BOOLEAN
           /\ pool.events \in Nat /\ pool.events <= NumEvents
           /\ next \in Nat /\ next <= pool.events
           /\ Buffered => /\ threads = Workers
                          /\ BufferLeft = Cardinality(Workers)
<1>1. /\ pool \in Pools /\ Pools \subseteq Pool /\ NumEvents \in Nat
      /\ next \in 0..pool.events
  BY ThreadPoolAssumption DEF TypeOK
<1>2. pool \in Pool
  BY <1>1
<1>3. /\ pool.threads \in {{}, Workers} /\ pool.buffered \in BOOLEAN
      /\ pool.events \in 0..NumEvents
  BY <1>2 DEF Pool
<1>4. Jobs = Task /\ NoJob \notin Task
  BY SafeQueueAssumption, ThreadPoolAssumption
<1>5. Main \in Threads /\ Main \notin Workers /\ Workers \subseteq Threads
  BY ThreadPoolAssumption DEF Workers
<1>6. pool.buffered => pool.threads = Workers /\ BufferLeft = Cardinality(Workers)
  BY <1>1, ThreadPoolAssumption
<1> QED
  BY <1>1, <1>3, <1>4, <1>5, <1>6 DEF threads, Buffered

LEMMA NextEvent == TypeOK /\ next < pool.events => next \in Events
BY PoolFacts, ThreadPoolAssumption DEF Events

\* A job is the plain or the ordered job of its event.
LEMMA JobFacts ==
    /\ \A n \in Events : Plain(n) \in Task /\ Ordered(n) \in Task
    /\ \A n : Plain(n).event = n /\ ~Plain(n).ordered
    /\ \A n : Ordered(n).event = n /\ Ordered(n).ordered
    /\ \A j \in Task : /\ j.event \in Events
                       /\ j.ordered => j = Ordered(j.event)
                       /\ ~j.ordered => j = Plain(j.event)
    /\ \A n \in Events : n \in Nat
    /\ \A n \in Nat : n < NumEvents <=> n \in Events
<1>1. /\ \A n \in Events : Plain(n) \in Task /\ Ordered(n) \in Task
      /\ \A n : Plain(n).event = n /\ ~Plain(n).ordered
      /\ \A n : Ordered(n).event = n /\ Ordered(n).ordered
  BY DEF Task, Plain, Ordered
<1>2. ASSUME NEW j \in Task
      PROVE  /\ j.event \in Events
             /\ j.ordered => j = Ordered(j.event)
             /\ ~j.ordered => j = Plain(j.event)
  BY DEF Task, Plain, Ordered
<1>3. NumEvents \in Nat
  BY ThreadPoolAssumption
<1> QED
  BY <1>1, <1>2, <1>3 DEF Events

-----------------------------------------------------------------------------
(***************************************************************************)
(* Control: a step moves one thread.                                       *)
(***************************************************************************)
\* The frame of u in the queue stays.
FrameKept(u) ==
    /\ at'[u] = at[u] /\ job'[u] = job[u] /\ num'[u] = num[u]
    /\ block'[u] = block[u] /\ ok'[u] = ok[u]

LEMMA EnterOthers ==
    ASSUME TypeOK, NEW t \in Threads, NEW l, NEW j, NEW n, NEW b, Enter(t, l, j, n, b)
    PROVE  /\ \A u \in Threads \ {t} : FrameKept(u)
           /\ at[t] = "idle" /\ at'[t] = l /\ job'[t] = j /\ num'[t] = n /\ block'[t] = b
           /\ UNCHANGED <<data, sleepers>>
BY DEF Enter, FrameKept, TypeOK, QueueTypeOK

LEMMA LeaveOthers ==
    ASSUME TypeOK, NEW t \in Threads, NEW r, NEW j, Leave(t, r, j)
    PROVE  /\ \A u \in Threads \ {t} : FrameKept(u)
           /\ at'[t] = "idle" /\ job'[t] = j /\ ok'[t] = r
BY DEF Leave, FrameKept, TypeOK, QueueTypeOK

LEMMA GotoOthers ==
    ASSUME TypeOK, NEW t \in Threads, NEW l, Goto(t, l)
    PROVE  /\ \A u \in Threads \ {t} : FrameKept(u)
           /\ at'[t] = l /\ UNCHANGED <<job, num, block, ok>>
BY DEF Goto, FrameKept, TypeOK, QueueTypeOK

\* The body of the loop of complete().
LEMMA AdvanceOthers ==
    ASSUME TypeOK, NEW t \in Threads, NEW ids, NEW i, Advance(t, ids, i)
    PROVE  /\ \A u \in Threads \ {t} : FrameKept(u)
           /\ at'[t] = "advanced" /\ UNCHANGED job
           /\ completed_ids' = ids \ {i} /\ current_id' = current_id + 1
<1>1. \E n : num' = [num EXCEPT ![t] = n]
  BY DEF Advance
<1> QED
  BY <1>1 DEF Advance, FrameKept, TypeOK, QueueTypeOK

\* A thread inside the queue.  The steps by the function it is in.
LEMMA PopControl ==
    ASSUME TypeOK, NEW t \in Threads, PopStep(t)
    PROVE  /\ at[t] \in {"pop", "popped_priority", "popped"}
           /\ \A u \in Threads \ {t} : FrameKept(u)
           /\ InQueueOfPop(t) => InQueueOfPop(t)'
           /\ UNCHANGED <<valid, completed, completed_ids, current_id>>
<1> USE PoolFacts
<1>1. CASE PopInvalid(t)
  BY <1>1, LeaveOthers DEF PopInvalid, InPop, InQueueOfPop, data
<1>2. CASE PopSleep(t)
  BY <1>2 DEF PopSleep, InPop, InQueueOfPop, data, frames, FrameKept
<1>3. CASE PopPriority(t)
  <2>1. PICK e \in priority_queue : job' = [job EXCEPT ![t] = e.job]
    BY <1>3 DEF PopPriority, Top
  <2>2. e.job \in Task
    BY <2>1 DEF TypeOK, QueueTypeOK, Entry
  <2>3. /\ at[t] = "pop" /\ at' = [at EXCEPT ![t] = "popped_priority"]
        /\ UNCHANGED <<num, block, ok, valid, completed, completed_ids, current_id>>
    BY <1>3 DEF PopPriority, InPop
  <2>4. job'[t] \in Task /\ at'[t] = "popped_priority"
    BY <2>1, <2>2, <2>3 DEF TypeOK, QueueTypeOK
  <2> QED
    BY <2>1, <2>3, <2>4 DEF InQueueOfPop, FrameKept, TypeOK, QueueTypeOK
<1>4. CASE PopStandard(t)
  <2>1. /\ at[t] = "pop" /\ at' = [at EXCEPT ![t] = "popped"]
        /\ job' = [job EXCEPT ![t] = Head(queue)] /\ queue # <<>>
        /\ UNCHANGED <<num, block, ok, valid, completed, completed_ids, current_id>>
    BY <1>4 DEF PopStandard, InPop, CanPopStandard
  <2>2. Head(queue) \in Task
    BY <2>1 DEF TypeOK, QueueTypeOK
  <2>3. job'[t] \in Task /\ at'[t] = "popped"
    BY <2>1, <2>2 DEF TypeOK, QueueTypeOK
  <2> QED
    BY <2>1, <2>3 DEF InQueueOfPop, FrameKept, TypeOK, QueueTypeOK
<1>5. CASE PopNotifyPop(t)
  BY <1>5, GotoOthers DEF PopNotifyPop, InQueueOfPop, data
<1>6. CASE PopNotifyPush(t)
  BY <1>6, LeaveOthers DEF PopNotifyPush, InQueueOfPop, data
<1> QED
  BY <1>1, <1>2, <1>3, <1>4, <1>5, <1>6 DEF PopStep

LEMMA PushControl ==
    ASSUME TypeOK, NEW t \in Threads, PushStep(t)
    PROVE  /\ at[t] \in {"push", "push_priority", "pushed"}
           /\ at'[t] \in {at[t], "pushed", "idle"}
           /\ at'[t] = at[t] => FrameKept(t)
           /\ \A u \in Threads \ {t} : FrameKept(u)
           /\ UNCHANGED <<valid, completed, completed_ids, current_id>>
<1>1. CASE PushRefused(t)
  BY <1>1, LeaveOthers DEF PushRefused, InPush, data
<1>2. CASE PushSleep(t)
  BY <1>2 DEF PushSleep, InPush, data, frames, FrameKept
<1>3. CASE PushStandard(t)
  BY <1>3, GotoOthers DEF PushStandard, InPush
<1>4. CASE PushPriority(t)
  BY <1>4, GotoOthers DEF PushPriority, InPush
<1>5. CASE PushNotify(t)
  BY <1>5, LeaveOthers DEF PushNotify, data
<1> QED
  BY <1>1, <1>2, <1>3, <1>4, <1>5 DEF PushStep

LEMMA CompleteControl ==
    ASSUME TypeOK, NEW t \in Threads, CompleteStep(t)
    PROVE  /\ at[t] \in {"complete", "advanced", "relock"}
           /\ at'[t] \in {"advanced", "relock", "idle"}
           /\ \A u \in Threads \ {t} : FrameKept(u)
           /\ UNCHANGED <<queue, priority_queue, valid>>
           /\ completed' = IF at[t] = "complete" THEN completed \cup {num[t]} ELSE completed
<1>1. CASE Complete(t)
  BY <1>1, LeaveOthers, AdvanceOthers DEF Complete
<1>2. CASE CompleteNotify(t)
  BY <1>2, GotoOthers DEF CompleteNotify, data
<1>3. CASE CompleteScan(t)
  BY <1>3, LeaveOthers, AdvanceOthers DEF CompleteScan
<1> QED
  BY <1>1, <1>2, <1>3 DEF CompleteStep

\* What stays of the control of a thread whose variables stay.
LEMMA WorkerKept ==
    ASSUME NEW u \in Workers, WorkerInv(u), FrameKept(u), UNCHANGED pool,
           wpc'[u] = wpc[u], task'[u] = task[u]
    PROVE  WorkerInv(u)'
BY DEF WorkerInv, FrameKept, InQueueOfPop, InQueueOfSubmit, InQueueOfComplete,
       Buffered, threads

LEMMA MainKept ==
    ASSUME MainInv, FrameKept(Main), UNCHANGED <<mpc, next, pool>>
    PROVE  MainInv'
BY DEF MainInv, FrameKept, threads

LEMMA FramesKept ==
    ASSUME UNCHANGED frames PROVE \A u \in Threads : FrameKept(u)
BY DEF frames, FrameKept

LEMMA QueueControl ==
    ASSUME TypeOK, ControlInv, NEW t \in Threads, InQueue(t), UNCHANGED pool
    PROVE  ControlInv'
<1> USE PoolFacts DEF ControlInv
<1>1. QueueStep(t) /\ UNCHANGED <<done, exception, next, wpc, task, mpc>>
  BY DEF InQueue, poolVars
<1>2. (\A u \in Threads \ {t} : FrameKept(u)) /\ UNCHANGED valid
  BY <1>1, PopControl, PushControl, CompleteControl DEF QueueStep
<1>3. StopInv'
  BY <1>1, <1>2 DEF StopInv
<1>4. ASSUME NEW w \in Workers PROVE WorkerInv(w)'
  <2>1. CASE w # t
    BY <1>1, <1>2, <2>1, WorkerKept
  <2>2. CASE w = t
    <3>1. CASE PopStep(w)
      <4>1. InQueueOfPop(w) => InQueueOfPop(w)'
        BY <3>1, PopControl
      <4>2. at[w] \in {"pop", "popped_priority", "popped"}
        BY <3>1, PopControl
      <4>3. wpc[w] = "popping" /\ wpc'[w] = "popping"
        BY <1>1, <4>2 DEF WorkerInv, InQueueOfSubmit, InQueueOfComplete
      <4> QED
        BY <1>1, <4>1, <4>3 DEF WorkerInv, threads
    <3>2. CASE PushStep(w)
      <4>1. /\ at[w] \in {"push", "push_priority", "pushed"}
            /\ at'[w] \in {at[w], "pushed", "idle"} /\ (at'[w] = at[w] => FrameKept(w))
        BY <3>2, PushControl
      <4>2. wpc[w] = "submitting" /\ wpc'[w] = "submitting" /\ UNCHANGED <<task, pool>>
        BY <1>1, <4>1 DEF WorkerInv, InQueueOfPop, InQueueOfComplete
      <4>3. InQueueOfSubmit(w)'
        <5>1. CASE at'[w] = at[w]
          BY <4>1, <4>2, <5>1 DEF WorkerInv, FrameKept, InQueueOfSubmit
        <5>2. CASE at'[w] # at[w]
          BY <4>1, <4>2, <5>2 DEF InQueueOfSubmit
        <5> QED
          BY <5>1, <5>2
      <4> QED
        BY <4>2, <4>3 DEF WorkerInv, Buffered, threads
    <3>3. CASE CompleteStep(w)
      <4>1. /\ at[w] \in {"complete", "advanced", "relock"}
            /\ at'[w] \in {"advanced", "relock", "idle"}
        BY <3>3, CompleteControl
      <4>2. wpc[w] = "completing" /\ wpc'[w] = "completing" /\ UNCHANGED task
        BY <1>1, <4>1 DEF WorkerInv, InQueueOfPop, InQueueOfSubmit
      <4> QED
        BY <4>1, <4>2 DEF WorkerInv, InQueueOfComplete, threads
    <3> QED
      BY <1>1, <2>2, <3>1, <3>2, <3>3 DEF QueueStep
  <2> QED
    BY <2>1, <2>2
<1>5. MainInv'
  <2>1. CASE t # Main
    BY <1>1, <1>2, <2>1, MainKept
  <2>2. CASE t = Main
    <3>1. PushStep(Main)
      <4>1. at[Main] \in {"push", "pushed", "idle"}
        BY DEF MainInv
      <4> QED
        BY <1>1, <2>2, <4>1, PopControl, CompleteControl DEF QueueStep
    <3>2. /\ at[Main] \in {"push", "pushed"}
          /\ at'[Main] \in {at[Main], "pushed", "idle"}
          /\ at'[Main] = at[Main] => FrameKept(Main)
      BY <3>1, PushControl DEF MainInv
    <3>3. mpc = "submitting" /\ mpc' = "submitting" /\ next' = next /\ threads' = threads
      BY <1>1, <3>2 DEF MainInv, threads
    <3> QED
      BY <3>2, <3>3 DEF MainInv, FrameKept
  <2> QED
    BY <2>1, <2>2
<1> QED
  BY <1>3, <1>4, <1>5

\* The functions of the pool: worker w moves, its frame stays or is entered.
LEMMA WorkerControl ==
    ASSUME TypeOK, ControlInv, NEW w \in Workers, WorkerStep(w)
    PROVE  ControlInv'
<1> USE PoolFacts DEF ControlInv
<1>0. w \in Threads /\ UNCHANGED pool
  BY DEF WorkerStep
\* What is left to show of a step of w that does not stop the pool.
<1>a. ASSUME UNCHANGED <<mpc, next, done, exception, valid>>,
             \A u \in Threads \ {w} : FrameKept(u),
             \A u \in Workers \ {w} : wpc'[u] = wpc[u] /\ task'[u] = task[u],
             WorkerInv(w)'
      PROVE  ControlInv'
  <2>1. MainInv'
    BY <1>0, <1>a, MainKept
  <2>2. \A u \in Workers \ {w} : WorkerInv(u)'
    BY <1>0, <1>a, WorkerKept
  <2>3. StopInv'
    BY <1>a DEF StopInv
  <2> QED
    BY <1>a, <2>1, <2>2, <2>3
<1>b. ASSUME UNCHANGED queueVars
      PROVE  UNCHANGED valid /\ \A u \in Threads : FrameKept(u)
  BY <1>b DEF queueVars, data, frames, FrameKept
<1>c. WorkerInv(w)
  OBVIOUS
<1> USE DEF GotoW
<1>1. CASE WorkerStart(w)
  BY <1>0, <1>1, <1>a, <1>b, <1>c DEF WorkerStart, WorkerInv, FrameKept, TypeOK, threads
<1>2. CASE WorkerPop(w)
  <2>1. /\ \A u \in Threads \ {w} : FrameKept(u)
        /\ at'[w] = "pop" /\ job'[w] = NoJob /\ UNCHANGED valid
    BY <1>0, <1>2, EnterOthers DEF WorkerPop, CallPop, data
  <2>2. WorkerInv(w)'
    BY <1>0, <1>2, <1>c, <2>1 DEF WorkerPop, WorkerInv, InQueueOfPop, TypeOK, threads
  <2> QED
    BY <1>2, <1>a, <2>1, <2>2 DEF WorkerPop, TypeOK
<1>3. CASE WorkerPopped(w)
  <2>1. CASE ok[w]
    BY <1>0, <1>3, <1>a, <1>b, <1>c, <2>1
    DEF WorkerPopped, WorkerInv, InQueueOfPop, FrameKept, TypeOK, threads
  <2>2. CASE ~ok[w]
    BY <1>0, <1>3, <1>a, <1>b, <1>c, <2>2
    DEF WorkerPopped, WorkerInv, InQueueOfPop, FrameKept, TypeOK, threads
  <2> QED
    BY <2>1, <2>2
<1>4. CASE TaskSubmit(w)
  <2> DEFINE n == task[w].event
  <2>1. /\ \A u \in Threads \ {w} : FrameKept(u)
        /\ at'[w] = "push_priority" /\ job'[w] = Ordered(n)
        /\ num'[w] = n /\ block'[w] = FALSE /\ UNCHANGED valid
    <3>1. Enter(w, "push_priority", Ordered(n), n, FALSE)
      BY <1>4 DEF TaskSubmit, CallPushPriority
    <3> QED
      BY <1>0, <3>1 DEF Enter, FrameKept, TypeOK, QueueTypeOK, data
  <2>2. WorkerInv(w)'
    BY <1>0, <1>4, <1>c, <2>1
    DEF TaskSubmit, WorkerInv, InQueueOfSubmit, TypeOK, threads, Buffered
  <2> QED
    BY <1>4, <1>a, <2>1, <2>2 DEF TaskSubmit, TypeOK
<1>5. CASE TaskSubmitted(w)
  BY <1>0, <1>5, <1>a, <1>b, <1>c DEF TaskSubmitted, WorkerInv, FrameKept, TypeOK, threads
<1>6. CASE TaskComplete(w)
  <2>1. /\ \A u \in Threads \ {w} : FrameKept(u)
        /\ at'[w] = "complete" /\ num'[w] = task[w].event /\ UNCHANGED valid
    <3>1. Enter(w, "complete", NoJob, task[w].event, FALSE)
      BY <1>6 DEF TaskComplete, CallComplete
    <3> QED
      BY <1>0, <3>1 DEF Enter, FrameKept, TypeOK, QueueTypeOK, data
  <2>2. WorkerInv(w)'
    BY <1>0, <1>6, <1>c, <2>1
    DEF TaskComplete, WorkerInv, InQueueOfComplete, TypeOK, threads
  <2> QED
    BY <1>6, <1>a, <2>1, <2>2 DEF TaskComplete, TypeOK
<1>7. CASE TaskCompleted(w)
  BY <1>0, <1>7, <1>a, <1>b, <1>c DEF TaskCompleted, WorkerInv, FrameKept, TypeOK, threads
<1>8. CASE TaskReturn(w)
  <2>1. wpc[w] \in {"run", "ran"}
    BY <1>8 DEF TaskReturn
  <2> QED
    BY <1>0, <1>8, <1>a, <1>b, <1>c, <2>1
    DEF TaskReturn, WorkerInv, FrameKept, TypeOK, threads
<1>9. CASE TaskThrow(w)
  BY <1>0, <1>9, <1>a, <1>b, <1>c DEF TaskThrow, WorkerInv, FrameKept, TypeOK, threads
<1>10. CASE WorkerFinish(w)
  BY <1>0, <1>10, <1>a, <1>b, <1>c DEF WorkerFinish, WorkerInv, FrameKept, TypeOK, threads
<1>11. CASE WorkerLeave(w)
  BY <1>0, <1>11, <1>a, <1>b, <1>c DEF WorkerLeave, WorkerInv, FrameKept, TypeOK, threads
<1>12. CASE WorkerCatch(w)
  <2>1. \A u \in Threads : FrameKept(u)
    BY <1>12, FramesKept DEF WorkerCatch
  <2>2. /\ wpc[w] = "catch" /\ wpc'[w] = "exited" /\ task'[w] = NoJob
        /\ \A u \in Workers \ {w} : wpc'[u] = wpc[u] /\ task'[u] = task[u]
        /\ UNCHANGED <<mpc, next, done>>
    BY <1>12 DEF WorkerCatch, TypeOK
  <2>3. WorkerInv(w)'
    BY <1>0, <1>c, <2>1, <2>2 DEF WorkerInv, FrameKept, threads
  <2>4. exception' = "thrown" /\ ~valid'
    BY <1>12 DEF WorkerCatch, Invalidate, StopInv, data, TypeOK
  <2>5. StopInv'
    BY <2>2, <2>4 DEF StopInv
  <2>6. MainInv'
    BY <1>0, <2>1, <2>2, MainKept
  <2>7. \A u \in Workers \ {w} : WorkerInv(u)'
    BY <1>0, <2>1, <2>2, WorkerKept
  <2> QED
    BY <2>3, <2>5, <2>6, <2>7
<1>13. CASE InQueue(w)
  BY <1>0, <1>13, QueueControl
<1> QED
  BY <1>1, <1>2, <1>3, <1>4, <1>5, <1>6, <1>7, <1>8, <1>9, <1>10, <1>11,
     <1>12, <1>13 DEF WorkerStep

LEMMA MainControl ==
    ASSUME TypeOK, ControlInv, MainStep \/ MainCall \/ Spurious
    PROVE  ControlInv'
<1> USE PoolFacts DEF ControlInv
<1>0. UNCHANGED pool
  BY DEF MainStep, MainCall, Spurious
\* A step of the main thread leaves the workers alone.
<1>a. ASSUME UNCHANGED <<wpc, task>>, \A u \in Workers : FrameKept(u), MainInv', StopInv'
      PROVE  ControlInv'
  BY <1>0, <1>a, WorkerKept
<1>b. ASSUME UNCHANGED queueVars
      PROVE  UNCHANGED valid /\ \A u \in Threads : FrameKept(u)
  BY <1>b DEF queueVars, data, frames, FrameKept
<1>1. CASE Submit
  <2>1. Enter(Main, "push", Plain(next), End, TRUE)
    BY <1>1 DEF Submit, CallPush
  <2>2. /\ \A u \in Threads \ {Main} : FrameKept(u)
        /\ at'[Main] = "push" /\ job'[Main] = Plain(next) /\ block'[Main] = TRUE
        /\ UNCHANGED valid
    BY <2>1, EnterOthers DEF data
  <2>3. MainInv'
    BY <1>0, <1>1, <2>2 DEF Submit, MainInv, threads
  <2>4. StopInv'
    BY <1>1, <2>2 DEF Submit, StopInv
  <2> QED
    BY <1>1, <1>a, <2>2, <2>3, <2>4 DEF Submit
<1>2. CASE Submitted
  BY <1>0, <1>2, <1>a, <1>b DEF Submitted, MainInv, StopInv, FrameKept
<1>3. CASE SubmitInline
  <2>1. MainInv'
    BY <1>0, <1>3, <1>b DEF SubmitInline, MainInv, FrameKept
  <2> QED
    BY <1>3, <1>a, <1>b, <2>1 DEF SubmitInline, StopInv
<1>4. CASE Wait \/ WaitSleep \/ WaitReturn \/ WaitSpurious
  <2>1. MainInv'
    BY <1>0, <1>4, <1>b DEF Wait, WaitSleep, WaitReturn, WaitSpurious, MainInv, FrameKept, threads
  <2> QED
    BY <1>4, <1>a, <1>b, <2>1 DEF Wait, WaitSleep, WaitReturn, WaitSpurious, StopInv
<1>5. CASE Destroy
  <2>1. /\ \A u \in Threads : FrameKept(u)
        /\ mpc = "idle" /\ mpc' = "joining" /\ done' = TRUE /\ ~valid'
        /\ UNCHANGED <<next, wpc, task>>
    BY <1>5, FramesKept DEF Destroy, Invalidate
  <2>2. MainInv'
    BY <1>0, <2>1 DEF MainInv, FrameKept
  <2>3. StopInv'
    BY <2>1 DEF StopInv
  <2> QED
    BY <1>a, <2>1, <2>2, <2>3
<1>6. CASE Join
  BY <1>0, <1>6, <1>a, <1>b DEF Join, MainInv, StopInv, FrameKept
<1>7. CASE InQueue(Main)
  BY <1>0, <1>7, QueueControl
<1>8. CASE Wakeup
  <2>1. /\ \A u \in Threads : FrameKept(u)
        /\ UNCHANGED <<valid, done, exception, next, wpc, task, mpc>>
    BY <1>8, FramesKept DEF Wakeup, SpuriousWake, data, poolVars
  <2>2. MainInv'
    BY <1>0, <2>1, MainKept
  <2> QED
    BY <1>a, <2>1, <2>2 DEF StopInv
<1> QED
  BY <1>1, <1>2, <1>3, <1>4, <1>5, <1>6, <1>7, <1>8 DEF MainStep, MainCall, Spurious

-----------------------------------------------------------------------------
\* Every step keeps the types.
LEMMA TypeStep ==
    ASSUME TypeOK, ControlInv, Next
    PROVE  TypeOK'
<1> USE PoolFacts, JobFacts
<1>0. UNCHANGED pool
  BY DEF Next, WorkerStep, MainStep, MainCall, Spurious
<1>1. ASSUME NEW w \in Workers, WorkerStep(w) PROVE TypeOK'
  <2>0. w \in Threads /\ QueueTypeOK
    BY DEF TypeOK
  <2>1. CASE InQueue(w)
    BY <1>0, <2>0, <2>1, QueueStepType DEF InQueue, poolVars, TypeOK
  <2>2. CASE WorkerPop(w)
    BY <1>0, <2>0, <2>2, CallType DEF WorkerPop, GotoW, TypeOK, WorkerLabels
  <2>3. CASE TaskSubmit(w)
    <3>1. task[w] \in Task
      BY <2>3 DEF TaskSubmit, ControlInv, WorkerInv
    <3>2. QueueTypeOK'
      BY <2>0, <2>3, <3>1, CallType DEF TaskSubmit
    <3> QED
      BY <1>0, <2>3, <3>1, <3>2 DEF TaskSubmit, GotoW, TypeOK, WorkerLabels, States
  <2>4. CASE TaskComplete(w)
    <3>1. task[w] \in Task
      BY <2>4 DEF TaskComplete, ControlInv, WorkerInv
    <3>2. QueueTypeOK'
      BY <2>0, <2>4, <3>1, CallType DEF TaskComplete
    <3> QED
      BY <1>0, <2>4, <3>2 DEF TaskComplete, GotoW, TypeOK, WorkerLabels
  <2>5. CASE WorkerCatch(w)
    <3>1. QueueTypeOK'
      <4>1. CASE exception = "none"
        BY <2>0, <2>5, <4>1, QueueTypeRest DEF WorkerCatch
      <4>2. CASE exception # "none"
        BY <2>0, <2>5, <4>2, QueueTypeRest DEF WorkerCatch, queueVars
      <4> QED
        BY <4>1, <4>2
    <3>2. future' \in [Task -> States] /\ exception' \in {"none", "thrown"}
      BY <2>5 DEF WorkerCatch, Drop, TypeOK, States
    <3> QED
      BY <1>0, <2>5, <3>1, <3>2 DEF WorkerCatch, GotoW, TypeOK, WorkerLabels
  <2>6. CASE WorkerStart(w) \/ WorkerPopped(w) \/ TaskCompleted(w) \/ WorkerFinish(w)
             \/ WorkerLeave(w)
    <3>1. QueueTypeOK'
      BY <2>0, <2>6, QueueTypeRest
      DEF WorkerStart, WorkerPopped, TaskCompleted, WorkerFinish, WorkerLeave
    <3>2. /\ UNCHANGED <<done, exception, next, future, mpc>>
          /\ run_cnt' \in Int /\ asleep' \in BOOLEAN
      <4>1. CASE WorkerFinish(w)
        BY <4>1 DEF WorkerFinish, TypeOK
      <4>2. CASE WorkerStart(w) \/ WorkerPopped(w) \/ TaskCompleted(w) \/ WorkerLeave(w)
        BY <4>2 DEF WorkerStart, WorkerPopped, TaskCompleted, WorkerLeave, TypeOK
      <4> QED
        BY <2>6, <4>1, <4>2
    <3>3. wpc' \in [Workers -> WorkerLabels]
      <4>1. \E l \in WorkerLabels : wpc' = [wpc EXCEPT ![w] = l]
        BY <2>6 DEF WorkerStart, WorkerPopped, TaskCompleted, WorkerFinish, WorkerLeave,
                    GotoW, WorkerLabels
      <4> QED
        BY <4>1 DEF TypeOK
    <3>4. task' \in [Workers -> Task \cup {NoJob}]
      <4>1. \/ task' = task \/ task' = [task EXCEPT ![w] = NoJob]
            \/ task' = [task EXCEPT ![w] = job[w]]
        BY <2>6, Zenon DEF WorkerStart, WorkerPopped, TaskCompleted, WorkerFinish, WorkerLeave
      <4> QED
        BY <2>0, <4>1 DEF TypeOK, QueueTypeOK
    <3> QED
      BY <1>0, <3>1, <3>2, <3>3, <3>4 DEF TypeOK
  <2>7. CASE TaskSubmitted(w) \/ TaskReturn(w) \/ TaskThrow(w)
    <3>1. QueueTypeOK'
      BY <2>0, <2>7, QueueTypeRest DEF TaskSubmitted, TaskReturn, TaskThrow
    <3>2. UNCHANGED <<done, exception, asleep, next, task, mpc>> /\ run_cnt' \in Int
      BY <2>7 DEF TaskSubmitted, TaskReturn, TaskThrow, TypeOK
    <3>3. wpc' \in [Workers -> WorkerLabels]
      BY <2>7 DEF TaskSubmitted, TaskReturn, TaskThrow, GotoW, TypeOK, WorkerLabels
    <3>4. future' \in [Task -> States]
      BY <2>7 DEF TaskSubmitted, TaskReturn, TaskThrow, TypeOK, States
    <3> QED
      BY <1>0, <3>1, <3>2, <3>3, <3>4 DEF TypeOK
  <2> QED
    BY <1>1, <2>1, <2>2, <2>3, <2>4, <2>5, <2>6, <2>7 DEF WorkerStep
<1>2. CASE MainStep \/ MainCall \/ Spurious
  <2>0. QueueTypeOK /\ UNCHANGED pool
    BY <1>0 DEF TypeOK
  <2>1. CASE InQueue(Main) \/ Wakeup
    BY <2>0, <2>1, QueueStepType, QueueTypeRest DEF InQueue, Wakeup, poolVars, TypeOK
  <2>2. CASE Submit
    <3>1. next < pool.events
      BY <2>2 DEF Submit
    <3>3. next \in Events
      BY <3>1, NextEvent
    <3>4. Plain(next) \in Task
      BY <3>3
    <3>2. QueueTypeOK'
      BY <2>0, <2>2, <3>4, CallType DEF Submit
    <3> QED
      BY <2>0, <2>2, <3>4, <3>2 DEF Submit, TypeOK, States, MainLabels
  <2>3. CASE Submitted
    <3>1. next < pool.events
      BY <2>3 DEF Submitted, ControlInv, MainInv
    <3>2. next' \in 0..pool.events'
      BY <2>0, <2>3, <3>1 DEF Submitted
    <3>4. run_cnt' \in Int
      BY <2>3 DEF Submitted, TypeOK
    <3>5. future' = future \/ future' = [future EXCEPT ![Plain(next)] = "nostate"]
      BY <2>3, Zenon DEF Submitted
    <3>3. future' \in [Task -> States] /\ run_cnt' \in Int
      BY <3>4, <3>5 DEF TypeOK, States
    <3> QED
      BY <2>0, <2>3, <3>2, <3>3, QueueTypeRest DEF Submitted, TypeOK, MainLabels
  <2>4. CASE SubmitInline
    <3>1. next' \in 0..pool.events'
      BY <2>0, <2>4 DEF SubmitInline
    <3>2. future' \in [Task -> States]
      BY <2>4 DEF SubmitInline, TypeOK, States
    <3> QED
      BY <2>0, <2>4, <3>1, <3>2, QueueTypeRest DEF SubmitInline, TypeOK
  <2>5. CASE Wait \/ WaitSleep \/ WaitReturn \/ WaitSpurious \/ Join
    BY <2>0, <2>5, QueueTypeRest
    DEF Wait, WaitSleep, WaitReturn, WaitSpurious, Join, TypeOK, MainLabels
  <2>6. CASE Destroy
    <3>1. QueueTypeOK' /\ future' \in [Task -> States]
      BY <2>0, <2>6, QueueTypeRest DEF Destroy, Drop, TypeOK, States
    <3> QED
      BY <2>0, <2>6, <3>1 DEF Destroy, TypeOK, MainLabels
  <2> QED
    BY <1>2, <2>1, <2>2, <2>3, <2>4, <2>5, <2>6 DEF MainStep, MainCall, Spurious
<1> QED
  BY <1>1, <1>2 DEF Next

-----------------------------------------------------------------------------
(***************************************************************************)
(* A step moves one job.                                                   *)
(***************************************************************************)
\* Only thread t moves.
OneThread(t) ==
    /\ \A u \in Threads \ {t} : FrameKept(u)
    /\ \A u \in Workers \ {t} : wpc'[u] = wpc[u] /\ task'[u] = task[u]
    /\ t # Main => UNCHANGED <<mpc, next>>

\* The jobs of the other threads stay where they are.
LEMMA OthersKeep ==
    ASSUME TypeOK, NEW t \in Threads, OneThread(t)
    PROVE  /\ Hand' = IF t = Main THEN Hand ELSE [Hand EXCEPT ![t] = Hand'[t]]
           /\ Sent' = [Sent EXCEPT ![t] = Sent'[t]]
           /\ Submitting' = [Submitting EXCEPT ![t] = Submitting'[t]]
           /\ \A u \in Workers \ {t} : Due(u)' = Due(u) /\ Hand'[u] = Hand[u]
           /\ \A u \in Threads \ {t} : Sent'[u] = Sent[u]
<1> USE PoolFacts
<1>1. \A u \in Workers \ {t} : Due(u)' = Due(u) /\ Hand'[u] = Hand[u]
  BY DEF OneThread, FrameKept, Hand, Due
<1>2. \A u \in Threads \ {t} : Submitting'[u] = Submitting[u]
  BY DEF OneThread, Submitting, Workers
<1>3. \A u \in Threads \ {t} : Open(u)' = Open(u)
  BY DEF OneThread, FrameKept, Open
<1>4. \A u \in Threads \ {t} : Sent'[u] = Sent[u]
  BY <1>2, <1>3 DEF Sent
<1>5. /\ DOMAIN Hand = Workers /\ DOMAIN Hand' = Workers
      /\ Hand = [w \in Workers |-> Hand[w]] /\ Hand' = [w \in Workers |-> Hand'[w]]
  BY DEF Hand
<1>6. /\ Sent = [u \in Threads |-> Sent[u]] /\ Sent' = [u \in Threads |-> Sent'[u]]
      /\ Submitting = [u \in Threads |-> Submitting[u]]
      /\ Submitting' = [u \in Threads |-> Submitting'[u]]
  BY DEF Sent, Submitting
<1> HIDE DEF Hand, Sent, Submitting
<1>7. Hand' = IF t = Main THEN Hand ELSE [Hand EXCEPT ![t] = Hand'[t]]
  <2>1. CASE t = Main
    BY <1>1, <1>5, <2>1
  <2>2. CASE t # Main
    <3>1. t \in Workers
      BY <2>2 DEF Workers
    <3>2. DOMAIN Hand = Workers /\ DOMAIN Hand' = Workers
      BY <1>5
    <3> QED
      BY <1>1, <1>5, <2>2, <3>1, <3>2
  <2> QED
    BY <2>1, <2>2
<1> QED
  BY <1>1, <1>2, <1>4, <1>6, <1>7

DueKept == \A u \in Workers : Hand[u] \in Task => Due(u)' = Due(u)

\* Nothing moves.
Stay ==
    /\ UNCHANGED <<queue, priority_queue, future, valid, Hand, Sent>>
    /\ DueKept

\* w gets job j from the queue.
Take(w, j) ==
    /\ Hand[w] = NoJob /\ Hand' = [Hand EXCEPT ![w] = j] /\ Due(w)' = "pending"
    /\ \A u \in Workers \ {w} : Due(u)' = Due(u)
    /\ UNCHANGED <<future, valid, Sent, completed>>

TakePlain(w) ==
    /\ Take(w, Head(queue))
    /\ queue # <<>> /\ queue' = Tail(queue) /\ UNCHANGED priority_queue

TakeOrdered(w) ==
    \E e \in priority_queue :
        /\ Take(w, e.job)
        /\ e.id = current_id
        /\ priority_queue' = priority_queue \ {e} /\ UNCHANGED queue

\* t has put its job into the queue.
Put(t) ==
    /\ Sent[t] \in Task /\ Sent' = [Sent EXCEPT ![t] = NoJob]
    /\ valid
    /\ \A u \in Workers : Due(u)' = Due(u)
    /\ UNCHANGED <<future, valid, Hand, completed>>

PutPlain ==
    /\ Put(Main)
    /\ ~Sent[Main].ordered
    /\ queue' = Append(queue, Sent[Main]) /\ UNCHANGED priority_queue

PutOrdered(t) ==
    /\ Put(t)
    /\ Sent[t].ordered
    /\ priority_queue' = priority_queue \cup {[id |-> Sent[t].event, job |-> Sent[t]]}
    /\ UNCHANGED queue

QueueMove(t) ==
    \/ Stay /\ UNCHANGED completed
    \/ /\ Stay /\ t \in Workers /\ Hand[t] \in Task /\ Due(t) = "pending"
       /\ completed' = completed \cup {Hand[t].event}
    \/ t \in Workers /\ (TakePlain(t) \/ TakeOrdered(t) \/ PutOrdered(t))
    \/ t = Main /\ PutPlain

LEMMA QueueOneThread ==
    ASSUME TypeOK, NEW t \in Threads, InQueue(t)
    PROVE  /\ OneThread(t) /\ UNCHANGED <<valid, future, wpc, task, mpc, next>>
           /\ \A u \in Workers : Due(u)' = Due(u)
<1>1. QueueStep(t) /\ UNCHANGED <<future, next, wpc, task, mpc>>
  BY DEF InQueue, poolVars
<1>2. (\A u \in Threads \ {t} : FrameKept(u)) /\ UNCHANGED valid
  BY <1>1, PopControl, PushControl, CompleteControl DEF QueueStep
<1> QED
  BY <1>1, <1>2 DEF OneThread, Due

\* Nobody but the thread that pops gets a job, nobody but one that pushes loses it.
LEMMA StayOutside ==
    ASSUME TypeOK, NEW t \in Threads, InQueue(t),
           UNCHANGED <<queue, priority_queue>>,
           t \in Workers => Hand'[t] = Hand[t], Sent'[t] = Sent[t]
    PROVE  Stay
<1>1. /\ UNCHANGED <<valid, future>> /\ OneThread(t)
      /\ \A u \in Workers : Due(u)' = Due(u)
  BY QueueOneThread
<1>2. /\ Hand' = IF t = Main THEN Hand ELSE [Hand EXCEPT ![t] = Hand'[t]]
      /\ Sent' = [Sent EXCEPT ![t] = Sent'[t]]
  BY <1>1, OthersKeep
<1>3. t # Main => t \in Workers
  BY DEF Workers
<1>4. Hand' = Hand
  BY <1>2, <1>3 DEF Hand
<1>5. Sent' = Sent
  BY <1>2 DEF Sent
<1> QED
  BY <1>1, <1>4, <1>5 DEF Stay, DueKept

LEMMA PopMoves ==
    ASSUME TypeOK, ControlInv, NEW w \in Workers, InQueue(w), PopStep(w)
    PROVE  QueueMove(w)
<1> USE PoolFacts
<1>1. /\ at[w] \in {"pop", "popped_priority", "popped"}
      /\ UNCHANGED completed
  BY PopControl
<1>2. /\ OneThread(w) /\ UNCHANGED <<valid, future, wpc, task, mpc, next>>
      /\ \A u \in Workers : Due(u)' = Due(u)
  BY QueueOneThread
<1>3. wpc[w] = "popping" /\ InQueueOfPop(w) /\ w # Main
  BY <1>1 DEF ControlInv, WorkerInv, InQueueOfSubmit, InQueueOfComplete
<1>4. Hand[w] = job[w] /\ Hand'[w] = job'[w]
  BY <1>2, <1>3 DEF Hand
<1>5. Sent[w] = NoJob /\ Sent'[w] = NoJob
  BY <1>2, <1>3 DEF Sent, Submitting
<1>6. at[w] = "pop" => Hand[w] = NoJob
  BY <1>3, <1>4 DEF InQueueOfPop
<1>7. /\ Hand' = [Hand EXCEPT ![w] = Hand'[w]] /\ Sent' = [Sent EXCEPT ![w] = Sent'[w]]
  BY <1>2, <1>3, OthersKeep
<1>8. Sent' = Sent
  BY <1>5, <1>7 DEF Sent
<1>9. Due(w)' = "pending"
  BY <1>2, <1>3 DEF Due
<1>10. CASE PopInvalid(w) \/ PopSleep(w) \/ PopNotifyPop(w) \/ PopNotifyPush(w)
  <2>1. UNCHANGED <<queue, priority_queue>>
    BY <1>10 DEF PopInvalid, PopSleep, PopNotifyPop, PopNotifyPush, data
  <2>2. Hand'[w] = Hand[w]
    <3>1. CASE PopInvalid(w)
      BY <3>1, <1>4, <1>6, LeaveOthers DEF PopInvalid, InPop
    <3>2. CASE PopSleep(w)
      BY <3>2, <1>4 DEF PopSleep, frames
    <3>3. CASE PopNotifyPop(w)
      BY <3>3, <1>4 DEF PopNotifyPop, Goto
    <3>4. CASE PopNotifyPush(w)
      BY <3>4, <1>4, LeaveOthers DEF PopNotifyPush
    <3> QED
      BY <1>10, <3>1, <3>2, <3>3, <3>4
  <2> QED
    BY <1>1, <1>5, <2>1, <2>2, StayOutside DEF QueueMove
<1>11. CASE PopPriority(w)
  <2>1. PICK e \in Top : /\ e.id = current_id
                         /\ priority_queue' = priority_queue \ {e}
                         /\ job' = [job EXCEPT ![w] = e.job]
    BY <1>11 DEF PopPriority
  <2>2. /\ at[w] = "pop" /\ UNCHANGED queue /\ e \in priority_queue
    BY <1>11, <2>1 DEF PopPriority, InPop, Top
  <2>3. Hand'[w] = e.job
    BY <1>4, <2>1 DEF TypeOK, QueueTypeOK
  <2>4. Take(w, e.job)
    BY <1>1, <1>2, <1>6, <1>7, <1>8, <1>9, <2>2, <2>3 DEF Take
  <2> QED
    BY <2>1, <2>2, <2>4 DEF QueueMove, TakeOrdered
<1>12. CASE PopStandard(w)
  <2>1. /\ at[w] = "pop" /\ queue # <<>> /\ queue' = Tail(queue)
        /\ job' = [job EXCEPT ![w] = Head(queue)] /\ UNCHANGED priority_queue
    BY <1>12 DEF PopStandard, InPop, CanPopStandard
  <2>2. Hand'[w] = Head(queue)
    BY <1>4, <2>1 DEF TypeOK, QueueTypeOK
  <2>3. Take(w, Head(queue))
    BY <1>1, <1>2, <1>6, <1>7, <1>8, <1>9, <2>1, <2>2 DEF Take
  <2> QED
    BY <2>1, <2>3 DEF QueueMove, TakePlain
<1> QED
  BY <1>10, <1>11, <1>12 DEF PopStep

LEMMA CompleteMoves ==
    ASSUME TypeOK, ControlInv, NEW w \in Workers, InQueue(w), CompleteStep(w)
    PROVE  QueueMove(w)
<1> USE PoolFacts
<1>1. /\ at[w] \in {"complete", "advanced", "relock"}
      /\ UNCHANGED <<queue, priority_queue>>
      /\ completed' = IF at[w] = "complete" THEN completed \cup {num[w]} ELSE completed
  BY CompleteControl
<1>2. UNCHANGED <<wpc, task, mpc, next>>
  BY QueueOneThread
<1>3. wpc[w] = "completing" /\ InQueueOfComplete(w) /\ w # Main /\ task[w] \in Task
  BY <1>1 DEF ControlInv, WorkerInv, InQueueOfPop, InQueueOfSubmit
<1>4. Hand[w] = task[w] /\ Hand'[w] = task[w] /\ Due(w) = "pending"
  BY <1>2, <1>3 DEF Hand, Due
<1>5. Sent[w] = NoJob /\ Sent'[w] = NoJob
  BY <1>2, <1>3 DEF Sent, Submitting
<1>6. Stay
  BY <1>1, <1>4, <1>5, StayOutside
<1> QED
  BY <1>1, <1>3, <1>4, <1>6 DEF QueueMove, InQueueOfComplete

\* A thread that pushes: what it pushes is what it submits.
LEMMA PushMoves ==
    ASSUME TypeOK, ControlInv, NEW t \in Threads, InQueue(t), PushStep(t)
    PROVE  QueueMove(t)
<1> USE PoolFacts, JobFacts
<1>1. /\ at[t] \in {"push", "push_priority", "pushed"}
      /\ UNCHANGED completed
  BY PushControl
<1>2. /\ OneThread(t) /\ UNCHANGED <<valid, future, wpc, task, mpc, next>>
      /\ \A u \in Workers : Due(u)' = Due(u)
  BY QueueOneThread
<1>3. /\ Submitting[t] \in Task /\ Submitting'[t] = Submitting[t]
      /\ t \in Workers => Hand'[t] = Hand[t]
      /\ at[t] = "push" => t = Main /\ job[t] = Submitting[t] /\ ~Submitting[t].ordered
      /\ at[t] = "push_priority" =>
            /\ t \in Workers /\ job[t] = Submitting[t] /\ num[t] = Submitting[t].event
            /\ Submitting[t].ordered
  <2>1. CASE t = Main
    <3>1. /\ mpc = "submitting" /\ next \in Events
          /\ at[t] = "push" => job[t] = Plain(next)
          /\ at[t] # "push_priority"
      BY <1>1, <2>1, NextEvent DEF ControlInv, MainInv
    <3>2. Submitting[t] = Plain(next) /\ Submitting'[t] = Plain(next)
      BY <1>2, <2>1, <3>1 DEF Submitting
    <3> QED
      BY <2>1, <3>1, <3>2
  <2>2. CASE t # Main
    <3>1. t \in Workers
      BY <2>2 DEF Workers
    <3>2. wpc[t] = "submitting" /\ InQueueOfSubmit(t) /\ task[t] \in Task
      BY <1>1, <3>1 DEF ControlInv, WorkerInv, InQueueOfPop, InQueueOfComplete
    <3>3. /\ Submitting[t] = Ordered(task[t].event)
          /\ Submitting'[t] = Ordered(task[t].event)
      BY <1>2, <2>2, <3>2 DEF Submitting
    <3>4. Hand[t] = task[t] /\ Hand'[t] = task[t]
      BY <1>2, <3>1, <3>2 DEF Hand
    <3> QED
      BY <3>1, <3>2, <3>3, <3>4 DEF InQueueOfSubmit
  <2> QED
    BY <2>1, <2>2
<1>4. /\ Sent' = [Sent EXCEPT ![t] = Sent'[t]]
      /\ Hand' = IF t = Main THEN Hand ELSE [Hand EXCEPT ![t] = Hand'[t]]
  BY <1>2, OthersKeep
<1>5. Hand' = Hand
  <2>1. t # Main => t \in Workers
    BY DEF Workers
  <2> QED
    BY <1>3, <1>4, <2>1 DEF Hand
<1>6. CASE PushRefused(t) \/ PushSleep(t) \/ PushNotify(t)
  <2>1. UNCHANGED <<queue, priority_queue>>
    BY <1>6 DEF PushRefused, PushSleep, PushNotify, data
  <2>2. Open(t)' = Open(t)
    <3>1. CASE PushRefused(t)
      BY <3>1, LeaveOthers DEF PushRefused, InPush, Open
    <3>2. CASE PushSleep(t)
      BY <3>2 DEF PushSleep, frames, Open
    <3>3. CASE PushNotify(t)
      BY <3>3, LeaveOthers DEF PushNotify, Open
    <3> QED
      BY <1>6, <3>1, <3>2, <3>3
  <2>3. Sent'[t] = Sent[t]
    BY <1>3, <2>2 DEF Sent
  <2> QED
    BY <1>1, <1>3, <2>1, <2>3, StayOutside DEF QueueMove
<1>7. CASE PushStandard(t) \/ PushPriority(t)
  <2>1. /\ at[t] \in {"push", "push_priority"} /\ at'[t] = "pushed" /\ valid
    BY <1>7, GotoOthers DEF PushStandard, PushPriority
  <2>2. Sent[t] = Submitting[t] /\ Sent'[t] = NoJob
    BY <2>1 DEF Sent, Open
  <2>3. Put(t)
    BY <1>1, <1>2, <1>3, <1>4, <1>5, <2>1, <2>2 DEF Put
  <2>4. CASE PushStandard(t)
    <3>1. at[t] = "push" /\ queue' = Append(queue, job[t]) /\ UNCHANGED priority_queue
      BY <2>4 DEF PushStandard
    <3> QED
      BY <1>3, <2>2, <2>3, <3>1 DEF QueueMove, PutPlain
  <2>5. CASE PushPriority(t)
    <3>1. /\ at[t] = "push_priority" /\ UNCHANGED queue
          /\ priority_queue' = priority_queue \cup {[id |-> num[t], job |-> job[t]]}
      BY <2>5 DEF PushPriority
    <3> QED
      BY <1>3, <2>2, <2>3, <3>1 DEF QueueMove, PutOrdered
  <2> QED
    BY <1>7, <2>4, <2>5
<1> QED
  BY <1>6, <1>7 DEF PushStep

LEMMA QueueMoves ==
    ASSUME TypeOK, ControlInv, NEW t \in Threads, InQueue(t)
    PROVE  QueueMove(t)
<1>1. CASE t = Main
  <2>1. at[Main] \in {"push", "pushed", "idle"}
    BY DEF ControlInv, MainInv
  <2>2. PushStep(t)
    BY <1>1, <2>1, PoolFacts, PopControl, CompleteControl DEF InQueue, QueueStep
  <2> QED
    BY <2>2, PushMoves
<1>2. CASE t # Main
  <2>1. t \in Workers
    BY <1>2 DEF Workers
  <2> QED
    BY <2>1, PopMoves, PushMoves, CompleteMoves DEF InQueue, QueueStep
<1> QED
  BY <1>1, <1>2

\* The functions of the pool.  Nothing happens to a job.
Calm == Stay /\ UNCHANGED <<completed, Submitting, run_cnt>>

\* t submits j.
SubmitJob(t, j) ==
    /\ Submitting[t] = NoJob /\ Submitting' = [Submitting EXCEPT ![t] = j]
    /\ Sent[t] = NoJob /\ Sent' = [Sent EXCEPT ![t] = j]
    /\ future[j] = "none" /\ future' = [future EXCEPT ![j] = "pending"]
    /\ DueKept
    /\ UNCHANGED <<queue, priority_queue, valid, Hand, completed, run_cnt>>

\* submit() returns to t.
Answer(t) ==
    /\ Submitting[t] \in Task /\ Submitting' = [Submitting EXCEPT ![t] = NoJob]
    /\ run_cnt' = run_cnt + 1
    /\ \/ Sent[t] = NoJob /\ UNCHANGED <<Sent, future>>
       \/ /\ Sent[t] = Submitting[t] /\ Sent' = [Sent EXCEPT ![t] = NoJob]
          /\ ~valid
          /\ future' = [future EXCEPT ![Sent[t]] = "nostate"]
    /\ DueKept
    /\ UNCHANGED <<queue, priority_queue, valid, Hand, completed>>

\* The job of w returns or throws.
EndJob(w, r) ==
    /\ Hand[w] \in Task /\ Due(w) = "pending" /\ Due(w)' = r
    /\ future' = [future EXCEPT ![Hand[w]] = r]
    /\ \A u \in Workers \ {w} : Due(u)' = Due(u)
    /\ UNCHANGED <<queue, priority_queue, valid, Hand, Sent, completed,
                   Submitting, run_cnt>>

\* w is done with its job.
Lose(w) ==
    /\ Hand' = [Hand EXCEPT ![w] = NoJob]
    /\ \A u \in Workers \ {w} : Due(u)' = Due(u)
    /\ UNCHANGED <<Sent, completed, Submitting>>

CountOff(w) ==
    /\ Hand[w] \in Task /\ Due(w) = "value" /\ Lose(w)
    /\ run_cnt' = run_cnt - 1
    /\ UNCHANGED <<queue, priority_queue, valid, future>>

Dismiss(w) ==
    /\ Hand[w] \in Task => Due(w) = "exception"
    /\ Lose(w)
    /\ UNCHANGED run_cnt

Forget(w) == Dismiss(w) /\ UNCHANGED <<queue, priority_queue, valid, future>>

DropAll ==
    /\ queue' = <<>> /\ priority_queue' = {} /\ ~valid' /\ Drop
    /\ \/ \E w \in Workers : Dismiss(w)
       \/ DueKept /\ UNCHANGED <<Hand, Sent, completed, Submitting, run_cnt>>

\* Without workers the job has ended when submit() returns.
RunAtOnce(r) ==
    /\ threads = {}
    /\ Plain(next) \in Task /\ future[Plain(next)] = "none" /\ next' = next + 1
    /\ future' = [future EXCEPT ![Plain(next)] = r]
    /\ DueKept
    /\ UNCHANGED <<queue, priority_queue, valid, Hand, Sent, completed,
                   Submitting, run_cnt>>

PoolMove ==
    \/ Calm
    \/ \E t \in Threads, j \in Task : SubmitJob(t, j)
    \/ \E t \in Threads : Answer(t)
    \/ \E w \in Workers, r \in {"value", "exception"} : EndJob(w, r)
    \/ \E w \in Workers : CountOff(w) \/ Forget(w)
    \/ DropAll
    \/ \E r \in {"value", "exception"} : RunAtOnce(r)

\* A worker that runs code of the pool moves no other thread.
LEMMA WorkerOneThread ==
    ASSUME TypeOK, ControlInv, NEW w \in Workers, WorkerStep(w), ~InQueue(w)
    PROVE  OneThread(w) /\ UNCHANGED <<pool, mpc, next>>
<1> USE PoolFacts DEF GotoW
<1>0. w \in Threads
  OBVIOUS
<1>1. \A u \in Threads \ {w} : FrameKept(u)
  <2>1. CASE WorkerPop(w) \/ TaskSubmit(w) \/ TaskComplete(w)
    BY <1>0, <2>1 DEF WorkerPop, TaskSubmit, TaskComplete, CallPop, CallPushPriority,
                      CallComplete, Enter, FrameKept, TypeOK, QueueTypeOK
  <2>2. CASE WorkerCatch(w)
    BY <2>2, FramesKept DEF WorkerCatch
  <2>3. CASE UNCHANGED queueVars
    BY <2>3 DEF queueVars, frames, FrameKept
  <2> QED
    BY <2>1, <2>2, <2>3
    DEF WorkerStep, WorkerStart, WorkerPopped, TaskSubmitted, TaskCompleted,
        TaskReturn, TaskThrow, WorkerFinish, WorkerLeave
<1>2. /\ \A u \in Workers \ {w} : wpc'[u] = wpc[u] /\ task'[u] = task[u]
      /\ UNCHANGED <<pool, mpc, next>>
  BY DEF TypeOK, WorkerStep, WorkerPop, TaskSubmit, TaskComplete, WorkerCatch,
         WorkerStart, WorkerPopped, TaskSubmitted, TaskCompleted, TaskReturn,
         TaskThrow, WorkerFinish, WorkerLeave
<1> QED
  BY <1>1, <1>2 DEF OneThread

LEMMA WorkerMoves ==
    ASSUME TypeOK, ControlInv, RefusedInv, PlaceInv, FreshInv, NEW w \in Workers,
           WorkerStep(w), ~InQueue(w)
    PROVE  PoolMove
<1> USE PoolFacts DEF GotoW
<1>0. w \in Threads /\ w # Main /\ WorkerInv(w)
  BY DEF ControlInv
<1>1. OneThread(w) /\ UNCHANGED <<pool, mpc, next>>
  BY WorkerOneThread
<1>2. /\ Hand' = [Hand EXCEPT ![w] = Hand'[w]] /\ Sent' = [Sent EXCEPT ![w] = Sent'[w]]
      /\ Submitting' = [Submitting EXCEPT ![w] = Submitting'[w]]
      /\ \A u \in Workers \ {w} : Due(u)' = Due(u)
  BY <1>0, <1>1, OthersKeep
<1>3. /\ Hand'[w] = Hand[w] => Hand' = Hand
      /\ Sent'[w] = Sent[w] => Sent' = Sent
      /\ Submitting'[w] = Submitting[w] => Submitting' = Submitting
  <2>1. /\ Hand = [u \in Workers |-> Hand[u]]
        /\ Sent = [u \in Threads |-> Sent[u]]
        /\ Submitting = [u \in Threads |-> Submitting[u]]
    BY DEF Hand, Sent, Submitting
  <2> HIDE DEF Hand, Sent, Submitting
  <2> QED
    BY <1>2, <2>1
\* A step that leaves the jobs where they are.
<1>a. ASSUME UNCHANGED <<queue, priority_queue, future, valid, completed, run_cnt>>,
             wpc[w] # "submitting", wpc'[w] # "submitting", Hand'[w] = Hand[w],
             Hand[w] \in Task => Due(w)' = Due(w)
      PROVE  Calm
  <2>1. Submitting[w] = NoJob /\ Submitting'[w] = NoJob /\ Sent[w] = NoJob /\ Sent'[w] = NoJob
    BY <1>0, <1>a DEF Submitting, Sent
  <2> QED
    BY <1>2, <1>3, <1>a, <2>1 DEF Calm, Stay, DueKept
<1>b. ASSUME UNCHANGED queueVars
      PROVE  /\ UNCHANGED <<queue, priority_queue, valid, completed>>
             /\ at'[w] = at[w] /\ job'[w] = job[w] /\ ok'[w] = ok[w]
  BY <1>b DEF queueVars, data, frames
<1>4. CASE WorkerStart(w) \/ TaskCompleted(w) \/ WorkerLeave(w)
  <2>1. /\ wpc[w] \notin {"submitting", "popping", "finish", "catch"}
        /\ wpc'[w] \notin {"submitting", "popping", "finish"}
        /\ wpc'[w] = "catch" => task[w] = NoJob
        /\ task' = task /\ UNCHANGED <<queueVars, future, run_cnt>>
    BY <1>0, <1>4 DEF WorkerStart, TaskCompleted, WorkerLeave, TypeOK, WorkerInv
  <2>2. Hand[w] = task[w] /\ Hand'[w] = task[w]
    BY <2>1 DEF Hand
  <2> QED
    BY <1>a, <1>b, <2>1, <2>2 DEF PoolMove, Due
<1>5. CASE WorkerPop(w)
  <2>1. Enter(w, "pop", NoJob, End, FALSE)
    BY <1>5 DEF WorkerPop, CallPop
  <2>2. /\ wpc[w] = "loop" /\ wpc'[w] = "popping" /\ task[w] = NoJob
        /\ UNCHANGED <<future, run_cnt>>
    BY <1>0, <1>5 DEF WorkerPop, TypeOK, WorkerInv
  <2>3. job'[w] = NoJob /\ UNCHANGED <<queue, priority_queue, valid, completed>>
    BY <1>0, <2>1 DEF Enter, TypeOK, QueueTypeOK, data
  <2>4. Hand[w] = NoJob /\ Hand'[w] = NoJob
    BY <2>2, <2>3 DEF Hand
  <2> QED
    BY <1>a, <2>2, <2>3, <2>4 DEF PoolMove
<1>6. CASE WorkerPopped(w)
  <2>1. /\ wpc[w] = "popping" /\ UNCHANGED <<queueVars, future, run_cnt>>
        /\ at[w] = "idle"
    BY <1>6 DEF WorkerPopped
  <2>2. CASE ok[w]
    <3>1. wpc'[w] = "run" /\ task'[w] = job[w]
      BY <1>6, <2>2 DEF WorkerPopped, TypeOK
    <3>2. Hand[w] = job[w] /\ Hand'[w] = job[w]
      BY <2>1, <3>1 DEF Hand
    <3> QED
      BY <1>a, <1>b, <2>1, <3>1, <3>2 DEF PoolMove, Due
  <2>3. CASE ~ok[w]
    <3>1. wpc'[w] = "loop" /\ task'[w] = NoJob /\ job[w] = NoJob
      BY <1>0, <1>6, <2>1, <2>3 DEF WorkerPopped, TypeOK, QueueTypeOK, WorkerInv, InQueueOfPop
    <3>2. Hand[w] = NoJob /\ Hand'[w] = NoJob
      BY <2>1, <3>1 DEF Hand
    <3> QED
      BY <1>a, <1>b, <2>1, <3>1, <3>2 DEF PoolMove, Due
  <2> QED
    BY <2>2, <2>3
<1>7. CASE TaskComplete(w)
  <2>1. Enter(w, "complete", NoJob, task[w].event, FALSE)
    BY <1>7 DEF TaskComplete, CallComplete
  <2>2. /\ wpc[w] = "run" /\ wpc'[w] = "completing"
        /\ UNCHANGED <<task, future, run_cnt>>
    BY <1>7 DEF TaskComplete, TypeOK
  <2>3. UNCHANGED <<queue, priority_queue, valid, completed>>
    BY <2>1 DEF Enter, data
  <2>4. Hand[w] = task[w] /\ Hand'[w] = task[w]
    BY <2>2 DEF Hand
  <2> QED
    BY <1>a, <2>2, <2>3, <2>4 DEF PoolMove, Due
<1>8. CASE TaskReturn(w) \/ TaskThrow(w)
  <2>1. /\ wpc[w] \in {"run", "ran"} /\ UNCHANGED <<queueVars, run_cnt, task>>
        /\ \/ wpc'[w] = "finish" /\ future' = [future EXCEPT ![task[w]] = "value"]
           \/ wpc'[w] = "catch" /\ future' = [future EXCEPT ![task[w]] = "exception"]
    BY <1>8 DEF TaskReturn, TaskThrow, TypeOK
  <2>2. task[w] \in Task
    BY <1>0, <2>1 DEF WorkerInv
  <2>3. Hand[w] = task[w] /\ Hand'[w] = task[w]
    BY <2>1 DEF Hand
  <2>4. Submitting[w] = NoJob /\ Submitting'[w] = NoJob /\ Sent[w] = NoJob /\ Sent'[w] = NoJob
    BY <1>0, <2>1 DEF Submitting, Sent
  <2>5. \E r \in {"value", "exception"} :
            Due(w)' = r /\ future' = [future EXCEPT ![Hand[w]] = r]
    BY <2>1, <2>3 DEF Due
  <2>6. Due(w) = "pending"
    BY <2>1 DEF Due
  <2>7. \E r \in {"value", "exception"} : EndJob(w, r)
    BY <1>2, <1>3, <1>b, <2>1, <2>2, <2>3, <2>4, <2>5, <2>6 DEF EndJob
  <2> QED
    BY <2>7 DEF PoolMove
<1>9. CASE WorkerFinish(w)
  <2>1. /\ wpc[w] = "finish" /\ wpc'[w] = "loop" /\ task'[w] = NoJob
        /\ run_cnt' = run_cnt - 1 /\ UNCHANGED <<queueVars, future>>
    BY <1>9 DEF WorkerFinish, TypeOK
  <2>2. task[w] \in Task
    BY <1>0, <2>1 DEF WorkerInv
  <2>3. Hand[w] = task[w] /\ Hand'[w] = NoJob /\ Due(w) = "value"
    BY <2>1 DEF Hand, Due
  <2>4. Submitting[w] = NoJob /\ Submitting'[w] = NoJob /\ Sent[w] = NoJob /\ Sent'[w] = NoJob
    BY <1>0, <2>1 DEF Submitting, Sent
  <2>5. CountOff(w)
    BY <1>2, <1>3, <1>b, <2>1, <2>2, <2>3, <2>4 DEF CountOff, Lose
  <2> QED
    BY <2>5 DEF PoolMove
<1>10. CASE WorkerCatch(w)
  <2>1. /\ wpc[w] = "catch" /\ wpc'[w] = "exited" /\ task'[w] = NoJob
        /\ run_cnt' = run_cnt
    BY <1>10 DEF WorkerCatch, TypeOK
  <2>2. Hand[w] = task[w] /\ Hand'[w] = NoJob /\ Due(w) = "exception"
    BY <2>1 DEF Hand, Due
  <2>3. Submitting[w] = NoJob /\ Submitting'[w] = NoJob /\ Sent[w] = NoJob /\ Sent'[w] = NoJob
    BY <1>0, <2>1 DEF Submitting, Sent
  <2>4. CASE exception = "none"
    <3>1. Invalidate /\ Drop
      BY <1>10, <2>4 DEF WorkerCatch
    <3>2. /\ queue' = <<>> /\ priority_queue' = {} /\ ~valid' /\ UNCHANGED completed
      BY <3>1 DEF Invalidate
    <3>3. Dismiss(w)
      BY <1>2, <1>3, <2>1, <2>2, <2>3, <3>2 DEF Dismiss, Lose
    <3> QED
      BY <3>1, <3>2, <3>3 DEF DropAll, PoolMove
  <2>5. CASE exception # "none"
    <3>1. UNCHANGED <<queue, priority_queue, valid, completed, future>>
      BY <1>10, <2>5 DEF WorkerCatch, data
    <3>2. Forget(w)
      BY <1>2, <1>3, <2>1, <2>2, <2>3, <3>1 DEF Forget, Dismiss, Lose
    <3> QED
      BY <3>2 DEF PoolMove
  <2> QED
    BY <2>4, <2>5
<1>11. CASE TaskSubmit(w)
  <2> DEFINE j == Ordered(task[w].event)
  <2>1. Enter(w, "push_priority", j, task[w].event, FALSE)
    BY <1>11 DEF TaskSubmit, CallPushPriority
  <2>2. /\ wpc[w] = "run" /\ wpc'[w] = "submitting" /\ UNCHANGED <<task, run_cnt>>
        /\ ~task[w].ordered /\ future' = [future EXCEPT ![j] = "pending"]
    BY <1>11 DEF TaskSubmit, TypeOK
  <2>3. at'[w] = "push_priority" /\ UNCHANGED <<queue, priority_queue, valid, completed>>
    BY <1>0, <2>1 DEF Enter, TypeOK, QueueTypeOK, data
  <2>4. task[w] \in Task /\ task[w] = Plain(task[w].event) /\ task[w].event \in Events
    BY <1>0, <2>2, JobFacts DEF WorkerInv
  <2>5. Hand[w] = task[w] /\ Hand'[w] = task[w] /\ Due(w) = "pending" /\ Due(w)' = "pending"
    BY <2>2 DEF Hand, Due
  <2>6. future[task[w]] = "pending"
    BY <2>4, <2>5 DEF PlaceInv
  <2>7. \A u \in Workers : task[u] = task[w] /\ wpc[u] # "popping" => u = w
    BY <2>4, <2>5 DEF PlaceInv, Hand
  <2>8. future[j] = "none"
    BY <2>2, <2>4, <2>6, <2>7, Zenon DEF FreshInv
  <2>9. Submitting[w] = NoJob /\ Sent[w] = NoJob
    BY <1>0, <2>2 DEF Submitting, Sent
  <2>10. Submitting'[w] = j /\ Sent'[w] = j
    BY <1>0, <2>2, <2>3 DEF Submitting, Sent, Open
  <2>11. j \in Task
    BY <2>4, JobFacts
  <2>12. SubmitJob(w, j)
    BY <1>2, <1>3, <2>2, <2>3, <2>5, <2>8, <2>9, <2>10 DEF SubmitJob, DueKept
  <2> QED
    BY <1>0, <2>11, <2>12 DEF PoolMove
<1>12. CASE TaskSubmitted(w)
  <2> DEFINE j == Ordered(task[w].event)
  <2>1. /\ wpc[w] = "submitting" /\ wpc'[w] = "ran" /\ at[w] = "idle"
        /\ UNCHANGED <<queueVars, task>> /\ run_cnt' = run_cnt + 1
        /\ future' = IF ok[w] THEN future ELSE [future EXCEPT ![j] = "nostate"]
    BY <1>12 DEF TaskSubmitted, TypeOK
  <2>2. j \in Task
    BY <1>0, <2>1, JobFacts DEF WorkerInv
  <2>3. Hand[w] = task[w] /\ Hand'[w] = task[w] /\ Due(w) = "pending" /\ Due(w)' = "pending"
    BY <2>1 DEF Hand, Due
  <2>4. Submitting[w] = j /\ Submitting'[w] = NoJob /\ Sent'[w] = NoJob
    BY <1>0, <2>1 DEF Submitting, Sent
  <2>5. CASE ok[w]
    <3>1. Sent[w] = NoJob /\ future' = future
      BY <2>1, <2>5 DEF Sent, Open
    <3> QED
      BY <1>0, <1>2, <1>3, <1>b, <2>1, <2>2, <2>3, <2>4, <3>1 DEF Answer, DueKept, PoolMove
  <2>6. CASE ~ok[w]
    <3>1. Sent[w] = j
      BY <1>0, <2>1, <2>4, <2>6 DEF Sent, Open
    <3>2. ~valid
      BY <1>0, <2>1, <2>2, <3>1 DEF RefusedInv
    <3>3. future' = [future EXCEPT ![Sent[w]] = "nostate"]
      BY <2>1, <2>6, <3>1
    <3>4. Hand' = Hand /\ DueKept /\ UNCHANGED <<queue, priority_queue, valid, completed>>
      BY <1>2, <1>3, <1>b, <2>1, <2>3 DEF DueKept
    <3>5. /\ Submitting' = [Submitting EXCEPT ![w] = NoJob]
          /\ Sent' = [Sent EXCEPT ![w] = NoJob]
      BY <1>2, <2>4
    <3>6. Answer(w)
      BY <2>1, <2>2, <2>4, <3>1, <3>2, <3>3, <3>4, <3>5 DEF Answer
    <3> QED
      BY <1>0, <3>6 DEF PoolMove
  <2> QED
    BY <2>5, <2>6
<1> QED
  BY <1>4, <1>5, <1>6, <1>7, <1>8, <1>9, <1>10, <1>11, <1>12 DEF WorkerStep

\* The workers are where they were, and what they have.
LEMMA MainKeep ==
    ASSUME TypeOK, \A u \in Workers : FrameKept(u), UNCHANGED <<wpc, task>>
    PROVE  /\ Hand' = Hand /\ DueKept
           /\ \A u \in Workers : Sent'[u] = Sent[u] /\ Submitting'[u] = Submitting[u]
           /\ Sent' = [Sent EXCEPT ![Main] = Sent'[Main]]
           /\ Submitting' = [Submitting EXCEPT ![Main] = Submitting'[Main]]
           /\ Sent'[Main] = Sent[Main] => Sent' = Sent
           /\ Submitting'[Main] = Submitting[Main] => Submitting' = Submitting
<1> USE PoolFacts
<1>1. /\ Hand = [w \in Workers |-> Hand[w]] /\ Hand' = [w \in Workers |-> Hand'[w]]
      /\ Sent = [u \in Threads |-> Sent[u]] /\ Sent' = [u \in Threads |-> Sent'[u]]
      /\ Submitting = [u \in Threads |-> Submitting[u]]
      /\ Submitting' = [u \in Threads |-> Submitting'[u]]
  BY DEF Hand, Sent, Submitting
<1>2. \A w \in Workers : Hand'[w] = Hand[w] /\ Due(w)' = Due(w)
  BY DEF Hand, Due, FrameKept
<1>3. \A w \in Workers : Submitting'[w] = Submitting[w]
  BY DEF Submitting
<1>4. \A w \in Workers : Open(w)' = Open(w)
  BY DEF Open, FrameKept
<1>5. \A w \in Workers : Sent'[w] = Sent[w]
  BY <1>3, <1>4 DEF Sent
<1>6. \A u \in Threads : u = Main \/ u \in Workers
  BY DEF Workers
<1> HIDE DEF Hand, Sent, Submitting
<1>7. Hand' = Hand /\ DueKept
  BY <1>1, <1>2 DEF DueKept
<1>8. Sent' = [Sent EXCEPT ![Main] = Sent'[Main]]
  BY <1>1, <1>5, <1>6
<1>9. Submitting' = [Submitting EXCEPT ![Main] = Submitting'[Main]]
  BY <1>1, <1>3, <1>6
<1>10. Sent'[Main] = Sent[Main] => Sent' = Sent
  BY <1>1, <1>5, <1>6
<1>11. Submitting'[Main] = Submitting[Main] => Submitting' = Submitting
  BY <1>1, <1>3, <1>6
<1> QED
  BY <1>3, <1>5, <1>7, <1>8, <1>9, <1>10, <1>11

\* The main thread does not move the workers.
LEMMA MainOneThread ==
    ASSUME TypeOK, MainStep \/ MainCall \/ Spurious, ~InQueue(Main)
    PROVE  (\A u \in Workers : FrameKept(u)) /\ UNCHANGED <<wpc, task, pool>>
<1> USE PoolFacts
<1>0. UNCHANGED pool
  BY DEF MainStep, MainCall, Spurious
<1>1. CASE Submit
  BY <1>0, <1>1 DEF Submit, CallPush, Enter, FrameKept, TypeOK, QueueTypeOK
<1>2. CASE ~Submit
  <2>1. UNCHANGED <<frames, wpc, task, pool>>
    BY <1>2 DEF MainStep, MainCall, Spurious, Submitted, WaitSleep, WaitReturn, Join,
       SubmitInline, Wait, Destroy, Wakeup, WaitSpurious, SpuriousWake, queueVars,
       poolVars
  <2> QED
    BY <2>1, FramesKept
<1> QED
  BY <1>1, <1>2

LEMMA MainMoves ==
    ASSUME TypeOK, ControlInv, RefusedInv, FreshInv,
           MainStep \/ MainCall \/ Spurious, ~InQueue(Main)
    PROVE  PoolMove
<1> USE PoolFacts
<1>0. MainInv /\ StopInv
  BY DEF ControlInv
<1>1. (\A u \in Workers : FrameKept(u)) /\ UNCHANGED <<wpc, task>>
  BY MainOneThread
<1>2. /\ Hand' = Hand /\ DueKept
      /\ Sent' = [Sent EXCEPT ![Main] = Sent'[Main]]
      /\ Submitting' = [Submitting EXCEPT ![Main] = Submitting'[Main]]
      /\ Sent'[Main] = Sent[Main] => Sent' = Sent
      /\ Submitting'[Main] = Submitting[Main] => Submitting' = Submitting
  BY <1>1, MainKeep
<1>3. mpc # "submitting" => Sent[Main] = NoJob /\ Submitting[Main] = NoJob
  BY DEF Sent, Submitting
<1>4. mpc' # "submitting" => Sent'[Main] = NoJob /\ Submitting'[Main] = NoJob
  BY DEF Sent, Submitting
<1>5. ASSUME UNCHANGED <<queue, priority_queue, future, valid, completed, run_cnt>>,
             mpc # "submitting", mpc' # "submitting"
      PROVE  PoolMove
  BY <1>2, <1>3, <1>4, <1>5 DEF Calm, Stay, PoolMove
<1>6. CASE Wait \/ WaitSleep \/ WaitReturn \/ WaitSpurious \/ Join
  <2>1. \/ /\ UNCHANGED <<queueVars, future, run_cnt>>
           /\ mpc # "submitting" /\ mpc' # "submitting"
        \/ WaitSpurious
    BY <1>6 DEF Wait, WaitSleep, WaitReturn, Join
  <2>2. CASE ~WaitSpurious
    <3>1. UNCHANGED <<queue, priority_queue, future, valid, completed, run_cnt>>
      BY <2>1, <2>2 DEF queueVars, data
    <3> QED
      BY <1>5, <2>1, <2>2, <3>1
  <2>3. CASE WaitSpurious
    <3>1. UNCHANGED <<queueVars, future, run_cnt, mpc, next>>
      BY <2>3 DEF WaitSpurious
    <3>2. /\ UNCHANGED <<queue, priority_queue, future, valid, completed, run_cnt>>
          /\ UNCHANGED <<at, ok, mpc, next>>
      BY <3>1 DEF queueVars, data, frames
    <3>3. Sent'[Main] = Sent[Main] /\ Submitting'[Main] = Submitting[Main]
      BY <3>2 DEF Sent, Submitting, Open
    <3> QED
      BY <1>2, <3>2, <3>3 DEF Calm, Stay, PoolMove
  <2> QED
    BY <2>2, <2>3
<1>7. CASE Wakeup
  <2>1. UNCHANGED <<data, frames, poolVars>>
    BY <1>7 DEF Wakeup, SpuriousWake
  <2>2. /\ UNCHANGED <<queue, priority_queue, future, valid, completed, run_cnt>>
        /\ UNCHANGED <<at, ok, mpc, next>>
    BY <2>1 DEF poolVars, data, frames
  <2>3. Sent'[Main] = Sent[Main] /\ Submitting'[Main] = Submitting[Main]
    BY <2>2 DEF Sent, Submitting, Open
  <2> QED
    BY <1>2, <2>2, <2>3 DEF Calm, Stay, PoolMove
<1>8. CASE Destroy
  <2>1. Invalidate /\ Drop /\ mpc = "idle" /\ mpc' = "joining" /\ UNCHANGED run_cnt
    BY <1>8 DEF Destroy
  <2>2. queue' = <<>> /\ priority_queue' = {} /\ ~valid' /\ UNCHANGED completed
    BY <2>1 DEF Invalidate
  <2>3. Sent' = Sent /\ Submitting' = Submitting
    BY <1>2, <1>3, <1>4, <2>1
  <2> QED
    BY <1>2, <2>1, <2>2, <2>3 DEF DropAll, PoolMove
<1>9. CASE SubmitInline
  <2>1. PICK r \in {"value", "exception"} : future' = [future EXCEPT ![Plain(next)] = r]
    BY <1>9 DEF SubmitInline
  <2>2. /\ threads = {} /\ next < pool.events /\ mpc = "idle" /\ mpc' = "idle"
        /\ UNCHANGED <<queueVars, run_cnt>> /\ next' = next + 1
    BY <1>9 DEF SubmitInline
  <2>3. next \in Events /\ Plain(next) \in Task
    BY <2>2, NextEvent, JobFacts
  <2>4. future[Plain(next)] = "none"
    BY <2>2, <2>3 DEF FreshInv
  <2>5. UNCHANGED <<queue, priority_queue, valid, completed>>
    BY <2>2 DEF queueVars, data
  <2>6. RunAtOnce(r)
    BY <1>2, <1>3, <1>4, <2>1, <2>2, <2>3, <2>4, <2>5 DEF RunAtOnce
  <2> QED
    BY <2>6 DEF PoolMove
<1>10. CASE Submit
  <2>1. /\ mpc = "idle" /\ mpc' = "submitting" /\ next < pool.events
        /\ Enter(Main, "push", Plain(next), End, TRUE)
        /\ future' = [future EXCEPT ![Plain(next)] = "pending"]
        /\ UNCHANGED <<run_cnt, next>>
    BY <1>10 DEF Submit, CallPush
  <2>2. next \in Events /\ Plain(next) \in Task
    BY <2>1, NextEvent, JobFacts
  <2>3. future[Plain(next)] = "none"
    BY <2>1, <2>2 DEF FreshInv
  <2>4. at'[Main] = "push" /\ UNCHANGED <<queue, priority_queue, valid, completed>>
    BY <2>1 DEF Enter, TypeOK, QueueTypeOK, data
  <2>5. Submitting'[Main] = Plain(next) /\ Sent'[Main] = Plain(next)
    BY <2>1, <2>4 DEF Submitting, Sent, Open
  <2>6. Submitting[Main] = NoJob /\ Sent[Main] = NoJob
    BY <1>3, <2>1
  <2>7. SubmitJob(Main, Plain(next))
    BY <1>2, <2>1, <2>3, <2>4, <2>5, <2>6 DEF SubmitJob
  <2> QED
    BY <2>2, <2>7 DEF PoolMove
<1>11. CASE Submitted
  <2>1. /\ mpc = "submitting" /\ mpc' = "idle" /\ at[Main] = "idle"
        /\ run_cnt' = run_cnt + 1 /\ UNCHANGED queueVars
        /\ future' = IF ok[Main] THEN future ELSE [future EXCEPT ![Plain(next)] = "nostate"]
    BY <1>11 DEF Submitted
  <2>2. next \in Events /\ Plain(next) \in Task
    BY <1>0, <2>1, NextEvent, JobFacts DEF MainInv
  <2>3. UNCHANGED <<queue, priority_queue, valid, completed>>
    BY <2>1 DEF queueVars, data
  <2>4. Submitting[Main] = Plain(next) /\ Submitting'[Main] = NoJob /\ Sent'[Main] = NoJob
    BY <1>4, <2>1 DEF Submitting
  <2>5. /\ Submitting' = [Submitting EXCEPT ![Main] = NoJob]
        /\ Sent' = [Sent EXCEPT ![Main] = NoJob]
    BY <1>2, <2>4
  <2>6. CASE ok[Main]
    <3>1. Sent[Main] = NoJob /\ future' = future
      BY <2>1, <2>6 DEF Sent, Open
    <3>2. Sent' = Sent
      BY <1>2, <2>4, <3>1
    <3>3. Answer(Main)
      BY <1>2, <2>1, <2>2, <2>3, <2>4, <2>5, <3>1, <3>2 DEF Answer
    <3> QED
      BY <3>3 DEF PoolMove
  <2>7. CASE ~ok[Main]
    <3>1. Sent[Main] = Plain(next)
      BY <2>1, <2>4, <2>7 DEF Sent, Open
    <3>2. ~valid
      BY <2>1, <2>2, <3>1 DEF RefusedInv
    <3>3. future' = [future EXCEPT ![Sent[Main]] = "nostate"]
      BY <2>1, <2>7, <3>1
    <3>4. Answer(Main)
      BY <1>2, <2>1, <2>2, <2>3, <2>4, <2>5, <3>1, <3>2, <3>3 DEF Answer
    <3> QED
      BY <3>4 DEF PoolMove
  <2> QED
    BY <2>6, <2>7
<1> QED
  BY <1>6, <1>7, <1>8, <1>9, <1>10, <1>11 DEF MainStep, MainCall, Spurious

LEMMA PlaceTypes ==
    ASSUME TypeOK, ControlInv
    PROVE  /\ queue \in Seq(Task) /\ priority_queue \in SUBSET [id : Nat, job : Task]
           /\ future \in [Task -> States]
           /\ Hand \in [Workers -> Task \cup {NoJob}]
           /\ Sent \in [Threads -> Task \cup {NoJob}]
           /\ Submitting \in [Threads -> Task \cup {NoJob}]
           /\ \A t \in Threads : Sent[t] \in {Submitting[t], NoJob}
<1> USE PoolFacts
<1>1. /\ queue \in Seq(Task) /\ priority_queue \in SUBSET [id : Nat, job : Task]
      /\ future \in [Task -> States]
  BY DEF TypeOK, QueueTypeOK, Entry
<1>2. Hand \in [Workers -> Task \cup {NoJob}]
  BY DEF Hand, TypeOK, QueueTypeOK
<1>3. ASSUME NEW t \in Threads PROVE Submitting[t] \in Task \cup {NoJob}
  <2>1. CASE t = Main
    <3>1. mpc = "submitting" => Plain(next) \in Task
      BY NextEvent, JobFacts DEF ControlInv, MainInv
    <3> QED
      BY <2>1, <3>1 DEF Submitting
  <2>2. CASE t # Main
    <3>1. t \in Workers
      BY <2>2 DEF Workers
    <3>2. wpc[t] = "submitting" => Ordered(task[t].event) \in Task
      BY <3>1, JobFacts DEF ControlInv, WorkerInv
    <3> QED
      BY <2>2, <3>2 DEF Submitting
  <2> QED
    BY <2>1, <2>2
<1>4. Submitting = [t \in Threads |-> Submitting[t]] /\ Sent = [t \in Threads |-> Sent[t]]
  BY DEF Submitting, Sent
<1>5. \A t \in Threads : Sent[t] \in {Submitting[t], NoJob}
  BY DEF Sent
<1> HIDE DEF Submitting, Sent
<1>6. Submitting \in [Threads -> Task \cup {NoJob}]
  BY <1>3, <1>4
<1>7. Sent \in [Threads -> Task \cup {NoJob}]
  BY <1>3, <1>4, <1>5
<1> QED
  BY <1>1, <1>2, <1>5, <1>6, <1>7

\* Two threads submit two jobs.
LEMMA SubmittingDistinct ==
    ASSUME TypeOK, ControlInv, PlaceInv, NEW t \in Threads, NEW u \in Threads,
           Submitting[t] \in Task, Submitting[u] = Submitting[t]
    PROVE  u = t
<1> USE PoolFacts, JobFacts
<1>1. ASSUME NEW v \in Threads, Submitting[v] = Submitting[t], v # Main
      PROVE  /\ v \in Workers /\ Hand[v] = Plain(Submitting[t].event)
             /\ Hand[v] \in Task /\ Submitting[t].ordered
  <2>1. v \in Workers
    BY <1>1 DEF Workers
  <2>2. wpc[v] = "submitting" /\ Submitting[v] = Ordered(task[v].event)
    BY <1>1 DEF Submitting
  <2>3. task[v] \in Task /\ task[v] = Plain(task[v].event)
    BY <2>1, <2>2 DEF ControlInv, WorkerInv
  <2>4. Hand[v] = task[v]
    BY <2>1, <2>2 DEF Hand
  <2> QED
    BY <1>1, <2>1, <2>2, <2>3, <2>4
<1>2. ~Submitting[Main].ordered \/ Submitting[Main] \notin Task
  BY DEF Submitting
<1>3. \A v, w \in Workers : Hand[v] \in Task /\ Hand[w] = Hand[v] => w = v
  BY DEF PlaceInv
<1>4. CASE t = Main
  BY <1>1, <1>2, <1>4
<1>5. CASE u = Main
  BY <1>1, <1>2, <1>5
<1>6. CASE t # Main /\ u # Main
  BY <1>1, <1>3, <1>6
<1> QED
  BY <1>4, <1>5, <1>6

LEMMA SentDistinct ==
    ASSUME TypeOK, ControlInv, PlaceInv, NEW t \in Threads, NEW u \in Threads,
           Sent[t] \in Task, Sent[u] = Sent[t]
    PROVE  u = t
BY PlaceTypes, PoolFacts, SubmittingDistinct

\* Jobs that no place holds.
LEMMA NowhereElse ==
    ASSUME TypeOK, ControlInv, PlaceInv, NEW j \in Task, future[j] \notin {"pending"}
    PROVE  /\ ~Queued(j)
           /\ \A t \in Threads : Sent[t] # j
           /\ \A w \in Workers : Hand[w] = j => Due(w) = future[j]
BY PlaceTypes DEF PlaceInv, Queued

\* The parts of PlaceInv.
QueuePlace ==
    \A i \in 1..Len(queue) :
        /\ ~queue[i].ordered /\ future[queue[i]] = "pending"
        /\ \A k \in 1..Len(queue) : queue[k] = queue[i] => k = i
        /\ \A w \in Workers : Hand[w] # queue[i]

PriorityPlace ==
    \A e \in priority_queue :
        /\ e.job = Ordered(e.id) /\ future[e.job] = "pending"
        /\ \A w \in Workers : Hand[w] # e.job

HandPlace ==
    \A w \in Workers : Hand[w] \in Task =>
        /\ future[Hand[w]] = Due(w)
        /\ \A v \in Workers : Hand[v] = Hand[w] => v = w

SentPlace ==
    \A t \in Threads : Sent[t] \in Task =>
        /\ future[Sent[t]] = "pending" /\ ~Queued(Sent[t])
        /\ \A w \in Workers : Hand[w] # Sent[t]

LEMMA PlaceParts ==
    ASSUME QueuePlace', PriorityPlace', HandPlace', SentPlace'
    PROVE  PlaceInv'
BY DEF PlaceInv, QueuePlace, PriorityPlace, HandPlace, SentPlace

\* A plain job is not among the ordered ones.
LEMMA QueuesDiffer ==
    ASSUME TypeOK, ControlInv, PlaceInv
    PROVE  /\ \A i \in 1..Len(queue) : queue[i] \in Task /\ ~queue[i].ordered
           /\ \A e \in priority_queue :
                /\ e.job \in Task /\ e.job.ordered
                /\ \A f \in priority_queue : f.job = e.job => f = e
<1>1. queue \in Seq(Task) /\ priority_queue \in SUBSET [id : Nat, job : Task]
  BY PlaceTypes
<1>2. \A i \in 1..Len(queue) : queue[i] \in Task
  BY <1>1
<1>3. \A e \in priority_queue : e.job \in Task /\ e.job = Ordered(e.id)
  BY <1>1 DEF PlaceInv
<1>4. \A e \in priority_queue : e.job.ordered /\ e.job.event = e.id
  BY <1>3, JobFacts
<1>5. ASSUME NEW e \in priority_queue, NEW f \in priority_queue, f.job = e.job
      PROVE  f = e
  <2>1. f.id = e.id
    BY <1>4, <1>5
  <2>2. e \in [id : Nat, job : Task] /\ f \in [id : Nat, job : Task]
    BY <1>1
  <2> QED
    BY <1>5, <2>1, <2>2
<1> QED
  BY <1>2, <1>3, <1>4, <1>5 DEF PlaceInv

\* The future of a job at no place may change, and only the future of such a job.
LEMMA PlaceFuture ==
    ASSUME TypeOK, ControlInv, PlaceInv, NEW j \in Task, NEW r,
           future' = [future EXCEPT ![j] = r],
           ~Queued(j), \A w \in Workers : Hand[w] # j, \A t \in Threads : Sent'[t] # j,
           \A t \in Threads : Sent'[t] \in {Sent[t], NoJob},
           DueKept, UNCHANGED <<queue, priority_queue, Hand>>
    PROVE  PlaceInv'
<1> USE PlaceTypes, PoolFacts
<1>1. \A k \in Task : k # j => future'[k] = future[k]
  OBVIOUS
<1>2. QueuePlace'
  <2>1. \A i \in 1..Len(queue) : queue[i] \in Task /\ queue[i] # j
    BY QueuesDiffer DEF Queued
  <2> QED
    BY <1>1, <2>1 DEF PlaceInv, QueuePlace
<1>3. PriorityPlace'
  BY <1>1, QueuesDiffer DEF PlaceInv, PriorityPlace, Queued
<1>4. HandPlace'
  BY <1>1 DEF PlaceInv, HandPlace, DueKept
<1>5. SentPlace'
  BY <1>1 DEF PlaceInv, SentPlace, Queued
<1> QED
  BY <1>2, <1>3, <1>4, <1>5, PlaceParts

LEMMA PlaceTake ==
    ASSUME TypeOK, ControlInv, PlaceInv, NEW w \in Workers, TakePlain(w) \/ TakeOrdered(w)
    PROVE  PlaceInv'
<1> USE PlaceTypes, PoolFacts
<1>1. CASE TakePlain(w)
  <2>1. /\ Take(w, Head(queue)) /\ queue # <<>>
        /\ queue' = Tail(queue) /\ UNCHANGED priority_queue
    BY <1>1 DEF TakePlain
  <2>2. /\ Len(queue) \in Nat \ {0} /\ Head(queue) = queue[1] /\ 1 \in 1..Len(queue)
        /\ Len(queue') = Len(queue) - 1
        /\ \A i \in 1..Len(queue') : queue'[i] = queue[i + 1] /\ i + 1 \in 1..Len(queue)
    BY <2>1
  <2>3. /\ Hand[w] = NoJob /\ Hand' = [Hand EXCEPT ![w] = queue[1]] /\ Due(w)' = "pending"
        /\ \A u \in Workers \ {w} : Due(u)' = Due(u)
        /\ UNCHANGED <<future, Sent>>
    BY <2>1, <2>2 DEF Take
  <2>4. queue[1] \in Task /\ ~queue[1].ordered /\ future[queue[1]] = "pending" /\ Queued(queue[1])
    BY <2>2, QueuesDiffer DEF PlaceInv, Queued
  <2>5. Hand'[w] = queue[1] /\ \A u \in Workers \ {w} : Hand'[u] = Hand[u]
    BY <2>3
  <2>6. \A u \in Workers : Hand[u] # queue[1]
    BY <2>2 DEF PlaceInv
  <2>7. QueuePlace'
    <3> SUFFICES ASSUME NEW i \in 1..Len(queue')
                 PROVE  /\ ~queue'[i].ordered /\ future'[queue'[i]] = "pending"
                        /\ \A k \in 1..Len(queue') : queue'[k] = queue'[i] => k = i
                        /\ \A u \in Workers : Hand'[u] # queue'[i]
      BY DEF QueuePlace
    <3>1. i + 1 \in 1..Len(queue) /\ queue'[i] = queue[i + 1] /\ i + 1 # 1
      BY <2>2
    <3>2. ~queue[i + 1].ordered /\ future[queue[i + 1]] = "pending"
      BY <3>1 DEF PlaceInv
    <3>3. queue[1] # queue[i + 1]
      BY <2>2, <3>1 DEF PlaceInv
    <3>4. \A u \in Workers : Hand[u] # queue[i + 1]
      BY <3>1 DEF PlaceInv
    <3>5. \A u \in Workers : Hand'[u] # queue'[i]
      BY <2>5, <3>1, <3>3, <3>4
    <3>6. ASSUME NEW k \in 1..Len(queue'), queue'[k] = queue'[i] PROVE k = i
      <4>1. k + 1 \in 1..Len(queue) /\ queue[k + 1] = queue[i + 1]
        BY <2>2, <3>1, <3>6
      <4>2. k + 1 = i + 1
        BY <3>1, <4>1 DEF PlaceInv
      <4> QED
        BY <2>2, <4>2
    <3> QED
      BY <2>3, <3>1, <3>2, <3>5, <3>6
  <2>8. PriorityPlace'
    BY <2>1, <2>3, <2>4, <2>5, QueuesDiffer DEF PlaceInv, PriorityPlace
  <2>9. HandPlace'
    BY <2>3, <2>4, <2>5, <2>6 DEF PlaceInv, HandPlace
  <2>10. SentPlace'
    <3>1. \A j \in Task : Queued(j)' => Queued(j)
      BY <2>1, <2>2 DEF Queued
    <3> QED
      BY <2>3, <2>4, <2>5, <3>1 DEF PlaceInv, SentPlace
  <2> QED
    BY <2>7, <2>8, <2>9, <2>10, PlaceParts
<1>2. CASE TakeOrdered(w)
  <2>1. PICK e \in priority_queue :
            Take(w, e.job) /\ priority_queue' = priority_queue \ {e} /\ UNCHANGED queue
    BY <1>2 DEF TakeOrdered
  <2>2. /\ Hand[w] = NoJob /\ Hand' = [Hand EXCEPT ![w] = e.job] /\ Due(w)' = "pending"
        /\ \A u \in Workers \ {w} : Due(u)' = Due(u)
        /\ UNCHANGED <<future, Sent>>
    BY <2>1 DEF Take
  <2>3. e.job \in Task /\ e.job.ordered /\ future[e.job] = "pending" /\ Queued(e.job)
    BY QueuesDiffer DEF PlaceInv, Queued
  <2>4. Hand'[w] = e.job /\ \A u \in Workers \ {w} : Hand'[u] = Hand[u]
    BY <2>2
  <2>5. \A u \in Workers : Hand[u] # e.job
    BY DEF PlaceInv
  <2>6. QueuePlace'
    BY <2>1, <2>2, <2>3, <2>4, QueuesDiffer DEF PlaceInv, QueuePlace
  <2>7. PriorityPlace'
    <3>1. \A f \in priority_queue' : f \in priority_queue /\ f.job # e.job
      BY <2>1, QueuesDiffer
    <3> QED
      BY <2>2, <2>4, <3>1 DEF PlaceInv, PriorityPlace
  <2>8. HandPlace'
    BY <2>2, <2>3, <2>4, <2>5 DEF PlaceInv, HandPlace
  <2>9. SentPlace'
    <3>1. \A j \in Task : Queued(j)' => Queued(j)
      BY <2>1 DEF Queued
    <3> QED
      BY <2>2, <2>3, <2>4, <3>1 DEF PlaceInv, SentPlace
  <2> QED
    BY <2>6, <2>7, <2>8, <2>9, PlaceParts
<1> QED
  BY <1>1, <1>2

LEMMA PlacePut ==
    ASSUME TypeOK, ControlInv, PlaceInv, NEW t \in Threads,
           (t = Main /\ PutPlain) \/ PutOrdered(t)
    PROVE  PlaceInv'
<1> USE PlaceTypes, PoolFacts
<1> DEFINE j == Sent[t]
<1>1. Put(t)
  BY DEF PutPlain, PutOrdered
<1>2. /\ j \in Task /\ Sent' = [Sent EXCEPT ![t] = NoJob]
      /\ \A u \in Workers : Due(u)' = Due(u)
      /\ UNCHANGED <<future, Hand>>
  BY <1>1 DEF Put
<1>3. /\ future[j] = "pending" /\ ~Queued(j) /\ \A w \in Workers : Hand[w] # j
  BY <1>2 DEF PlaceInv
<1>4. \A u \in Threads : Sent'[u] \in Task => /\ Sent'[u] = Sent[u] /\ Sent[u] \in Task
                                              /\ Sent[u] # j
  BY <1>2, SentDistinct
<1>5. HandPlace'
  BY <1>2 DEF PlaceInv, HandPlace
<1>6. CASE t = Main /\ PutPlain
  <2>1. ~j.ordered /\ queue' = Append(queue, j) /\ UNCHANGED priority_queue
    BY <1>6 DEF PutPlain
  <2> HIDE DEF j
  <2>2. /\ Len(queue) \in Nat /\ Len(queue') = Len(queue) + 1 /\ queue'[Len(queue) + 1] = j
        /\ \A i \in 1..Len(queue) : queue'[i] = queue[i]
    BY <1>2, <2>1
  <2>3. \A i \in 1..Len(queue') : i \in 1..Len(queue) \/ i = Len(queue) + 1
    BY <2>2
  <2>4. \A i \in 1..Len(queue) : queue[i] # j
    BY <1>3 DEF Queued
  <2>5. QueuePlace'
    <3> SUFFICES ASSUME NEW i \in 1..Len(queue')
                 PROVE  /\ ~queue'[i].ordered /\ future'[queue'[i]] = "pending"
                        /\ \A k \in 1..Len(queue') : queue'[k] = queue'[i] => k = i
                        /\ \A u \in Workers : Hand'[u] # queue'[i]
      BY DEF QueuePlace
    <3>1. CASE i \in 1..Len(queue)
      <4>1. /\ ~queue[i].ordered /\ future[queue[i]] = "pending"
            /\ \A k \in 1..Len(queue) : queue[k] = queue[i] => k = i
            /\ \A u \in Workers : Hand[u] # queue[i]
        BY <3>1 DEF PlaceInv
      <4> QED
        BY <1>2, <2>2, <2>3, <2>4, <3>1, <4>1
    <3>2. CASE i = Len(queue) + 1
      BY <1>2, <1>3, <2>1, <2>2, <2>3, <2>4, <3>2
    <3> QED
      BY <2>3, <3>1, <3>2
  <2>6. PriorityPlace'
    BY <1>2, <2>1 DEF PlaceInv, PriorityPlace
  <2>7. \A k \in Task : Queued(k)' => Queued(k) \/ k = j
    BY <2>1, <2>2, <2>3 DEF Queued
  <2>8. SentPlace'
    BY <1>2, <1>4, <2>7 DEF PlaceInv, SentPlace
  <2> QED
    BY <1>5, <2>5, <2>6, <2>8, PlaceParts
<1>7. CASE PutOrdered(t)
  <2> DEFINE f == [id |-> j.event, job |-> j]
  <2>1. j.ordered /\ priority_queue' = priority_queue \cup {f} /\ UNCHANGED queue
    BY <1>7 DEF PutOrdered
  <2>2. f.job = j /\ j = Ordered(f.id)
    BY <1>2, <2>1, JobFacts
  <2> HIDE DEF j, f
  <2>3. QueuePlace'
    BY <1>2, <2>1 DEF PlaceInv, QueuePlace
  <2>4. PriorityPlace'
    BY <1>2, <1>3, <2>1, <2>2 DEF PlaceInv, PriorityPlace
  <2>5. \A k \in Task : Queued(k)' => Queued(k) \/ k = j
    BY <2>1, <2>2 DEF Queued
  <2>6. SentPlace'
    BY <1>2, <1>4, <2>5 DEF PlaceInv, SentPlace
  <2> QED
    BY <1>5, <2>3, <2>4, <2>6, PlaceParts
<1> QED
  BY <1>6, <1>7

\* A worker without a job, and no queue: nothing to be said of them.
LEMMA PlaceLose ==
    ASSUME TypeOK, ControlInv, PlaceInv, NEW w \in Workers, Lose(w),
           \/ UNCHANGED <<queue, priority_queue, future>>
           \/ queue' = <<>> /\ priority_queue' = {} /\ Drop
    PROVE  PlaceInv'
<1> USE PlaceTypes, PoolFacts
<1>1. /\ Hand' = [Hand EXCEPT ![w] = NoJob] /\ UNCHANGED Sent
      /\ \A u \in Workers \ {w} : Due(u)' = Due(u)
  BY DEF Lose
<1>2. \A u \in Workers : Hand'[u] \in {Hand[u], NoJob} /\ (Hand'[u] \in Task => u # w)
  BY <1>1
<1>3. \A k \in Task : ~Queued(k) => future'[k] = future[k]
  BY DEF Drop
<1>4. HandPlace'
  <2>1. \A u \in Workers : Hand[u] \in Task => ~Queued(Hand[u])
    BY DEF PlaceInv, Queued
  <2>2. \A u \in Workers : Hand'[u] \in Task => /\ Hand'[u] = Hand[u] /\ u # w
                                                /\ Due(u)' = Due(u)
    BY <1>1, <1>2
  <2> QED
    BY <1>2, <1>3, <2>1, <2>2 DEF PlaceInv, HandPlace
<1>5. \A k \in Task : Queued(k)' => Queued(k)
  BY DEF Queued
<1>6. SentPlace'
  BY <1>1, <1>2, <1>3, <1>5 DEF PlaceInv, SentPlace
<1>7. QueuePlace' /\ PriorityPlace'
  <2>1. CASE UNCHANGED <<queue, priority_queue, future>>
    <3>1. \A i \in 1..Len(queue) : queue[i] # NoJob
      BY QueuesDiffer
    <3>2. \A e \in priority_queue : e.job # NoJob
      BY QueuesDiffer
    <3>3. QueuePlace'
      BY <1>2, <2>1, <3>1 DEF PlaceInv, QueuePlace
    <3>4. PriorityPlace'
      BY <1>2, <2>1, <3>2 DEF PlaceInv, PriorityPlace
    <3> QED
      BY <3>3, <3>4
  <2>2. CASE queue' = <<>> /\ priority_queue' = {}
    BY <2>2 DEF QueuePlace, PriorityPlace
  <2> QED
    BY <2>1, <2>2
<1> QED
  BY <1>4, <1>6, <1>7, PlaceParts

LEMMA PlaceEnd ==
    ASSUME TypeOK, ControlInv, PlaceInv, NEW w \in Workers, NEW r, EndJob(w, r)
    PROVE  PlaceInv'
<1> USE PlaceTypes, PoolFacts
<1> DEFINE j == Hand[w]
<1>1. /\ j \in Task /\ Due(w)' = r /\ future' = [future EXCEPT ![j] = r]
      /\ \A u \in Workers \ {w} : Due(u)' = Due(u)
      /\ UNCHANGED <<queue, priority_queue, Hand, Sent>>
  BY DEF EndJob
<1>2. /\ ~Queued(j) /\ \A t \in Threads : Sent[t] # j
      /\ \A u \in Workers : Hand[u] = j => u = w
  BY <1>1 DEF PlaceInv, Queued
<1> HIDE DEF j
<1>3. future'[j] = r /\ \A k \in Task : k # j => future'[k] = future[k]
  BY <1>1
<1>4. QueuePlace'
  <2>1. \A i \in 1..Len(queue) : queue[i] \in Task /\ queue[i] # j
    BY <1>2, QueuesDiffer DEF Queued
  <2> QED
    BY <1>1, <1>3, <2>1 DEF PlaceInv, QueuePlace
<1>5. PriorityPlace'
  BY <1>1, <1>2, <1>3, QueuesDiffer DEF PlaceInv, PriorityPlace, Queued
<1>6. HandPlace'
  <2>1. Hand[w] = j
    BY DEF j
  <2>2. \A u \in Workers : u # w /\ Hand[u] \in Task =>
            Hand[u] # j /\ future'[Hand[u]] = Due(u)' /\ \A v \in Workers : Hand[v] = Hand[u] => v = u
    BY <1>1, <1>2, <1>3 DEF PlaceInv
  <2> QED
    BY <1>1, <1>2, <1>3, <2>1, <2>2 DEF HandPlace
<1>7. SentPlace'
  BY <1>1, <1>2, <1>3 DEF PlaceInv, SentPlace, Queued
<1> QED
  BY <1>4, <1>5, <1>6, <1>7, PlaceParts

LEMMA PlaceSubmit ==
    ASSUME TypeOK, ControlInv, PlaceInv, NEW t \in Threads, NEW j \in Task, SubmitJob(t, j)
    PROVE  PlaceInv'
<1> USE PlaceTypes, PoolFacts
<1>1. /\ Sent' = [Sent EXCEPT ![t] = j] /\ future[j] = "none"
      /\ future' = [future EXCEPT ![j] = "pending"] /\ DueKept
      /\ UNCHANGED <<queue, priority_queue, Hand>>
  BY DEF SubmitJob
<1>2. /\ ~Queued(j) /\ (\A u \in Threads : Sent[u] # j) /\ \A w \in Workers : Hand[w] # j
  BY <1>1, NowhereElse DEF Due
<1>3. future'[j] = "pending" /\ \A k \in Task : k # j => future'[k] = future[k]
  BY <1>1
<1>4. QueuePlace'
  <2>1. \A i \in 1..Len(queue) : queue[i] \in Task /\ queue[i] # j
    BY <1>2, QueuesDiffer DEF Queued
  <2> QED
    BY <1>1, <1>3, <2>1 DEF PlaceInv, QueuePlace
<1>5. PriorityPlace'
  BY <1>1, <1>2, <1>3, QueuesDiffer DEF PlaceInv, PriorityPlace, Queued
<1>6. HandPlace'
  BY <1>1, <1>2, <1>3 DEF PlaceInv, HandPlace, DueKept
<1>7. \A k \in Task : Queued(k)' => Queued(k)
  BY <1>1 DEF Queued
<1>8. SentPlace'
  BY <1>1, <1>2, <1>3, <1>7 DEF PlaceInv, SentPlace
<1> QED
  BY <1>4, <1>5, <1>6, <1>8, PlaceParts

LEMMA PlaceStay ==
    ASSUME PlaceInv, Stay PROVE PlaceInv'
<1>1. /\ UNCHANGED <<queue, priority_queue, future, Hand, Sent>> /\ DueKept
  BY DEF Stay
<1>2. QueuePlace' /\ PriorityPlace'
  BY <1>1 DEF PlaceInv, QueuePlace, PriorityPlace
<1>3. HandPlace'
  BY <1>1 DEF PlaceInv, HandPlace, DueKept
<1>4. SentPlace'
  BY <1>1 DEF PlaceInv, SentPlace, Queued
<1> QED
  BY <1>2, <1>3, <1>4, PlaceParts

LEMMA PlaceStep ==
    ASSUME TypeOK, ControlInv, PlaceInv, (\E t \in Threads : QueueMove(t)) \/ PoolMove
    PROVE  PlaceInv'
<1> USE PlaceTypes, PoolFacts
<1>1. ASSUME NEW t \in Threads, QueueMove(t) PROVE PlaceInv'
  BY <1>1, PlaceStay, PlaceTake, PlacePut DEF QueueMove
<1>2. CASE Calm
  BY <1>2, PlaceStay DEF Calm
<1>3. ASSUME NEW t \in Threads, NEW j \in Task, SubmitJob(t, j) PROVE PlaceInv'
  BY <1>3, PlaceSubmit
<1>4. ASSUME NEW t \in Threads, Answer(t) PROVE PlaceInv'
  <2>1. CASE Sent[t] = NoJob /\ UNCHANGED <<Sent, future>>
    BY <1>4, <2>1, PlaceStay DEF Answer, Stay
  <2>2. CASE Sent[t] = Submitting[t] /\ Sent' = [Sent EXCEPT ![t] = NoJob]
             /\ future' = [future EXCEPT ![Sent[t]] = "nostate"]
    <3> DEFINE j == Sent[t]
    <3>1. j \in Task
      BY <1>4, <2>2 DEF Answer
    <3>2. ~Queued(j) /\ \A w \in Workers : Hand[w] # j
      BY <3>1 DEF PlaceInv
    <3>3. \A u \in Threads : Sent'[u] # j /\ Sent'[u] \in {Sent[u], NoJob}
      BY <2>2, <3>1, SentDistinct
    <3>4. DueKept /\ UNCHANGED <<queue, priority_queue, Hand>>
      BY <1>4 DEF Answer
    <3> QED
      BY <2>2, <3>1, <3>2, <3>3, <3>4, PlaceFuture
  <2> QED
    BY <1>4, <2>1, <2>2 DEF Answer
<1>5. ASSUME NEW w \in Workers, NEW r, EndJob(w, r) PROVE PlaceInv'
  BY <1>5, PlaceEnd
<1>6. ASSUME NEW w \in Workers, CountOff(w) \/ Forget(w) PROVE PlaceInv'
  BY <1>6, PlaceLose DEF CountOff, Forget, Dismiss
<1>7. CASE DropAll
  <2>1. queue' = <<>> /\ priority_queue' = {} /\ Drop
    BY <1>7 DEF DropAll
  <2>2. ASSUME NEW w \in Workers, Dismiss(w) PROVE PlaceInv'
    BY <2>1, <2>2, PlaceLose DEF Dismiss
  <2>3. CASE DueKept /\ UNCHANGED <<Hand, Sent>>
    <3>1. \A k \in Task : ~Queued(k) => future'[k] = future[k]
      BY <2>1 DEF Drop
    <3>2. \A w \in Workers : Hand[w] \in Task => ~Queued(Hand[w])
      BY DEF PlaceInv, Queued
    <3>3. QueuePlace' /\ PriorityPlace'
      BY <2>1 DEF QueuePlace, PriorityPlace
    <3>4. HandPlace'
      BY <2>3, <3>1, <3>2 DEF PlaceInv, HandPlace, DueKept
    <3>5. \A k \in Task : ~Queued(k)'
      BY <2>1 DEF Queued
    <3>6. SentPlace'
      BY <2>3, <3>1, <3>5 DEF PlaceInv, SentPlace
    <3> QED
      BY <3>3, <3>4, <3>6, PlaceParts
  <2> QED
    BY <1>7, <2>2, <2>3 DEF DropAll
<1>8. ASSUME NEW r, RunAtOnce(r) PROVE PlaceInv'
  <2>1. /\ Plain(next) \in Task /\ future[Plain(next)] = "none"
        /\ future' = [future EXCEPT ![Plain(next)] = r]
        /\ DueKept /\ UNCHANGED <<queue, priority_queue, Hand, Sent>>
    BY <1>8 DEF RunAtOnce
  <2>2. /\ ~Queued(Plain(next)) /\ (\A u \in Threads : Sent[u] # Plain(next))
        /\ \A w \in Workers : Hand[w] # Plain(next)
    BY <2>1, NowhereElse DEF Due
  <2> QED
    BY <2>1, <2>2, PlaceFuture
<1> QED
  BY <1>1, <1>2, <1>3, <1>4, <1>5, <1>6, <1>7, <1>8 DEF PoolMove

-----------------------------------------------------------------------------
(***************************************************************************)
(* Every step is one of these moves.                                       *)
(***************************************************************************)
\* A step in the queue is in one submit() at most, and not at its end.
LEMMA SubmittingKept ==
    ASSUME TypeOK, NEW t \in Threads, InQueue(t)
    PROVE  UNCHANGED <<Submitting, run_cnt>>
BY QueueOneThread DEF Submitting, InQueue, poolVars

QueueMoved == \E t \in Threads : QueueMove(t) /\ UNCHANGED <<Submitting, run_cnt>>

LEMMA Moves ==
    ASSUME TypeOK, ControlInv, RefusedInv, PlaceInv, FreshInv, [Next]_vars
    PROVE  QueueMoved \/ PoolMove
<1> USE PoolFacts
<1>1. CASE \E w \in Workers : WorkerStep(w)
  BY <1>1, QueueMoves, SubmittingKept, WorkerMoves DEF QueueMoved
<1>2. CASE MainStep \/ MainCall \/ Spurious
  BY <1>2, QueueMoves, SubmittingKept, MainMoves DEF QueueMoved
<1>3. CASE UNCHANGED vars
  <2>1. UNCHANGED <<queueVars, poolVars>>
    BY <1>3 DEF vars
  <2>2. /\ UNCHANGED <<queue, priority_queue, future, valid, completed, run_cnt>>
        /\ UNCHANGED <<at, ok, job, mpc, next, wpc, task>>
    BY <2>1 DEF queueVars, poolVars, data, frames
  <2>3. Hand' = Hand /\ Submitting' = Submitting /\ DueKept
    BY <2>2 DEF Hand, Submitting, DueKept, Due
  <2>4. \A t \in Threads : Open(t)' = Open(t)
    BY <2>2 DEF Open
  <2>5. Sent' = Sent
    BY <2>3, <2>4 DEF Sent
  <2> QED
    BY <2>2, <2>3, <2>5 DEF Calm, Stay, PoolMove
<1> QED
  BY <1>1, <1>2, <1>3 DEF Next

\* How the futures move.
LEMMA FutureMoves ==
    ASSUME TypeOK, ControlInv, PlaceInv, QueueMoved \/ PoolMove,
           NEW k \in Task
    PROVE  /\ future[k] \notin {"none", "pending"} => future'[k] = future[k]
           /\ future[k] # "none" => future'[k] # "none"
           /\ future[k] = "none" /\ future'[k] # "none" =>
                \/ \E t \in Threads : SubmitJob(t, k)
                \/ k = Plain(next) /\ \E r \in {"value", "exception"} : RunAtOnce(r)
           /\ future[k] # "pending" /\ future'[k] = "pending" =>
                \E t \in Threads : SubmitJob(t, k)
<1> USE PlaceTypes, PoolFacts
<1> DEFINE Goal ==
           /\ future[k] \notin {"none", "pending"} => future'[k] = future[k]
           /\ future[k] # "none" => future'[k] # "none"
           /\ future[k] = "none" /\ future'[k] # "none" =>
                \/ \E t \in Threads : SubmitJob(t, k)
                \/ k = Plain(next) /\ \E r \in {"value", "exception"} : RunAtOnce(r)
           /\ future[k] # "pending" /\ future'[k] = "pending" =>
                \E t \in Threads : SubmitJob(t, k)
<1> SUFFICES Goal
  OBVIOUS
<1>1. ASSUME UNCHANGED future PROVE Goal
  BY <1>1
<1>2. ASSUME NEW t \in Threads, QueueMove(t) PROVE Goal
  BY <1>1, <1>2 DEF QueueMove, Stay, TakePlain, TakeOrdered, Take, PutPlain, PutOrdered, Put
<1>3. CASE Calm
  BY <1>1, <1>3 DEF Calm, Stay
<1>4. ASSUME NEW t \in Threads, NEW j \in Task, SubmitJob(t, j) PROVE Goal
  BY <1>4 DEF SubmitJob
<1>5. ASSUME NEW t \in Threads, Answer(t) PROVE Goal
  BY <1>1, <1>5 DEF Answer, PlaceInv
<1>6. ASSUME NEW w \in Workers, NEW r \in {"value", "exception"}, EndJob(w, r) PROVE Goal
  BY <1>6 DEF EndJob, PlaceInv
<1>7. ASSUME NEW w \in Workers, CountOff(w) \/ Forget(w) PROVE Goal
  BY <1>1, <1>7 DEF CountOff, Forget
<1>8. CASE DropAll
  <2>1. Queued(k) => future[k] = "pending"
    BY DEF PlaceInv, Queued
  <2> QED
    BY <1>8, <2>1 DEF DropAll, Drop
<1>9. ASSUME NEW r \in {"value", "exception"}, RunAtOnce(r) PROVE Goal
  BY <1>9 DEF RunAtOnce
<1> QED
  BY <1>2, <1>3, <1>4, <1>5, <1>6, <1>7, <1>8, <1>9 DEF PoolMove, QueueMoved

LEMMA PoolKept == [Next]_vars => UNCHANGED pool
BY DEF Next, WorkerStep, MainStep, MainCall, Spurious, vars

\* Who submits what.
LEMMA SubmitBy ==
    ASSUME TypeOK, ControlInv, TypeOK', ControlInv', NEW t \in Threads, NEW j \in Task,
           SubmitJob(t, j)
    PROVE  /\ t = Main => /\ mpc' = "submitting" /\ mpc # "submitting" /\ j = Plain(next')
                          /\ threads' # {}
           /\ t # Main => /\ t \in Workers /\ wpc'[t] = "submitting" /\ t \in threads'
                          /\ task'[t] = Plain(j.event) /\ j.ordered
<1> USE PoolFacts, PlaceTypes, JobFacts
<1>1. Submitting[t] = NoJob /\ Submitting'[t] = j
  BY DEF SubmitJob
<1>2. CASE t = Main
  <2>1. mpc' = "submitting" /\ j = Plain(next')
    BY <1>1, <1>2 DEF Submitting
  <2>2. mpc # "submitting"
    <3>1. mpc = "submitting" => Plain(next) \in Task
      BY NextEvent DEF ControlInv, MainInv
    <3> QED
      BY <1>1, <1>2, <3>1 DEF Submitting
  <2>3. threads' # {}
    BY <2>1 DEF ControlInv, MainInv
  <2> QED
    BY <1>2, <2>1, <2>2, <2>3
<1>3. CASE t # Main
  <2>1. t \in Workers
    BY <1>3 DEF Workers
  <2>2. wpc'[t] = "submitting" /\ j = Ordered(task'[t].event)
    BY <1>1, <1>3 DEF Submitting
  <2>3. WorkerInv(t)'
    BY <2>1 DEF ControlInv
  <2>4. task'[t] \in Task /\ ~task'[t].ordered /\ t \in threads'
    BY <2>2, <2>3 DEF WorkerInv
  <2>5. task'[t] = Plain(task'[t].event) /\ j.event = task'[t].event /\ j.ordered
    BY <2>2, <2>4
  <2> QED
    BY <1>3, <2>1, <2>2, <2>4, <2>5
<1> QED
  BY <1>2, <1>3

\* How next and the submission of the main thread move.
LEMMA NextMoves ==
    ASSUME TypeOK, [Next]_vars
    PROVE  \/ next' = next /\ (mpc' = "submitting" <=> mpc = "submitting")
           \/ /\ next' = next /\ mpc' = "submitting" /\ mpc # "submitting"
              /\ future' = [future EXCEPT ![Plain(next)] = "pending"]
           \/ /\ next' = next + 1 /\ mpc = "submitting" /\ mpc' = "idle"
           \/ /\ next' = next + 1 /\ mpc = "idle" /\ mpc' = "idle"
              /\ \E r \in {"value", "exception"} :
                    future' = [future EXCEPT ![Plain(next)] = r]
<1>1. CASE \E w \in Workers : WorkerStep(w)
  <2>1. UNCHANGED <<mpc, next>>
    BY <1>1 DEF WorkerStep, WorkerPop, TaskSubmit, TaskComplete, WorkerCatch,
           WorkerStart, WorkerPopped, TaskSubmitted, TaskCompleted, TaskReturn,
           TaskThrow, WorkerFinish, WorkerLeave, InQueue, poolVars
  <2> QED
    BY <2>1
<1>2. CASE UNCHANGED vars
  BY <1>2 DEF vars, poolVars
<1>3. CASE MainStep
  BY <1>3 DEF MainStep, Submitted, WaitSleep, WaitReturn, Join, InQueue, poolVars
<1>4. CASE Spurious
  BY <1>4 DEF Spurious, Wakeup, WaitSpurious, poolVars
<1>5. CASE MainCall
  <2>1. CASE Wait \/ Destroy
    BY <2>1 DEF Wait, Destroy
  <2>2. CASE Submit
    BY <2>2 DEF Submit
  <2>3. CASE SubmitInline
    BY <2>3 DEF SubmitInline
  <2> QED
    BY <1>5, <2>1, <2>2, <2>3 DEF MainCall
<1> QED
  BY <1>1, <1>2, <1>3, <1>4, <1>5 DEF Next

\* A worker between the submission of a job and the end of its own.
LEMMA SubmitterMoves ==
    ASSUME TypeOK, ControlInv, [Next]_vars, NEW w \in Workers,
           wpc[w] \in {"submitting", "ran"}
    PROVE  \/ wpc'[w] \in {"submitting", "ran"} /\ task'[w] = task[w]
           \/ \E r \in {"value", "exception"} : future' = [future EXCEPT ![task[w]] = r]
<1>1. ASSUME NEW v \in Workers, WorkerStep(v)
      PROVE  \/ wpc'[w] \in {"submitting", "ran"} /\ task'[w] = task[w]
             \/ \E r \in {"value", "exception"} : future' = [future EXCEPT ![task[w]] = r]
  <2>1. CASE TaskReturn(v) \/ TaskThrow(v)
    BY <2>1 DEF TaskReturn, TaskThrow, GotoW, TypeOK
  <2>2. CASE TaskSubmitted(v)
    BY <2>2 DEF TaskSubmitted, GotoW, TypeOK
  <2>3. CASE InQueue(v)
    BY <2>3 DEF InQueue, poolVars
  <2>4. CASE WorkerStart(v) \/ WorkerPop(v) \/ WorkerPopped(v) \/ TaskSubmit(v)
    BY <2>4 DEF WorkerStart, WorkerPop, WorkerPopped, TaskSubmit, GotoW, TypeOK
  <2>5. CASE TaskComplete(v) \/ TaskCompleted(v) \/ WorkerFinish(v) \/ WorkerLeave(v)
             \/ WorkerCatch(v)
    BY <2>5 DEF TaskComplete, TaskCompleted, WorkerFinish, WorkerLeave, WorkerCatch,
                GotoW, TypeOK
  <2> QED
    BY <1>1, <2>1, <2>2, <2>3, <2>4, <2>5 DEF WorkerStep
<1>2. CASE MainStep \/ MainCall \/ Spurious
  <2>1. UNCHANGED <<wpc, task>>
    BY <1>2, MainOneThread DEF InQueue, poolVars
  <2> QED
    BY <2>1
<1>3. CASE UNCHANGED vars
  BY <1>3 DEF vars, poolVars
<1> QED
  BY <1>1, <1>2, <1>3 DEF Next

LEMMA FreshStep ==
    ASSUME TypeOK, ControlInv, PlaceInv, RefusedInv, FreshInv, InlineInv,
           TypeOK', ControlInv', [Next]_vars
    PROVE  FreshInv' /\ InlineInv'
<1> USE PlaceTypes, PoolFacts, JobFacts
<1>0. QueueMoved \/ PoolMove
  BY Moves
<1>1. \A k \in Task :
        /\ future[k] \notin {"none", "pending"} => future'[k] = future[k]
        /\ future[k] # "none" => future'[k] # "none"
  BY <1>0, FutureMoves
<1>2. ASSUME NEW k \in Task, future[k] = "none", future'[k] # "none"
      PROVE  \/ \E t \in Threads : SubmitJob(t, k)
             \/ k = Plain(next) /\ \E r \in {"value", "exception"} : RunAtOnce(r)
  BY <1>0, <1>2, FutureMoves
<1>3. ASSUME NEW n \in Events, future[Ordered(n)] = "none", future'[Ordered(n)] # "none"
      PROVE  \E w \in Workers : task'[w] = Plain(n) /\ wpc'[w] = "submitting"
  <2>1. PICK t \in Threads : SubmitJob(t, Ordered(n))
    BY <1>2, <1>3
  <2>2. t # Main /\ Ordered(n) \in Task
    BY <2>1, SubmitBy
  <2>3. t \in Workers /\ wpc'[t] = "submitting" /\ task'[t] = Plain(Ordered(n).event)
    BY <2>1, <2>2, SubmitBy
  <2> QED
    BY <2>3
\* Each part of the invariant in turn.
<1>4. \A t \in Threads : Submitting'[t] \in Task => future'[Submitting'[t]] # "none"
  <2> DEFINE Goal == \A t \in Threads : Submitting'[t] \in Task => future'[Submitting'[t]] # "none"
  <2>1. ASSUME Submitting' = Submitting PROVE Goal
    BY <1>1, <2>1 DEF FreshInv
  <2>2. ASSUME NEW t \in Threads, NEW j \in Task, SubmitJob(t, j) PROVE Goal
    <3>1. /\ Submitting' = [Submitting EXCEPT ![t] = j]
          /\ future' = [future EXCEPT ![j] = "pending"]
      BY <2>2 DEF SubmitJob
    <3> QED
      BY <1>1, <3>1 DEF FreshInv
  <2>3. ASSUME NEW t \in Threads, Answer(t) PROVE Goal
    <3>1. Submitting' = [Submitting EXCEPT ![t] = NoJob]
      BY <2>3 DEF Answer
    <3> QED
      BY <1>1, <3>1 DEF FreshInv
  <2>4. \/ Submitting' = Submitting
        \/ \E t \in Threads, j \in Task : SubmitJob(t, j)
        \/ \E t \in Threads : Answer(t)
    BY <1>0 DEF QueueMoved, PoolMove, Calm, EndJob, CountOff, Forget, DropAll, Dismiss, Lose,
                RunAtOnce
  <2> QED
    BY <2>1, <2>2, <2>3, <2>4
<1>5. \A n \in Events :
        future'[Plain(n)] # "none" <=> n < next' \/ (n = next' /\ mpc' = "submitting")
  <2> SUFFICES ASSUME NEW n \in Events
               PROVE  future'[Plain(n)] # "none"
                        <=> n < next' \/ (n = next' /\ mpc' = "submitting")
    OBVIOUS
  <2>1. Plain(n) \in Task /\ (next \in Events => Plain(next) \in Task) /\ n \in Nat
        /\ \A m : Plain(m) = Plain(n) => m = n
    <3>1. \A m : Plain(m).event = m
      BY JobFacts
    <3> QED
      BY <3>1
  <2>2. future[Plain(n)] # "none" <=> n < next \/ (n = next /\ mpc = "submitting")
    BY DEF FreshInv
  <2>3. CASE next' = next /\ (mpc' = "submitting" <=> mpc = "submitting")
    <3>1. ASSUME NEW t \in Threads, SubmitJob(t, Plain(n)) PROVE FALSE
      <4>1. t = Main => mpc' = "submitting" /\ mpc # "submitting"
        BY <2>1, <3>1, SubmitBy
      <4>2. t # Main => Plain(n).ordered
        BY <2>1, <3>1, SubmitBy
      <4> QED
        BY <2>3, <4>1, <4>2
    <3>2. ASSUME NEW r, RunAtOnce(r) PROVE FALSE
      BY <2>3, <3>2 DEF RunAtOnce
    <3>3. future'[Plain(n)] # "none" <=> future[Plain(n)] # "none"
      BY <1>1, <1>2, <2>1, <3>1, <3>2
    <3> QED
      BY <2>2, <2>3, <3>3
  <2>4. CASE /\ next' = next /\ mpc' = "submitting" /\ mpc # "submitting"
             /\ future' = [future EXCEPT ![Plain(next)] = "pending"]
    <3>1. future'[Plain(n)] # "none" <=> n = next \/ future[Plain(n)] # "none"
      BY <2>1, <2>4
    <3> QED
      BY <2>2, <2>4, <3>1
  <2>5. CASE next' = next + 1 /\ mpc = "submitting" /\ mpc' = "idle"
    <3>1. ASSUME NEW t \in Threads, SubmitJob(t, Plain(n)) PROVE FALSE
      <4>1. t = Main => mpc # "submitting"
        BY <2>1, <3>1, SubmitBy
      <4>2. t # Main => Plain(n).ordered
        BY <2>1, <3>1, SubmitBy
      <4> QED
        BY <2>5, <4>1, <4>2
    <3>2. Plain(n) = Plain(next) => future[Plain(n)] # "none"
      BY <2>1, <2>2, <2>5
    <3>3. future'[Plain(n)] # "none" <=> future[Plain(n)] # "none"
      BY <1>1, <1>2, <2>1, <3>1, <3>2
    <3> QED
      BY <2>1, <2>2, <2>5, <3>3
  <2>6. CASE /\ next' = next + 1 /\ mpc = "idle" /\ mpc' = "idle"
             /\ \E r \in {"value", "exception"} :
                    future' = [future EXCEPT ![Plain(next)] = r]
    <3>1. future'[Plain(n)] # "none" <=> n = next \/ future[Plain(n)] # "none"
      BY <2>1, <2>6
    <3> QED
      BY <2>1, <2>2, <2>6, <3>1
  <2> QED
    BY <2>3, <2>4, <2>5, <2>6, NextMoves
<1>6. \A n \in Events : future'[Ordered(n)] # "none" =>
        \/ future'[Plain(n)] \in {"value", "exception"}
        \/ \E w \in Workers : task'[w] = Plain(n) /\ wpc'[w] \in {"submitting", "ran"}
  <2> SUFFICES ASSUME NEW n \in Events, future'[Ordered(n)] # "none"
               PROVE  \/ future'[Plain(n)] \in {"value", "exception"}
                      \/ \E w \in Workers : /\ task'[w] = Plain(n)
                                             /\ wpc'[w] \in {"submitting", "ran"}
    OBVIOUS
  <2>1. CASE future[Ordered(n)] = "none"
    BY <1>3, <2>1
  <2>2. CASE future[Plain(n)] \in {"value", "exception"}
    BY <1>1, <2>2
  <2>3. ASSUME NEW w \in Workers, task[w] = Plain(n), wpc[w] \in {"submitting", "ran"}
        PROVE  \/ future'[Plain(n)] \in {"value", "exception"}
               \/ task'[w] = Plain(n) /\ wpc'[w] \in {"submitting", "ran"}
    BY <2>3, SubmitterMoves
  <2> QED
    BY <2>1, <2>2, <2>3 DEF FreshInv
<1>7. InlineInv'
  <2> SUFFICES ASSUME threads' = {}, NEW k \in Task, future'[k] = "pending"
               PROVE  FALSE
    BY DEF InlineInv, AllDone
  <2>1. threads = {}
    BY PoolKept DEF threads
  <2>2. future[k] # "pending"
    BY <2>1 DEF InlineInv, AllDone
  <2>3. PICK t \in Threads : SubmitJob(t, k)
    BY <1>0, <2>2, FutureMoves
  <2> QED
    BY <2>3, SubmitBy
<1> QED
  BY <1>4, <1>5, <1>6, <1>7 DEF FreshInv

-----------------------------------------------------------------------------
(***************************************************************************)
(* No push is refused while the queue is valid.                            *)
(***************************************************************************)
\* The queue has room for the ordered job of a worker.
LEMMA RoomForOrdered ==
    ASSUME TypeOK, ControlInv, ReserveInv, NEW w \in Workers, at[w] = "push_priority"
    PROVE  Cardinality(priority_queue) < MaxPriority
<1> USE PoolFacts
<1>1. wpc[w] = "submitting" /\ Buffered
  BY DEF ControlInv, WorkerInv, InQueueOfPop, InQueueOfComplete
<1>2. w \in MayPush
  BY <1>1 DEF MayPush
<1>3. IsFiniteSet(MayPush)
  <2>1. MayPush \subseteq Threads
    BY DEF MayPush
  <2> QED
    BY <2>1, FS_Subset, ThreadPoolAssumption
<1>4. Cardinality(MayPush) \in Nat \ {0}
  BY <1>2, <1>3, FS_CardinalityType, FS_EmptySet
<1>5. Cardinality(priority_queue) \in Nat
  BY FS_CardinalityType DEF ReserveInv
<1> QED
  BY <1>1, <1>4, <1>5, SafeQueueAssumption DEF ReserveInv

LEMMA RefusedStep ==
    ASSUME TypeOK, ControlInv, ReserveInv, RefusedInv, ControlInv', [Next]_vars
    PROVE  RefusedInv'
<1> USE PoolFacts
<1> SUFFICES ASSUME NEW t \in Threads, Sent'[t] # NoJob, at'[t] = "idle", valid'
             PROVE  FALSE
  BY DEF RefusedInv
<1>1. valid
  <2>1. exception' = "none" => exception = "none"
    BY DEF Next, WorkerStep, MainStep, MainCall, Spurious, vars, poolVars, TypeOK, WorkerStart,
           WorkerPop, WorkerPopped, TaskSubmit, TaskSubmitted, TaskComplete, TaskCompleted,
           TaskReturn, TaskThrow, WorkerFinish, WorkerLeave, WorkerCatch, InQueue, Submitted,
           WaitSleep, WaitReturn, Join, Submit, SubmitInline, Wait, Destroy, Wakeup,
           WaitSpurious
  <2>2. done => done'
    BY DEF Next, WorkerStep, MainStep, MainCall, Spurious, vars, poolVars, TypeOK, WorkerStart,
           WorkerPop, WorkerPopped, TaskSubmit, TaskSubmitted, TaskComplete, TaskCompleted,
           TaskReturn, TaskThrow, WorkerFinish, WorkerLeave, WorkerCatch, InQueue, Submitted,
           WaitSleep, WaitReturn, Join, Submit, SubmitInline, Wait, Destroy, Wakeup,
           WaitSpurious
  <2> QED
    BY <2>1, <2>2 DEF ControlInv, StopInv, TypeOK
\* Whoever stays where it is was refused before.
<1>2. ASSUME Sent'[t] = Sent[t], at'[t] = at[t] PROVE FALSE
  BY <1>1, <1>2 DEF RefusedInv
<1>3. ASSUME NEW u \in Threads, OneThread(u), u # t PROVE FALSE
  <2>1. Sent'[t] = Sent[t] /\ at'[t] = at[t]
    BY <1>3, OthersKeep DEF OneThread, FrameKept
  <2> QED
    BY <1>2, <2>1
<1>4. t = Main => mpc' = "submitting"
  BY DEF Sent, Submitting
<1>5. t # Main => t \in Workers /\ wpc'[t] = "submitting"
  BY DEF Sent, Submitting, Workers
<1>6. ASSUME NEW u \in Threads, InQueue(u) PROVE FALSE
  <2>1. u = t /\ UNCHANGED <<wpc, mpc, task, next>>
    BY <1>3, <1>6, QueueOneThread
  <2>2. PushStep(t)
    <3>1. CASE t = Main
      <4>1. at[Main] \in {"push", "pushed", "idle"}
        BY DEF ControlInv, MainInv
      <4> QED
        BY <1>6, <2>1, <3>1, <4>1, PopControl, CompleteControl DEF InQueue, QueueStep
    <3>2. CASE t # Main
      <4>1. InQueueOfSubmit(t)
        BY <1>5, <2>1, <3>2 DEF ControlInv, WorkerInv
      <4> QED
        BY <1>6, <2>1, <4>1, PopControl, CompleteControl DEF InQueue, QueueStep, InQueueOfSubmit
    <3> QED
      BY <3>1, <3>2
  <2>3. CASE PushRefused(t)
    <3>1. InPush(t) /\ Full(t) /\ ~block[t]
      BY <1>1, <2>3 DEF PushRefused
    <3>2. CASE t = Main
      BY <3>1, <3>2 DEF InPush, ControlInv, MainInv
    <3>3. CASE t # Main
      <4>1. InQueueOfSubmit(t) /\ t \in Workers
        BY <1>5, <2>1, <3>3 DEF ControlInv, WorkerInv
      <4>2. at[t] = "push_priority"
        BY <3>1, <4>1 DEF InPush, InQueueOfSubmit
      <4>3. Cardinality(priority_queue) < MaxPriority
        BY <4>1, <4>2, RoomForOrdered
      <4>4. Cardinality(priority_queue) \in Nat
        BY FS_CardinalityType DEF ReserveInv
      <4> QED
        BY <3>1, <4>2, <4>3, <4>4, SafeQueueAssumption DEF Full
    <3> QED
      BY <3>2, <3>3
  <2>4. CASE PushNotify(t)
    <3>1. ok'[t] = TRUE
      BY <2>4, LeaveOthers DEF PushNotify
    <3> QED
      BY <3>1 DEF Sent, Open
  <2>5. CASE PushSleep(t)
    <3>1. at'[t] = at[t]
      BY <2>5 DEF PushSleep, frames
    <3> QED
      BY <2>5, <3>1 DEF PushSleep, InPush
  <2>6. CASE PushStandard(t) \/ PushPriority(t)
    <3>1. Goto(t, "pushed")
      BY <2>6 DEF PushStandard, PushPriority
    <3>2. at'[t] = "pushed"
      BY <3>1, GotoOthers
    <3> QED
      BY <3>2
  <2> QED
    BY <2>2, <2>3, <2>4, <2>5, <2>6 DEF PushStep
<1>7. ASSUME NEW w \in Workers, WorkerStep(w), ~InQueue(w) PROVE FALSE
  <2>1. w = t /\ t # Main
    BY <1>3, <1>7, WorkerOneThread
  <2>2. TaskSubmit(w)
    BY <1>5, <1>7, <2>1
    DEF WorkerStep, WorkerStart, WorkerPop, WorkerPopped, TaskSubmitted, TaskComplete,
        TaskCompleted, TaskReturn, TaskThrow, WorkerFinish, WorkerLeave, WorkerCatch, GotoW,
        TypeOK
  <2>3. at'[w] = "push_priority"
    BY <2>2 DEF TaskSubmit, CallPushPriority, Enter, TypeOK, QueueTypeOK
  <2> QED
    BY <2>1, <2>3
<1>8. ASSUME MainStep \/ MainCall \/ Spurious, ~InQueue(Main) PROVE FALSE
  <2>1. (\A u \in Workers : FrameKept(u)) /\ UNCHANGED <<wpc, task, pool>>
    BY <1>8, MainOneThread
  <2>2. t = Main
    <3>1. CASE t # Main
      <4>1. t \in Workers /\ Sent'[t] = Sent[t] /\ at'[t] = at[t]
        BY <1>5, <2>1, <3>1, MainKeep DEF FrameKept
      <4> QED
        BY <1>2, <4>1
    <3> QED
      BY <3>1
  <2>3. CASE Submit
    <3>1. at'[Main] = "push"
      BY <2>3 DEF Submit, CallPush, Enter, TypeOK, QueueTypeOK
    <3> QED
      BY <2>2, <3>1
  <2>4. CASE ~Submit
    <3>1. UNCHANGED <<frames, mpc, next>>
      BY <1>4, <1>8, <2>2, <2>4
      DEF MainStep, MainCall, Spurious, Submitted, WaitSleep, WaitReturn, Join, SubmitInline,
          Wait, Destroy, Wakeup, WaitSpurious, SpuriousWake, poolVars, queueVars
    <3>2. Sent'[Main] = Sent[Main] /\ at'[Main] = at[Main]
      BY <3>1 DEF Sent, Submitting, Open, frames
    <3> QED
      BY <1>2, <2>2, <3>2
  <2> QED
    BY <2>3, <2>4
<1>9. CASE UNCHANGED vars
  <2>1. UNCHANGED <<at, ok, wpc, task, mpc, next>>
    BY <1>9 DEF vars, queueVars, poolVars, frames
  <2>2. \A u \in Threads : Open(u)' = Open(u)
    BY <2>1 DEF Open
  <2>3. Sent'[t] = Sent[t]
    BY <2>1, <2>2 DEF Sent, Submitting
  <2> QED
    BY <1>2, <2>1, <2>3
<1> QED
  BY <1>6, <1>7, <1>8, <1>9 DEF Next

-----------------------------------------------------------------------------
(***************************************************************************)
(* The places reserved in the priority queue.                              *)
(***************************************************************************)
LEMMA MayPushFinite ==
    ASSUME TypeOK
    PROVE  /\ IsFiniteSet(Workers) /\ Cardinality(Workers) \in Nat
           /\ IsFiniteSet(MayPush) /\ Cardinality(MayPush) \in Nat
           /\ IsFiniteSet(MayPush') /\ Cardinality(MayPush)' \in Nat
           /\ Cardinality(MayPush') <= Cardinality(Workers)
<1>1. IsFiniteSet(Workers)
  BY FS_Subset, ThreadPoolAssumption, PoolFacts
<1>2. MayPush \subseteq Workers /\ MayPush' \subseteq Workers
  BY DEF MayPush
<1> QED
  BY <1>1, <1>2, FS_Subset, FS_CardinalityType

\* One element more.
LEMMA AddOne ==
    ASSUME NEW S, IsFiniteSet(S), NEW x
    PROVE  /\ IsFiniteSet(S \cup {x})
           /\ Cardinality(S) \in Nat
           /\ Cardinality(S \cup {x}) \in Nat
           /\ Cardinality(S \cup {x}) <= Cardinality(S) + 1
           /\ x \notin S => Cardinality(S \cup {x}) = Cardinality(S) + 1
<1>1. Cardinality(S) \in Nat
  BY FS_CardinalityType
<1>2. /\ IsFiniteSet(S \cup {x})
      /\ Cardinality(S \cup {x}) = IF x \in S THEN Cardinality(S) ELSE Cardinality(S) + 1
  BY FS_AddElement
<1> QED
  BY <1>1, <1>2

\* Fewer workers that may push, and fewer jobs in the priority queue.
LEMMA ReserveShrink ==
    ASSUME TypeOK, ReserveInv, UNCHANGED pool, MayPush' \subseteq MayPush,
           priority_queue' \subseteq priority_queue
    PROVE  ReserveInv'
<1>1. /\ IsFiniteSet(priority_queue') /\ Cardinality(priority_queue') \in Nat
      /\ Cardinality(priority_queue') <= Cardinality(priority_queue)
      /\ Cardinality(priority_queue) \in Nat
  BY FS_Subset, FS_CardinalityType DEF ReserveInv
<1>2. /\ Cardinality(MayPush') <= Cardinality(MayPush)
      /\ Cardinality(MayPush') \in Nat /\ Cardinality(MayPush) \in Nat
  BY MayPushFinite, FS_Subset, FS_CardinalityType
<1>3. Buffered' = Buffered
  BY DEF Buffered
<1> QED
  BY <1>1, <1>2, <1>3, SafeQueueAssumption DEF ReserveInv

\* A worker gets an ordered job: one job less waits, one worker more may push.
LEMMA ReservePop ==
    ASSUME TypeOK, ReserveInv, UNCHANGED pool, NEW w \in Workers, MayPush' \subseteq MayPush \cup {w},
           NEW e \in priority_queue, priority_queue' = priority_queue \ {e}
    PROVE  ReserveInv'
<1>1. /\ IsFiniteSet(priority_queue') /\ Cardinality(priority_queue') \in Nat
      /\ Cardinality(priority_queue') = Cardinality(priority_queue) - 1
      /\ Cardinality(priority_queue) \in Nat
  BY FS_RemoveElement, FS_CardinalityType DEF ReserveInv
<1>2. /\ Cardinality(MayPush') <= Cardinality(MayPush) + 1
      /\ Cardinality(MayPush') \in Nat /\ Cardinality(MayPush) \in Nat
  <2>1. /\ IsFiniteSet(MayPush \cup {w})
        /\ Cardinality(MayPush \cup {w}) <= Cardinality(MayPush) + 1
    BY MayPushFinite, AddOne
  <2>2. Cardinality(MayPush') <= Cardinality(MayPush \cup {w})
    BY <2>1, FS_Subset
  <2>3. Cardinality(MayPush \cup {w}) \in Nat
    BY <2>1, FS_CardinalityType
  <2> QED
    BY <2>1, <2>2, <2>3, MayPushFinite
<1>3. Buffered' = Buffered
  BY DEF Buffered
<1> QED
  BY <1>1, <1>2, <1>3, SafeQueueAssumption DEF ReserveInv

\* A worker pushes its ordered job.
LEMMA ReservePush ==
    ASSUME TypeOK, ReserveInv, UNCHANGED pool, NEW w \in MayPush, MayPush' \subseteq MayPush \ {w},
           NEW e, priority_queue' = priority_queue \cup {e}
    PROVE  ReserveInv'
<1>1. /\ IsFiniteSet(priority_queue') /\ Cardinality(priority_queue') \in Nat
      /\ Cardinality(priority_queue') <= Cardinality(priority_queue) + 1
      /\ Cardinality(priority_queue) \in Nat
  BY AddOne DEF ReserveInv
<1>2. /\ Cardinality(MayPush') <= Cardinality(MayPush) - 1
      /\ Cardinality(MayPush') \in Nat /\ Cardinality(MayPush) \in Nat
  <2>1. /\ IsFiniteSet(MayPush \ {w})
        /\ Cardinality(MayPush \ {w}) = Cardinality(MayPush) - 1
    BY MayPushFinite, FS_RemoveElement
  <2>2. Cardinality(MayPush') <= Cardinality(MayPush \ {w})
    BY <2>1, FS_Subset
  <2> QED
    BY <2>1, <2>2, MayPushFinite
<1>3. Buffered' = Buffered
  BY DEF Buffered
<1> QED
  BY <1>1, <1>2, <1>3, SafeQueueAssumption DEF ReserveInv

\* A worker takes a plain job only when there is a place for every worker.
LEMMA ReserveTake ==
    ASSUME TypeOK, ReserveInv, UNCHANGED <<pool, priority_queue>>, CanPopStandard
    PROVE  ReserveInv'
<1>1. Cardinality(priority_queue) \in Nat
  BY FS_CardinalityType DEF ReserveInv
<1>2. Cardinality(priority_queue) + BufferLeft <= MaxPriority
  BY DEF CanPopStandard
<1>3. Buffered' = Buffered /\ (Buffered => BufferLeft = Cardinality(Workers))
  BY PoolFacts DEF Buffered
<1>4. /\ Cardinality(MayPush') <= Cardinality(Workers)
      /\ Cardinality(MayPush') \in Nat /\ Cardinality(Workers) \in Nat
  BY MayPushFinite
<1> QED
  BY <1>1, <1>2, <1>3, <1>4, SafeQueueAssumption DEF ReserveInv

LEMMA MayPushOthers ==
    ASSUME NEW t \in Threads, OneThread(t)
    PROVE  \A u \in Workers : u # t => (u \in MayPush' <=> u \in MayPush)
BY DEF OneThread, FrameKept, MayPush, Workers

LEMMA ReserveStep ==
    ASSUME TypeOK, ControlInv, ReserveInv, TypeOK', [Next]_vars
    PROVE  ReserveInv'
<1> USE PoolFacts
<1>0. UNCHANGED pool
  BY PoolKept
<1>1. ASSUME NEW w \in Workers, InQueue(w) PROVE ReserveInv'
  <2>1. UNCHANGED <<wpc, task>> /\ OneThread(w)
    BY <1>1, QueueOneThread
  <2>2. \A u \in Workers : u # w => (u \in MayPush' <=> u \in MayPush)
    BY <2>1, MayPushOthers
  <2>3. MayPush' \subseteq Workers /\ MayPush \subseteq Workers
    BY DEF MayPush
  <2>4. (w \in MayPush' => w \in MayPush) => MayPush' \subseteq MayPush
    BY <2>2, <2>3
  <2>5. CASE PopStep(w)
    <3>1. wpc[w] = "popping" /\ InQueueOfPop(w)
      BY <2>5, PopControl DEF ControlInv, WorkerInv, InQueueOfSubmit, InQueueOfComplete
    <3>2. w \in MayPush' <=> job'[w] \in Task
      BY <2>1, <3>1 DEF MayPush
    <3>3. w \in MayPush <=> job[w] \in Task
      BY <3>1 DEF MayPush
    <3>4. CASE PopInvalid(w)
      <4>1. job'[w] = NoJob /\ UNCHANGED priority_queue
        BY <3>4, LeaveOthers DEF PopInvalid, data
      <4> QED
        BY <1>0, <2>4, <3>2, <4>1, ReserveShrink
    <3>5. CASE PopSleep(w) \/ PopNotifyPop(w)
      <4>1. job' = job /\ UNCHANGED priority_queue
        BY <3>5 DEF PopSleep, PopNotifyPop, Goto, data, frames
      <4> QED
        BY <1>0, <2>4, <3>2, <3>3, <4>1, ReserveShrink
    <3>6. CASE PopNotifyPush(w)
      <4>1. job'[w] = job[w] /\ UNCHANGED priority_queue
        BY <3>6, LeaveOthers DEF PopNotifyPush, data
      <4> QED
        BY <1>0, <2>4, <3>2, <3>3, <4>1, ReserveShrink
    <3>7. CASE PopStandard(w)
      BY <1>0, <3>7, ReserveTake DEF PopStandard
    <3>8. CASE PopPriority(w)
      <4>1. PICK e \in priority_queue : priority_queue' = priority_queue \ {e}
        BY <3>8 DEF PopPriority, Top
      <4>2. MayPush' \subseteq MayPush \cup {w}
        BY <2>2, <2>3
      <4> QED
        BY <1>0, <4>1, <4>2, ReservePop
    <3> QED
      BY <2>5, <3>4, <3>5, <3>6, <3>7, <3>8 DEF PopStep
  <2>6. CASE PushStep(w)
    <3>1. wpc[w] = "submitting" /\ InQueueOfSubmit(w)
      BY <2>6, PushControl DEF ControlInv, WorkerInv, InQueueOfPop, InQueueOfComplete
    <3>2. w \in MayPush <=> at[w] = "push_priority"
      BY <3>1 DEF MayPush
    <3>3. w \in MayPush' <=> at'[w] = "push_priority"
      BY <2>1, <3>1 DEF MayPush
    <3>4. CASE PushPriority(w)
      <4>1. at[w] = "push_priority" /\ Goto(w, "pushed")
        BY <3>4 DEF PushPriority
      <4>2. at'[w] = "pushed"
        BY <4>1, GotoOthers
      <4>3. w \in MayPush /\ MayPush' \subseteq MayPush \ {w}
        BY <2>2, <2>3, <3>2, <3>3, <4>1, <4>2
      <4>4. priority_queue' = priority_queue \cup {[id |-> num[w], job |-> job[w]]}
        BY <3>4 DEF PushPriority
      <4> QED
        BY <1>0, <4>3, <4>4, ReservePush
    <3>5. CASE ~PushPriority(w)
      <4>1. UNCHANGED priority_queue
        BY <2>6, <3>5 DEF PushStep, PushRefused, PushSleep, PushStandard, PushNotify, data
      <4>2. at'[w] \in {at[w], "pushed", "idle"}
        BY <2>6, PushControl
      <4> QED
        BY <1>0, <2>4, <3>2, <3>3, <4>1, <4>2, ReserveShrink
    <3> QED
      BY <3>4, <3>5
  <2>7. CASE CompleteStep(w)
    <3>1. wpc[w] = "completing"
      BY <2>7, CompleteControl DEF ControlInv, WorkerInv, InQueueOfPop, InQueueOfSubmit
    <3>2. w \notin MayPush' /\ UNCHANGED priority_queue
      BY <2>1, <2>7, <3>1, CompleteControl DEF MayPush
    <3> QED
      BY <1>0, <2>4, <3>2, ReserveShrink
  <2> QED
    BY <1>1, <2>5, <2>6, <2>7 DEF InQueue, QueueStep
<1>2. ASSUME NEW w \in Workers, WorkerStep(w), ~InQueue(w) PROVE ReserveInv'
  <2>1. OneThread(w)
    BY <1>2, WorkerOneThread
  <2>2. MayPush' \subseteq Workers /\ \A u \in Workers : u # w => (u \in MayPush' <=> u \in MayPush)
    BY <2>1, MayPushOthers DEF MayPush
  <2>3. priority_queue' \subseteq priority_queue
    BY <1>2 DEF WorkerStep, WorkerStart, WorkerPop, WorkerPopped, TaskSubmit, TaskSubmitted,
                TaskComplete, TaskCompleted, TaskReturn, TaskThrow, WorkerFinish, WorkerLeave,
                WorkerCatch, CallPop, CallPushPriority, CallComplete, Enter, Invalidate,
                queueVars, data
  <2>4. ASSUME w \in MayPush' PROVE w \in MayPush
    <3>1. CASE WorkerPop(w)
      <4>1. wpc'[w] = "popping" /\ job'[w] = NoJob
        BY <3>1 DEF WorkerPop, GotoW, CallPop, Enter, TypeOK, QueueTypeOK
      <4> QED
        BY <2>4, <4>1 DEF MayPush
    <3>2. CASE WorkerPopped(w)
      <4>1. wpc[w] = "popping" /\ UNCHANGED job
        BY <3>2 DEF WorkerPopped, queueVars, frames
      <4>2. wpc'[w] = "run" \/ wpc'[w] = "loop"
        BY <3>2 DEF WorkerPopped, GotoW, TypeOK
      <4>3. wpc'[w] = "run" => ok[w] /\ at[w] = "idle"
        BY <3>2 DEF WorkerPopped, GotoW, TypeOK
      <4>4. ok[w] /\ at[w] = "idle" => job[w] \in Task
        BY <4>1 DEF ControlInv, WorkerInv, InQueueOfPop
      <4> QED
        BY <2>4, <4>1, <4>2, <4>3, <4>4 DEF MayPush
    <3>3. CASE TaskSubmit(w)
      BY <3>3 DEF TaskSubmit, MayPush
    <3>4. CASE ~WorkerPop(w) /\ ~WorkerPopped(w) /\ ~TaskSubmit(w)
      <4>1. wpc'[w] \in {"loop", "catch", "ran", "completing", "finish", "exited"}
        BY <1>2, <3>4
        DEF WorkerStep, WorkerStart, TaskSubmitted, TaskComplete, TaskCompleted, TaskReturn,
            TaskThrow, WorkerFinish, WorkerLeave, WorkerCatch, GotoW, TypeOK
      <4> QED
        BY <2>4, <4>1 DEF MayPush
    <3> QED
      BY <3>1, <3>2, <3>3, <3>4
  <2>5. MayPush' \subseteq MayPush
    BY <2>2, <2>4
  <2> QED
    BY <1>0, <2>3, <2>5, ReserveShrink
<1>3. ASSUME MainStep \/ MainCall \/ Spurious PROVE ReserveInv'
  <2>1. (\A u \in Workers : FrameKept(u)) /\ UNCHANGED <<wpc, task>>
    <3>1. CASE InQueue(Main)
      BY <3>1, QueueOneThread DEF OneThread
    <3>2. CASE ~InQueue(Main)
      BY <1>3, <3>2, MainOneThread
    <3> QED
      BY <3>1, <3>2
  <2>2. MayPush' = MayPush
    BY <2>1 DEF MayPush, FrameKept
  <2>3. priority_queue' \subseteq priority_queue
    <3>1. CASE InQueue(Main)
      <4>1. at[Main] \in {"push", "pushed", "idle"}
        BY DEF ControlInv, MainInv
      <4>2. PushStep(Main) /\ ~PushPriority(Main)
        BY <3>1, <4>1, PopControl, CompleteControl DEF InQueue, QueueStep, PushPriority
      <4> QED
        BY <4>2 DEF PushStep, PushRefused, PushSleep, PushStandard, PushNotify, data
    <3>2. CASE ~InQueue(Main)
      BY <1>3, <3>2
      DEF MainStep, MainCall, Spurious, Submitted, WaitSleep, WaitReturn, Join, Submit,
          SubmitInline, Wait, Destroy, Wakeup, WaitSpurious, SpuriousWake, CallPush, Enter,
          Invalidate, poolVars, queueVars, data
    <3> QED
      BY <3>1, <3>2
  <2> QED
    BY <1>0, <2>2, <2>3, ReserveShrink
<1>4. CASE UNCHANGED vars
  <2>1. UNCHANGED <<priority_queue, at, job, wpc>>
    BY <1>4 DEF vars, queueVars, poolVars, data, frames
  <2>2. MayPush' = MayPush
    BY <2>1 DEF MayPush
  <2> QED
    BY <1>0, <2>1, <2>2, ReserveShrink
<1> QED
  BY <1>1, <1>2, <1>3, <1>4 DEF Next

-----------------------------------------------------------------------------
(***************************************************************************)
(* The identifiers that complete() has erased, and the count of the jobs.  *)
(***************************************************************************)
LEMMA CompletedStep ==
    ASSUME TypeOK, CompletedInv, [Next]_vars
    PROVE  CompletedInv'
<1> USE PoolFacts
<1>0. current_id \in Nat
  BY DEF TypeOK, QueueTypeOK
<1>1. ASSUME UNCHANGED <<completed, completed_ids, current_id>> PROVE CompletedInv'
  BY <1>1 DEF CompletedInv
<1>2. ASSUME NEW ids, ids \subseteq completed', completed \subseteq completed',
             current_id \in ids, completed_ids' = ids \ {current_id}, current_id' = current_id + 1
      PROVE  CompletedInv'
  <2>1. 0..(current_id' - 1) \subseteq (0..(current_id - 1)) \cup {current_id}
    BY <1>0, <1>2
  <2> QED
    BY <1>2, <2>1 DEF CompletedInv
<1>3. ASSUME NEW t \in Threads, QueueStep(t) PROVE CompletedInv'
  <2>1. CASE PopStep(t)
    BY <1>1, <2>1, PopControl
  <2>2. CASE PushStep(t)
    BY <1>1, <2>2, PushControl
  <2>3. CASE Complete(t)
    <3> DEFINE ids == completed_ids \cup {num[t]}
    <3>1. completed' = completed \cup {num[t]} /\ ids \subseteq completed'
      BY <2>3 DEF Complete, CompletedInv
    <3>2. CASE IsLeast(current_id, ids)
      <4>1. Advance(t, ids, current_id) /\ current_id \in ids
        BY <2>3, <3>2 DEF Complete, IsLeast
      <4>2. completed_ids' = ids \ {current_id} /\ current_id' = current_id + 1
        BY <4>1 DEF Advance
      <4> QED
        BY <1>2, <3>1, <4>1, <4>2
    <3>3. CASE ~IsLeast(current_id, ids)
      <4>1. completed_ids' = ids /\ UNCHANGED current_id
        BY <2>3, <3>3 DEF Complete
      <4> QED
        BY <3>1, <4>1 DEF CompletedInv
    <3> QED
      BY <3>2, <3>3
  <2>4. CASE CompleteNotify(t)
    BY <1>1, <2>4 DEF CompleteNotify, data
  <2>5. CASE CompleteScan(t)
    <3>1. UNCHANGED completed
      BY <2>5 DEF CompleteScan
    <3>2. PICK i \in Dereferenced(t) :
            IF i = current_id /\ i \in completed_ids
            THEN Advance(t, completed_ids, i)
            ELSE UNCHANGED <<completed_ids, current_id>>
      BY <2>5 DEF CompleteScan
    <3>3. CASE i = current_id /\ i \in completed_ids
      <4>1. completed_ids' = completed_ids \ {current_id} /\ current_id' = current_id + 1
        BY <3>2, <3>3 DEF Advance
      <4> QED
        BY <1>2, <3>1, <3>3, <4>1 DEF CompletedInv
    <3>4. CASE ~(i = current_id /\ i \in completed_ids)
      BY <1>1, <3>1, <3>2, <3>4
    <3> QED
      BY <3>3, <3>4
  <2> QED
    BY <1>3, <2>1, <2>2, <2>3, <2>4, <2>5 DEF QueueStep, CompleteStep
<1>4. ASSUME \A t \in Threads : ~InQueue(t) PROVE CompletedInv'
  <2>1. UNCHANGED <<completed, completed_ids, current_id>>
    BY <1>4
    DEF Next, WorkerStep, MainStep, MainCall, Spurious, vars, queueVars, data, WorkerStart,
        WorkerPop, WorkerPopped, TaskSubmit, TaskSubmitted, TaskComplete, TaskCompleted,
        TaskReturn, TaskThrow, WorkerFinish, WorkerLeave, WorkerCatch, Submitted,
        WaitSleep, WaitReturn, Join, Submit, SubmitInline, Wait, Destroy, Wakeup,
        WaitSpurious, SpuriousWake, CallPop, CallPush, CallPushPriority, CallComplete, Enter,
        Invalidate
  <2> QED
    BY <1>1, <2>1
<1> QED
  BY <1>3, <1>4 DEF InQueue

LEMMA TasksFinite ==
    /\ IsFiniteSet(Task)
    /\ \A S \in SUBSET Task : IsFiniteSet(S) /\ Cardinality(S) \in Nat
<1>1. IsFiniteSet(Events)
  <2>1. \A b \in Int : IsFiniteSet(0..b)
    BY FS_Interval
  <2>2. NumEvents - 1 \in Int
    BY ThreadPoolAssumption
  <2> QED
    BY <2>1, <2>2 DEF Events
<1>2. IsFiniteSet({Plain(n) : n \in Events}) /\ IsFiniteSet({Ordered(n) : n \in Events})
  <2> DEFINE p == [n \in Events |-> Plain(n)]
             o == [n \in Events |-> Ordered(n)]
             P == {Plain(n) : n \in Events}
             O == {Ordered(n) : n \in Events}
  <2>1. p \in Surjection(Events, P) /\ o \in Surjection(Events, O)
    BY DEF Surjection
  <2> HIDE DEF p, o, P, O
  <2>2. IsFiniteSet(P) /\ IsFiniteSet(O)
    BY <1>1, <2>1, FS_Surjection
  <2> QED
    BY <2>2 DEF P, O
<1>3. Task \subseteq {Plain(n) : n \in Events} \cup {Ordered(n) : n \in Events}
  BY JobFacts
<1>4. IsFiniteSet(Task)
  BY <1>2, <1>3, FS_Union, FS_Subset
<1> QED
  BY <1>4, FS_Subset, FS_CardinalityType

\* Neither set changes when no future gets or leaves a state that matters.
LEMMA CountStep ==
    ASSUME TypeOK, ControlInv, RefusedInv, PlaceInv, FreshInv, CountInv, [Next]_vars
    PROVE  CountInv'
<1> USE PlaceTypes, PoolFacts
<1>0. /\ QueueMoved \/ PoolMove
      /\ threads' = threads /\ run_cnt \in Int
      /\ threads # {} => run_cnt = Cardinality(Counted) - Cardinality(CountedOff)
      /\ Counted \subseteq Task /\ CountedOff \subseteq Task
  BY Moves, PoolKept DEF threads, CountInv, Counted, CountedOff, TypeOK
<1>1. /\ IsFiniteSet(Counted) /\ Cardinality(Counted) \in Nat
      /\ IsFiniteSet(CountedOff) /\ Cardinality(CountedOff) \in Nat
  BY <1>0, TasksFinite
<1>2. ASSUME Counted' = Counted, CountedOff' = CountedOff, UNCHANGED run_cnt
      PROVE  CountInv'
  BY <1>0, <1>2 DEF CountInv
\* A worker that has no job, or one that has not returned a value.
<1>3. ASSUME NEW w \in Workers, Hand[w] \in Task => Due(w) # "value",
             \A u \in Workers \ {w} : Hand'[u] = Hand[u],
             Hand'[w] \in Task => future[Hand'[w]] # "value",
             \A k \in Task : future'[k] = "value" <=> future[k] = "value"
      PROVE  CountedOff' = CountedOff
  <2>1. \A k \in Task : future[k] = "value" =>
            ((\A u \in Workers : Hand'[u] # k) <=> \A u \in Workers : Hand[u] # k)
    <3> SUFFICES ASSUME NEW k \in Task, future[k] = "value"
                 PROVE  (\A u \in Workers : Hand'[u] # k) <=> \A u \in Workers : Hand[u] # k
      OBVIOUS
    <3>1. Hand[w] # k
      BY <1>3 DEF PlaceInv
    <3>2. Hand'[w] # k
      BY <1>3
    <3> QED
      BY <1>3, <3>1, <3>2
  <2> QED
    BY <1>3, <2>1 DEF CountedOff
<1>4. ASSUME Hand' = Hand, \A k \in Task : future'[k] = "value" <=> future[k] = "value"
      PROVE  CountedOff' = CountedOff
  BY <1>4 DEF CountedOff
<1>5. ASSUME Submitting' = Submitting, \A k \in Task : future'[k] = "none" <=> future[k] = "none"
      PROVE  Counted' = Counted
  BY <1>5 DEF Counted
<1>6. \A k \in Task : Queued(k) => future[k] = "pending"
  BY DEF PlaceInv, Queued
<1>7. ASSUME NEW t \in Threads, QueueMove(t), UNCHANGED <<Submitting, run_cnt>>
      PROVE  CountInv'
  <2>1. UNCHANGED future
    BY <1>7 DEF QueueMove, Stay, TakePlain, TakeOrdered, Take, PutPlain, PutOrdered, Put
  <2>2. CASE Hand' = Hand
    BY <1>2, <1>4, <1>5, <1>7, <2>1, <2>2
  <2>3. ASSUME NEW j \in Task, Queued(j), t \in Workers, Take(t, j) PROVE CountInv'
    <3>1. /\ Hand[t] = NoJob /\ Hand' = [Hand EXCEPT ![t] = j]
          /\ future[j] = "pending"
      BY <1>6, <2>3 DEF Take
    <3>2. CountedOff' = CountedOff
      BY <1>3, <2>1, <2>3, <3>1
    <3> QED
      BY <1>2, <1>5, <1>7, <2>1, <3>2
  <2>4. CASE t \in Workers /\ TakePlain(t)
    <3>1. queue # <<>> /\ Take(t, Head(queue))
      BY <2>4 DEF TakePlain
    <3>2. 1 \in 1..Len(queue) /\ Head(queue) = queue[1] /\ queue[1] \in Task
      BY <3>1
    <3> QED
      BY <2>3, <2>4, <3>1, <3>2 DEF Queued
  <2>5. CASE t \in Workers /\ TakeOrdered(t)
    <3>1. PICK e \in priority_queue : Take(t, e.job)
      BY <2>5 DEF TakeOrdered
    <3>2. e.job \in Task
      OBVIOUS
    <3> QED
      BY <2>3, <2>5, <3>1, <3>2 DEF Queued
  <2> QED
    BY <1>7, <2>2, <2>4, <2>5 DEF QueueMove, Stay, PutPlain, PutOrdered, Put
<1>8. CASE Calm
  BY <1>2, <1>4, <1>5, <1>8 DEF Calm, Stay
<1>9. ASSUME NEW t \in Threads, NEW j \in Task, SubmitJob(t, j) PROVE CountInv'
  <2>1. /\ Submitting[t] = NoJob /\ Submitting' = [Submitting EXCEPT ![t] = j]
        /\ future[j] = "none" /\ future' = [future EXCEPT ![j] = "pending"]
        /\ UNCHANGED <<Hand, run_cnt>>
    BY <1>9 DEF SubmitJob
  <2>2. Submitting'[t] = j /\ \A u \in Threads \ {t} : Submitting'[u] = Submitting[u]
    BY <2>1
  <2>3. Counted' = Counted
    <3>1. j \notin Counted /\ j \notin Counted'
      BY <2>1, <2>2 DEF Counted
    <3>2. ASSUME NEW k \in Task, k # j PROVE k \in Counted' <=> k \in Counted
      <4>1. future'[k] = future[k]
        BY <2>1, <3>2
      <4>2. (\A u \in Threads : Submitting'[u] # k) <=> \A u \in Threads : Submitting[u] # k
        BY <2>1, <2>2, <3>2
      <4> QED
        BY <4>1, <4>2 DEF Counted
    <3>3. Counted' \subseteq Task
      BY DEF Counted
    <3>4. \A k \in Task : k \in Counted' <=> k \in Counted
      BY <3>1, <3>2
    <3> QED
      BY <1>0, <3>3, <3>4
  <2> QED
    BY <1>2, <1>4, <2>1, <2>3
<1>10. ASSUME NEW t \in Threads, Answer(t) PROVE CountInv'
  <2> DEFINE j == Submitting[t]
  <2>1. /\ j \in Task /\ Submitting' = [Submitting EXCEPT ![t] = NoJob]
        /\ run_cnt' = run_cnt + 1 /\ UNCHANGED Hand
        /\ \/ UNCHANGED future
           \/ Sent[t] = j /\ future' = [future EXCEPT ![j] = "nostate"]
    BY <1>10 DEF Answer
  <2>2. future[j] # "none" /\ (Sent[t] = j => future[j] = "pending")
    BY <2>1 DEF FreshInv, PlaceInv
  <2>3. \A u \in Threads : Submitting[u] = j => u = t
    BY <2>1, SubmittingDistinct
  <2>4. CountedOff' = CountedOff
    BY <1>4, <2>1, <2>2
  <2>5. j \notin Counted
    BY DEF Counted
  <2> HIDE DEF j
  <2>6. Counted' = Counted \cup {j}
    <3>1. j \in Counted'
      <4>1. \A u \in Threads : Submitting'[u] # j
        BY <2>1, <2>3
      <4> QED
        BY <2>1, <2>2, <4>1 DEF Counted
    <3>2. ASSUME NEW k \in Task, k # j PROVE k \in Counted' <=> k \in Counted
      <4>1. future'[k] = future[k]
        BY <2>1, <3>2
      <4>2. Submitting[t] = j
        BY DEF j
      <4>3. (\A u \in Threads : Submitting'[u] # k) <=> \A u \in Threads : Submitting[u] # k
        BY <2>1, <3>2, <4>2
      <4> QED
        BY <4>1, <4>3 DEF Counted
    <3>3. Counted' \subseteq Task
      BY DEF Counted
    <3> QED
      BY <1>0, <2>1, <3>1, <3>2, <3>3
  <2>7. Cardinality(Counted') = Cardinality(Counted) + 1
    BY <1>1, <2>5, <2>6, AddOne
  <2> QED
    BY <1>0, <1>1, <2>1, <2>4, <2>7 DEF CountInv
<1>11. ASSUME NEW w \in Workers, NEW r, EndJob(w, r) PROVE CountInv'
  <2>1. /\ Hand[w] \in Task /\ Due(w) = "pending"
        /\ Due(w)' = r /\ future' = [future EXCEPT ![Hand[w]] = r]
        /\ UNCHANGED <<Hand, Submitting, run_cnt>>
    BY <1>11 DEF EndJob
  <2>2. r # "none" /\ future[Hand[w]] = "pending"
    BY <2>1 DEF PlaceInv, Due
  <2>3. Counted' = Counted
    BY <1>5, <2>1, <2>2
  <2>4. CountedOff' = CountedOff
    BY <2>1, <2>2 DEF CountedOff
  <2> QED
    BY <1>2, <2>1, <2>3, <2>4
<1>12. ASSUME NEW w \in Workers, CountOff(w) PROVE CountInv'
  <2> DEFINE j == Hand[w]
  <2>1. /\ j \in Task /\ Hand' = [Hand EXCEPT ![w] = NoJob] /\ run_cnt' = run_cnt - 1
        /\ Due(w) = "value" /\ UNCHANGED <<future, Submitting>>
    BY <1>12 DEF CountOff, Lose
  <2>2. future[j] = "value" /\ \A u \in Workers : Hand[u] = j => u = w
    BY <2>1 DEF PlaceInv
  <2>3. Counted' = Counted
    BY <1>5, <2>1
  <2>4. j \notin CountedOff
    BY DEF CountedOff
  <2>5. Hand[w] = j
    OBVIOUS
  <2> HIDE DEF j
  <2>6. CountedOff' = CountedOff \cup {j}
    <3>1. j \in CountedOff'
      <4>1. \A u \in Workers : Hand'[u] # j
        BY <2>1, <2>2
      <4> QED
        BY <2>1, <2>2, <4>1 DEF CountedOff
    <3>2. ASSUME NEW k \in Task, k # j PROVE k \in CountedOff' <=> k \in CountedOff
      <4>1. (\A u \in Workers : Hand'[u] # k) <=> \A u \in Workers : Hand[u] # k
        BY <2>1, <2>5, <3>2
      <4> QED
        BY <2>1, <4>1 DEF CountedOff
    <3>3. CountedOff' \subseteq Task
      BY DEF CountedOff
    <3> QED
      BY <1>0, <2>1, <3>1, <3>2, <3>3
  <2>7. Cardinality(CountedOff') = Cardinality(CountedOff) + 1
    BY <1>1, <2>4, <2>6, AddOne
  <2> QED
    BY <1>0, <1>1, <2>1, <2>3, <2>7 DEF CountInv
<1>13. ASSUME NEW w \in Workers, Dismiss(w),
              \A k \in Task : future'[k] # future[k] => future[k] = "pending" /\ future'[k] = "broken"
       PROVE  CountInv'
  <2>1. /\ Hand[w] \in Task => Due(w) = "exception"
        /\ Hand' = [Hand EXCEPT ![w] = NoJob] /\ UNCHANGED <<Submitting, run_cnt>>
    BY <1>13 DEF Dismiss, Lose
  <2>2. Counted' = Counted
    BY <1>5, <1>13, <2>1
  <2>3. CountedOff' = CountedOff
    BY <1>3, <1>13, <2>1
  <2> QED
    BY <1>2, <2>1, <2>2, <2>3
<1>14. ASSUME NEW w \in Workers, Forget(w) PROVE CountInv'
  BY <1>13, <1>14 DEF Forget
<1>15. CASE DropAll
  <2>1. \A k \in Task : future'[k] # future[k] => future[k] = "pending" /\ future'[k] = "broken"
    BY <1>6, <1>15 DEF DropAll, Drop
  <2>2. CASE UNCHANGED <<Hand, Submitting, run_cnt>>
    <3>1. Counted' = Counted /\ CountedOff' = CountedOff
      BY <1>4, <1>5, <2>1, <2>2
    <3> QED
      BY <1>2, <2>2, <3>1
  <2> QED
    BY <1>13, <1>15, <2>1, <2>2 DEF DropAll
<1>16. ASSUME NEW r, RunAtOnce(r) PROVE CountInv'
  BY <1>0, <1>16 DEF RunAtOnce, CountInv
<1> QED
  BY <1>0, <1>7, <1>8, <1>9, <1>10, <1>11, <1>12, <1>14, <1>15, <1>16 DEF QueueMoved, PoolMove

-----------------------------------------------------------------------------
(***************************************************************************)
(* The invariant of the pool.                                              *)
(***************************************************************************)
LEMMA InitInv == Init => Inv
<1> SUFFICES ASSUME Init PROVE Inv
  OBVIOUS
<1>1. QueueInit /\ pool \in Pools /\ NumEvents \in Nat /\ Main \in Threads
  BY ThreadPoolAssumption DEF Init
<1>2. QueueTypeOK
  BY <1>1, QueueTypeRest
<1>3. pool \in Pool
  BY <1>1, ThreadPoolAssumption
<1>4. pool.events \in Nat
  BY <1>1, <1>3 DEF Pool
<1>5. TypeOK
  <2>1. future \in [Task -> States] /\ exception \in {"none", "thrown"}
    BY DEF Init, States
  <2>2. wpc \in [Workers -> WorkerLabels] /\ task \in [Workers -> Task \cup {NoJob}]
    BY DEF Init, WorkerLabels
  <2>3. mpc = "idle" /\ done = FALSE /\ asleep = FALSE /\ next = 0 /\ run_cnt = 0
    BY DEF Init
  <2>4. next \in 0..pool.events /\ run_cnt \in Int
    BY <1>4, <2>3
  <2>5. mpc \in MainLabels /\ done \in BOOLEAN /\ asleep \in BOOLEAN
    BY <2>3 DEF MainLabels
  <2> QED
    BY <1>1, <1>2, <2>1, <2>2, <2>4, <2>5 DEF TypeOK
<1> USE PoolFacts, JobFacts, <1>5
<1>6. /\ queue = <<>> /\ priority_queue = {} /\ completed = {} /\ completed_ids = {}
      /\ current_id = 0 /\ valid = TRUE /\ Len(queue) = 0
      /\ \A t \in Threads : at[t] = "idle" /\ job[t] = NoJob /\ ok[t] = FALSE
  BY <1>1 DEF QueueInit
<1>7. /\ mpc = "idle" /\ done = FALSE /\ exception = "none" /\ run_cnt = 0 /\ next = 0
      /\ \A w \in Workers : wpc[w] = "start" /\ task[w] = NoJob
      /\ \A j \in Task : future[j] = "none"
  BY DEF Init
<1>8. \A w \in Workers : Hand[w] = NoJob
  BY <1>7 DEF Hand
<1>9. \A t \in Threads : Submitting[t] = NoJob /\ Sent[t] = NoJob
  BY <1>7 DEF Submitting, Sent, Workers
<1>10. ControlInv
  BY <1>6, <1>7 DEF ControlInv, WorkerInv, MainInv, StopInv
<1>11. ReserveInv
  <2>1. MayPush = {}
    BY <1>7 DEF MayPush
  <2>2. IsFiniteSet({}) /\ Cardinality({}) = 0
    BY FS_EmptySet
  <2> QED
    BY <1>6, <2>1, <2>2, SafeQueueAssumption DEF ReserveInv
<1>12. RefusedInv
  BY <1>9 DEF RefusedInv
<1>13. PlaceInv
  BY <1>6, <1>8, <1>9 DEF PlaceInv
<1>14. FreshInv
  BY <1>7, <1>9 DEF FreshInv
<1>15. InlineInv
  BY <1>7 DEF InlineInv, AllDone
<1>16. CountInv
  <2>1. Counted = {} /\ CountedOff = {}
    BY <1>7 DEF Counted, CountedOff
  <2> QED
    BY <1>7, <2>1, FS_EmptySet DEF CountInv
<1>17. CompletedInv
  BY <1>6 DEF CompletedInv
<1> QED
  BY <1>5, <1>10, <1>11, <1>12, <1>13, <1>14, <1>15, <1>16, <1>17 DEF Inv

LEMMA InvStep == Inv /\ [Next]_vars => Inv'
<1> SUFFICES ASSUME Inv, [Next]_vars PROVE Inv'
  OBVIOUS
<1>0. /\ TypeOK /\ ControlInv /\ ReserveInv /\ RefusedInv /\ PlaceInv /\ FreshInv
      /\ InlineInv /\ CountInv /\ CompletedInv
  BY DEF Inv
<1>1. TypeOK' /\ ControlInv'
  <2>1. CASE Next
    BY <1>0, <2>1, TypeStep, WorkerControl, MainControl DEF Next
  <2>2. CASE UNCHANGED vars
    <3>1. /\ UNCHANGED <<pool, queueVars, poolVars>>
          /\ UNCHANGED <<done, run_cnt, exception, asleep, next, future, wpc, task, mpc>>
          /\ UNCHANGED <<at, job, num, block, ok, valid>>
      BY <2>2 DEF vars, poolVars, queueVars, data, frames
    <3>2. QueueTypeOK'
      BY <1>0, <3>1, QueueTypeRest DEF TypeOK
    <3>3. TypeOK'
      BY <1>0, <3>1, <3>2 DEF TypeOK
    <3>4. \A u \in Threads : FrameKept(u)
      BY <3>1 DEF FrameKept
    <3>5. \A w \in Workers : WorkerInv(w)'
      BY <1>0, <3>1, <3>4, PoolFacts, WorkerKept DEF ControlInv
    <3>6. MainInv' /\ StopInv'
      BY <1>0, <3>1, <3>4, PoolFacts, MainKept DEF ControlInv, StopInv
    <3> QED
      BY <3>3, <3>5, <3>6 DEF ControlInv
  <2> QED
    BY <2>1, <2>2
<1>2. ReserveInv'
  BY <1>0, <1>1, ReserveStep
<1>3. RefusedInv'
  BY <1>0, <1>1, RefusedStep
<1>4. PlaceInv'
  <2>1. QueueMoved \/ PoolMove
    BY <1>0, Moves
  <2> QED
    BY <1>0, <2>1, PlaceStep DEF QueueMoved
<1>5. FreshInv' /\ InlineInv'
  BY <1>0, <1>1, FreshStep
<1>6. CountInv'
  BY <1>0, CountStep
<1>7. CompletedInv'
  BY <1>0, CompletedStep
<1> QED
  BY <1>1, <1>2, <1>3, <1>4, <1>5, <1>6, <1>7 DEF Inv

\* The invariant: where every thread is, where every job is, what is counted, and that
\* the reserve of min_thread_buffer places keeps room for the jobs of jobs.
THEOREM InvCorrect == Spec => []Inv
<1>1. Init => Inv
  BY InitInv
<1>2. Inv /\ [Next]_vars => Inv'
  BY InvStep
<1> QED
  BY <1>1, <1>2, PTL DEF Spec

-----------------------------------------------------------------------------
(***************************************************************************)
(* What holds when wait() returns.                                         *)
(***************************************************************************)
\* It returns because everything that was counted has been counted off.
LEMMA ReturnCounts ==
    ASSUME Inv, [Next]_vars, Returning, exception = "none"
    PROVE  /\ threads # {} => Cardinality(Counted) = Cardinality(CountedOff)
           /\ \A t \in Threads : Submitting[t] \in Task => t \in Workers
<1>0. TypeOK /\ ControlInv /\ CountInv
  BY DEF Inv
<1>1. WaitOver
  <2>1. CASE \E w \in Workers : WorkerStep(w)
    <3>1. UNCHANGED mpc
      BY <2>1 DEF WorkerStep, WorkerPop, TaskSubmit, TaskComplete, WorkerCatch,
           WorkerStart, WorkerPopped, TaskSubmitted, TaskCompleted, TaskReturn,
           TaskThrow, WorkerFinish, WorkerLeave, InQueue, poolVars
    <3> QED
      BY <3>1 DEF Returning
  <2>2. CASE MainStep
    BY <2>2 DEF Returning, MainStep, Submitted, WaitSleep, WaitReturn, Join, InQueue, poolVars
  <2>3. CASE MainCall
    BY <2>3 DEF Returning, MainCall, Submit, SubmitInline, Wait, Destroy
  <2>4. CASE Spurious
    BY <2>4 DEF Returning, Spurious, Wakeup, WaitSpurious, poolVars
  <2>5. CASE UNCHANGED vars
    BY <2>5 DEF Returning, vars, poolVars
  <2> QED
    BY <2>1, <2>2, <2>3, <2>4, <2>5 DEF Next
<1>2. mpc = "waiting" /\ ~done
  BY <1>0 DEF Returning, ControlInv, StopInv
<1>3. run_cnt = 0
  BY <1>1, <1>2 DEF WaitOver
<1>4. threads # {} => Cardinality(Counted) = Cardinality(CountedOff)
  <2>1. /\ Cardinality(Counted) \in Nat /\ Cardinality(CountedOff) \in Nat
    BY TasksFinite DEF Counted, CountedOff
  <2> QED
    BY <1>0, <1>3, <2>1 DEF CountInv
<1>5. \A t \in Threads : Submitting[t] \in Task => t \in Workers
  BY <1>0, <1>2, PoolFacts DEF Submitting, Workers
<1> QED
  BY <1>4, <1>5

\* "Waits for the worker threads to finish": in a pool whose jobs submit no jobs, no
\* job is pending when wait() returns without an exception (ThreadPool.cpp, wait()).
THEOREM PlainWaitCorrect == Spec => PlainWaitMeansDone
<1>1. Inv /\ [Next]_vars => [Returning /\ exception = "none" /\ ~Buffered => AllDone]_vars
  <2> SUFFICES ASSUME Inv, [Next]_vars, Returning, exception = "none", ~Buffered
               PROVE  AllDone
    OBVIOUS
  <2>0. TypeOK /\ ControlInv /\ InlineInv /\ PlaceInv
    BY DEF Inv
  <2>1. CASE threads = {}
    BY <2>0, <2>1 DEF InlineInv
  <2>2. CASE threads # {}
    <3>1. \A t \in Threads : Submitting[t] \notin Task
      <4>1. \A w \in Workers : wpc[w] # "submitting"
        BY <2>0 DEF ControlInv, WorkerInv
      <4>2. \A w \in Workers : Submitting[w] = NoJob
        BY <2>0, <4>1, PoolFacts DEF Submitting
      <4> QED
        BY <2>0, <4>2, ReturnCounts, PoolFacts
    <3>2. CountedOff \subseteq Counted
      BY <3>1 DEF Counted, CountedOff
    <3>3. IsFiniteSet(Counted)
      BY TasksFinite DEF Counted
    <3>4. CountedOff = Counted
      <4>1. Cardinality(Counted) = Cardinality(CountedOff)
        BY <2>2, ReturnCounts
      <4> QED
        BY <3>2, <3>3, <4>1, FS_Subset
    <3>5. ASSUME NEW j \in Task, future[j] = "pending" PROVE FALSE
      <4>1. j \in Counted
        BY <3>1, <3>5 DEF Counted
      <4> QED
        BY <3>4, <3>5, <4>1 DEF CountedOff
    <3> QED
      BY <3>5 DEF AllDone
  <2> QED
    BY <2>1, <2>2
<1>2. Spec => []Inv
  BY InvCorrect
<1> QED
  BY <1>1, <1>2, PTL DEF Spec, PlainWaitMeansDone

\* A job that throws in a worker is reported: when wait() returns, exception_ptr_ is set.
\* If it were not, as many jobs would have returned a value as were counted; but a job
\* of theirs that a worker still submits stands for the plain job of that worker, which
\* is counted and pending, so nothing is left for the job that has thrown.
THEOREM WaitReportsCorrect == Spec => WaitReports
<1>1. Inv /\ [Next]_vars =>
        [Returning /\ threads # {} /\ (\E j \in Task : future[j] = "exception")
            => exception = "thrown"]_vars
  <2> SUFFICES ASSUME Inv, [Next]_vars, Returning, threads # {}, exception # "thrown",
                      NEW x \in Task, future[x] = "exception"
               PROVE  FALSE
    OBVIOUS
  <2>0. /\ TypeOK /\ ControlInv /\ PlaceInv /\ FreshInv /\ exception = "none"
    BY DEF Inv, TypeOK
  <2>1. /\ Cardinality(Counted) = Cardinality(CountedOff)
        /\ \A t \in Threads : Submitting[t] \in Task => t \in Workers
    BY <2>0, ReturnCounts
  <2>2. IsFiniteSet(Counted) /\ Counted \subseteq Task /\ CountedOff \subseteq Task
    BY TasksFinite DEF Counted, CountedOff
  <2> DEFINE Ongoing == {j \in Task : \E t \in Threads : Submitting[t] = j}
             f == [j \in CountedOff |-> IF j \in Ongoing THEN Plain(j.event) ELSE j]
  \* The job that submits an ordered job is pending, and counted.
  <2>3. ASSUME NEW j \in Ongoing
        PROVE  /\ j.ordered /\ Plain(j.event) \in Task
               /\ Plain(j.event) \in Counted /\ future[Plain(j.event)] = "pending"
    <3>1. PICK t \in Workers : Submitting[t] = j
      BY <2>1
    <3>2. t # Main /\ j \in Task
      BY <2>0, <3>1, PoolFacts
    <3>3. wpc[t] = "submitting" /\ j = Ordered(task[t].event)
      BY <2>0, <3>1, <3>2, PoolFacts DEF Submitting
    <3>4. task[t] \in Task /\ ~task[t].ordered
      BY <2>0, <3>3 DEF ControlInv, WorkerInv
    <3>5. task[t] = Plain(j.event) /\ j.ordered
      BY <3>3, <3>4, JobFacts
    <3>6. Hand[t] = task[t] /\ Due(t) = "pending"
      BY <3>3 DEF Hand, Due
    <3>7. future[task[t]] = "pending"
      BY <2>0, <3>4, <3>6 DEF PlaceInv
    <3>8. \A u \in Threads : Submitting[u] # task[t]
      <4>1. ASSUME NEW u \in Threads, Submitting[u] = task[t] PROVE FALSE
        <5>1. u \in Workers /\ u # Main
          BY <2>0, <2>1, <3>4, <4>1, PoolFacts
        <5>2. task[t] = Ordered(task[u].event)
          BY <2>0, <3>4, <4>1, <5>1, PoolFacts DEF Submitting
        <5> QED
          BY <3>4, <5>2, JobFacts
      <4> QED
        BY <4>1
    <3> QED
      BY <3>4, <3>5, <3>7, <3>8 DEF Counted
  <2>4. \A j \in CountedOff : future[j] = "value"
    BY DEF CountedOff
  <2>5. \A j \in CountedOff : j \notin Ongoing => j \in Counted
    BY DEF CountedOff, Counted
  <2>6. \A j \in Task : j.ordered => j = Ordered(j.event)
    BY JobFacts
  <2> HIDE DEF Ongoing
  <2>7. f \in [CountedOff -> Counted]
    BY <2>2, <2>3, <2>5
  <2>8. \A j \in CountedOff : f[j] = IF j \in Ongoing THEN Plain(j.event) ELSE j
    OBVIOUS
  <2> HIDE DEF f
  <2>9. ASSUME NEW i \in CountedOff, NEW j \in CountedOff, f[i] = f[j]
        PROVE  i = j
    <3>1. CASE i \in Ongoing /\ j \in Ongoing
      <4>1. Plain(i.event) = Plain(j.event)
        BY <2>8, <2>9, <3>1
      <4>2. i.event = j.event
        BY <4>1, JobFacts
      <4> QED
        BY <2>2, <2>3, <2>6, <3>1, <4>2
    <3>2. CASE i \notin Ongoing /\ j \notin Ongoing
      BY <2>8, <2>9, <3>2
    <3>3. CASE i \in Ongoing /\ j \notin Ongoing
      BY <2>3, <2>4, <2>8, <2>9, <3>3
    <3>4. CASE i \notin Ongoing /\ j \in Ongoing
      BY <2>3, <2>4, <2>8, <2>9, <3>4
    <3> QED
      BY <3>1, <3>2, <3>3, <3>4
  <2>10. f \in Injection(CountedOff, Counted)
    BY <2>7, <2>9 DEF Injection, IsInjective
  <2>11. f \in Surjection(CountedOff, Counted)
    BY <2>1, <2>2, <2>10, FS_Injection
  <2>12. \A k \in Counted : \E j \in CountedOff : f[j] = k
    BY <2>11 DEF Surjection
  <2>13. CASE x \in Ongoing
    <3>1. PICK j \in CountedOff : f[j] = Plain(x.event)
      BY <2>3, <2>12, <2>13
    <3>2. CASE j \in Ongoing
      <4>1. Plain(j.event) = Plain(x.event)
        BY <2>8, <3>1, <3>2
      <4>2. j.event = x.event
        BY <4>1, JobFacts
      <4>3. j = x
        BY <2>2, <2>3, <2>6, <2>13, <3>2, <4>2
      <4> QED
        BY <2>4, <4>3
    <3>3. CASE j \notin Ongoing
      BY <2>3, <2>4, <2>8, <2>13, <3>1, <3>3
    <3> QED
      BY <3>2, <3>3
  <2>14. CASE x \notin Ongoing
    <3>1. x \in Counted
      BY <2>14 DEF Counted, Ongoing
    <3>2. PICK j \in CountedOff : f[j] = x
      BY <2>12, <3>1
    <3> QED
      BY <2>3, <2>4, <2>8, <3>2
  <2> QED
    BY <2>13, <2>14
<1>2. Spec => []Inv
  BY InvCorrect
<1> QED
  BY <1>1, <1>2, PTL DEF Spec, WaitReports

-----------------------------------------------------------------------------
(***************************************************************************)
(* ThreadPool implements JobPool.                                          *)
(***************************************************************************)
Held(j) == \E w \in Workers : Hand[w] = j

LEMMA StateOf ==
    ASSUME TypeOK, ControlInv
    PROVE  /\ JobState = [j \in Task |-> JobState[j]]
           /\ \A j \in Task :
                JobState[j] = IF future[j] # "pending" THEN future[j]
                              ELSE IF Queued(j) THEN "queued"
                              ELSE IF Held(j) THEN "running" ELSE "submitted"
<1>1. ASSUME NEW j \in Task PROVE Taken(j) <=> Held(j)
  <2>1. \A w \in Workers : wpc[w] = "popping" => task[w] = NoJob
    BY DEF ControlInv, WorkerInv
  <2> QED
    BY <2>1, PoolFacts DEF Taken, Held, Hand
<1>2. \A j \in Task :
        JobState[j] = IF future[j] # "pending" THEN future[j]
                      ELSE IF Queued(j) THEN "queued"
                      ELSE IF Taken(j) THEN "running" ELSE "submitted"
  BY DEF JobState
<1>3. JobState = [j \in Task |-> JobState[j]]
  BY DEF JobState
<1> QED
  BY <1>1, <1>2, <1>3

LEMMA StateOfNext ==
    ASSUME TypeOK', ControlInv'
    PROVE  /\ JobState' = [j \in Task |-> JobState'[j]]
           /\ \A j \in Task :
                JobState'[j] = IF future'[j] # "pending" THEN future'[j]
                               ELSE IF Queued(j)' THEN "queued"
                               ELSE IF Held(j)' THEN "running" ELSE "submitted"
<1>0. NoJob \notin Task
  BY SafeQueueAssumption, ThreadPoolAssumption
<1>1. ASSUME NEW j \in Task PROVE Taken(j)' <=> Held(j)'
  <2>1. \A w \in Workers : wpc'[w] = "popping" => task'[w] = NoJob
    BY DEF ControlInv, WorkerInv
  <2> QED
    BY <1>0, <2>1 DEF Taken, Held, Hand
<1>2. \A j \in Task :
        JobState'[j] = IF future'[j] # "pending" THEN future'[j]
                       ELSE IF Queued(j)' THEN "queued"
                       ELSE IF Taken(j)' THEN "running" ELSE "submitted"
  BY DEF JobState
<1>3. JobState' = [j \in Task |-> JobState'[j]]
  BY DEF JobState
<1> QED
  BY <1>1, <1>2, <1>3

\* The jobs of the two specifications are the same.
LEMMA JobsSame == Promise!Job = Task
BY DEF Promise!Job, Task, Events

\* A job whose future and place stay keeps its state.
LEMMA StateKept ==
    ASSUME TypeOK, ControlInv, TypeOK', ControlInv', NEW k \in Task,
           future'[k] = future[k],
           future[k] = "pending" => /\ Queued(k)' <=> Queued(k)
                                    /\ Held(k)' <=> Held(k)
    PROVE  JobState'[k] = JobState[k]
<1>1. JobState[k] = IF future[k] # "pending" THEN future[k]
                    ELSE IF Queued(k) THEN "queued"
                    ELSE IF Held(k) THEN "running" ELSE "submitted"
  BY StateOf
<1>2. JobState'[k] = IF future'[k] # "pending" THEN future'[k]
                     ELSE IF Queued(k)' THEN "queued"
                     ELSE IF Held(k)' THEN "running" ELSE "submitted"
  BY StateOfNext
<1> QED
  BY <1>1, <1>2

\* One job moves.
LEMMA OneBecomes ==
    ASSUME TypeOK, ControlInv, TypeOK', ControlInv', NEW j \in Task, NEW to,
           JobState'[j] = to, \A k \in Task : k # j => JobState'[k] = JobState[k]
    PROVE  JobState' = [JobState EXCEPT ![j] = to]
<1>1. JobState = [k \in Task |-> JobState[k]] /\ JobState' = [k \in Task |-> JobState'[k]]
  BY StateOf, StateOfNext
<1> QED
  BY <1>1

LEMMA NoneBecomes ==
    ASSUME TypeOK, ControlInv, TypeOK', ControlInv',
           \A k \in Task : JobState'[k] = JobState[k]
    PROVE  JobState' = JobState
<1>1. JobState = [k \in Task |-> JobState[k]] /\ JobState' = [k \in Task |-> JobState'[k]]
  BY StateOf, StateOfNext
<1> QED
  BY <1>1

PromiseVars == <<JobState, queue, completed, valid>>

LEMMA QueueRefines ==
    ASSUME Inv, Inv', NEW t \in Threads, QueueMove(t)
    PROVE  Promise!JobNext \/ UNCHANGED PromiseVars
<1>0. /\ TypeOK /\ ControlInv /\ PlaceInv /\ CompletedInv /\ TypeOK' /\ ControlInv' /\ PlaceInv'
  BY DEF Inv
<1> USE <1>0, PlaceTypes, PoolFacts, JobsSame
<1>1. ASSUME Stay PROVE JobState' = JobState /\ UNCHANGED <<queue, valid>>
  <2>1. UNCHANGED <<queue, priority_queue, future, valid, Hand>>
    BY <1>1 DEF Stay
  <2>2. \A k \in Task : JobState'[k] = JobState[k]
    <3> TAKE k \in Task
    <3>1. (Queued(k)' <=> Queued(k)) /\ (Held(k)' <=> Held(k))
      BY <2>1 DEF Queued, Held
    <3> QED
      BY <2>1, <3>1, StateKept
  <2> QED
    BY <2>1, <2>2, NoneBecomes
<1>2. CASE Stay /\ UNCHANGED completed
  BY <1>1, <1>2 DEF PromiseVars
<1>3. CASE /\ Stay /\ t \in Workers /\ Hand[t] \in Task /\ Due(t) = "pending"
           /\ completed' = completed \cup {Hand[t].event}
  <2> DEFINE j == Hand[t]
  <2>1. j \in Task /\ future[j] = "pending" /\ ~Queued(j) /\ Held(j)
    BY <1>3 DEF PlaceInv, Queued, Held
  <2>2. JobState[j] = "running"
    BY <2>1, StateOf
  <2>3. Promise!MarkComplete(j)
    BY <1>1, <1>3, <2>2 DEF Promise!MarkComplete
  <2> QED
    BY <2>1, <2>3 DEF Promise!JobNext
\* Worker t gets j.
<1>4. ASSUME NEW j \in Task, t \in Workers, Take(t, j), Queued(j), ~Queued(j)',
             \A k \in Task : k # j => (Queued(k)' <=> Queued(k))
      PROVE  JobState[j] = "queued" /\ JobState' = [JobState EXCEPT ![j] = "running"]
  <2>1. /\ Hand[t] = NoJob /\ Hand' = [Hand EXCEPT ![t] = j] /\ UNCHANGED future
    BY <1>4 DEF Take
  <2>2. future[j] = "pending"
    BY <1>4 DEF PlaceInv, Queued
  <2>3. Held(j)'
    BY <1>4, <2>1 DEF Held
  <2>4. JobState[j] = "queued"
    BY <1>4, <2>2, StateOf
  <2>5. JobState'[j] = "running"
    BY <1>4, <2>1, <2>2, <2>3, StateOfNext
  <2>6. \A k \in Task : k # j => JobState'[k] = JobState[k]
    <3> SUFFICES ASSUME NEW k \in Task, k # j PROVE JobState'[k] = JobState[k]
      OBVIOUS
    <3>1. Held(k)' <=> Held(k)
      BY <1>4, <2>1 DEF Held
    <3> QED
      BY <1>4, <2>1, <3>1, StateKept
  <2> QED
    BY <2>4, <2>5, <2>6, OneBecomes
<1>5. CASE t \in Workers /\ TakePlain(t)
  <2>0. queue # <<>> /\ queue[1] \in Task /\ Head(queue) = queue[1]
    BY <1>5 DEF TakePlain
  <2> PICK j \in Task : j = queue[1]
    BY <2>0
  <2>1. /\ Take(t, j) /\ queue # <<>> /\ queue' = Tail(queue) /\ UNCHANGED priority_queue
    BY <1>5, <2>0 DEF TakePlain
  <2>2. /\ Len(queue) \in Nat \ {0} /\ j = queue[1] /\ 1 \in 1..Len(queue)
        /\ Len(queue') = Len(queue) - 1
        /\ \A i \in 1..Len(queue') : queue'[i] = queue[i + 1] /\ i + 1 \in 1..Len(queue)
    BY <2>1
  <2>3. j \in Task /\ ~j.ordered /\ Queued(j)
    BY <2>2, QueuesDiffer DEF Queued
  <2>4. \A e \in priority_queue : e.job # j
    BY <2>3, QueuesDiffer
  <2>5. \A i \in 1..Len(queue) : i # 1 => queue[i] # queue[1]
    BY <2>2 DEF PlaceInv
  <2>6. ~Queued(j)'
    BY <2>1, <2>2, <2>4, <2>5 DEF Queued
  <2>7. ASSUME NEW k \in Task, k # j PROVE Queued(k)' <=> Queued(k)
    <3>1. \A i \in 1..Len(queue) : i # 1 => i - 1 \in 1..Len(queue') /\ queue'[i - 1] = queue[i]
      BY <2>2
    <3>2. (\E i \in 1..Len(queue') : queue'[i] = k) <=> \E i \in 1..Len(queue) : queue[i] = k
      BY <2>2, <2>7, <3>1
    <3> QED
      BY <2>1, <3>2 DEF Queued
  <2>8. JobState[j] = "queued" /\ JobState' = [JobState EXCEPT ![j] = "running"]
    BY <1>4, <1>5, <2>1, <2>3, <2>6, <2>7
  <2>9. UNCHANGED <<valid, completed>>
    BY <2>1 DEF Take
  <2>10. Head(queue) = j
    BY <2>0
  <2>11. Promise!Start(j)
    BY <2>1, <2>3, <2>8, <2>9, <2>10 DEF Promise!Start, Promise!Become
  <2> QED
    BY <2>3, <2>11 DEF Promise!JobNext
<1>6. CASE t \in Workers /\ TakeOrdered(t)
  <2>1. PICK e \in priority_queue :
            /\ Take(t, e.job) /\ e.id = current_id
            /\ priority_queue' = priority_queue \ {e} /\ UNCHANGED queue
    BY <1>6 DEF TakeOrdered
  <2>2. e.job \in Task /\ e.job.ordered /\ e.job = Ordered(e.id) /\ Queued(e.job)
    BY QueuesDiffer DEF Queued, PlaceInv
  <2>3. e.job.event = current_id
    BY <2>1, <2>2, JobFacts
  <2>4. ~Queued(e.job)'
    BY <2>1, <2>2, QueuesDiffer DEF Queued
  <2>5. ASSUME NEW k \in Task, k # e.job PROVE Queued(k)' <=> Queued(k)
    BY <2>1, <2>5 DEF Queued
  <2>6. JobState[e.job] = "queued" /\ JobState' = [JobState EXCEPT ![e.job] = "running"]
    BY <1>4, <1>6, <2>1, <2>2, <2>4, <2>5
  <2>7. UNCHANGED <<queue, valid, completed>>
    BY <2>1 DEF Take
  <2>8. 0..(e.job.event - 1) \subseteq completed
    BY <2>3 DEF CompletedInv
  <2>9. Promise!Start(e.job)
    BY <2>2, <2>6, <2>7, <2>8 DEF Promise!Start, Promise!Become
  <2> QED
    BY <2>2, <2>9 DEF Promise!JobNext
\* Thread t puts its job into the queue.
<1>7. ASSUME NEW j \in Task, j = Sent[t], Put(t), Queued(j)',
             \A k \in Task : k # j => (Queued(k)' <=> Queued(k))
      PROVE  /\ valid /\ UNCHANGED <<valid, completed>>
             /\ JobState[j] = "submitted"
             /\ JobState' = [JobState EXCEPT ![j] = "queued"]
  <2>1. UNCHANGED <<future, Hand, valid, completed>> /\ valid
    BY <1>7 DEF Put
  <2>2. future[j] = "pending" /\ ~Queued(j) /\ ~Held(j)
    BY <1>7 DEF PlaceInv, Held
  <2>3. JobState[j] = "submitted"
    BY <2>1, <2>2, StateOf
  <2>4. JobState'[j] = "queued"
    BY <1>7, <2>1, <2>2, StateOfNext
  <2>5. \A k \in Task : k # j => JobState'[k] = JobState[k]
    <3> SUFFICES ASSUME NEW k \in Task, k # j PROVE JobState'[k] = JobState[k]
      OBVIOUS
    <3>1. Held(k)' <=> Held(k)
      BY <2>1 DEF Held
    <3> QED
      BY <1>7, <2>1, <3>1, StateKept
  <2> QED
    BY <2>1, <2>3, <2>4, <2>5, OneBecomes
<1>8. CASE t = Main /\ PutPlain
  <2> PICK j \in Task : j = Sent[t]
    BY <1>8 DEF PutPlain, Put
  <2>1. /\ Put(t) /\ ~j.ordered /\ queue' = Append(queue, j) /\ UNCHANGED priority_queue
    BY <1>8 DEF PutPlain
  <2>2. queue \in Seq(Task) /\ queue' = Append(queue, j)
    BY <2>1
  <2>3. /\ Len(queue) \in Nat /\ Len(queue') = Len(queue) + 1 /\ queue'[Len(queue) + 1] = j
        /\ \A i \in 1..Len(queue) : queue'[i] = queue[i]
    BY <2>2
  <2>4. Queued(j)'
    <3>1. Len(queue) + 1 \in 1..Len(queue')
      BY <2>3
    <3>2. \E i \in 1..Len(queue') : queue'[i] = j
      BY <2>3, <3>1
    <3> QED
      BY <3>2 DEF Queued
  <2>5. ASSUME NEW k \in Task, k # j PROVE Queued(k)' <=> Queued(k)
    <3>1. \A i \in 1..Len(queue') : i \in 1..Len(queue) \/ i = Len(queue) + 1
      BY <2>3
    <3>2. \A i \in 1..Len(queue) : i \in 1..Len(queue')
      BY <2>3
    <3> QED
      BY <2>1, <2>3, <2>5, <3>1, <3>2 DEF Queued
  <2>6. /\ valid /\ UNCHANGED <<valid, completed>> /\ JobState[j] = "submitted"
        /\ JobState' = [JobState EXCEPT ![j] = "queued"]
    BY <1>7, <2>1, <2>4, <2>5
  <2>7. Promise!Accept(j)
    BY <2>1, <2>6 DEF Promise!Accept, Promise!Become
  <2> QED
    BY <2>7 DEF Promise!JobNext
<1>9. CASE t \in Workers /\ PutOrdered(t)
  <2> PICK j \in Task : j = Sent[t]
    BY <1>9 DEF PutOrdered, Put
  <2>1. /\ Put(t) /\ j.ordered /\ UNCHANGED queue
        /\ priority_queue' = priority_queue \cup {[id |-> j.event, job |-> j]}
    BY <1>9 DEF PutOrdered
  <2>2. \E e \in priority_queue' : e.job = j
    <3> DEFINE e == [id |-> j.event, job |-> j]
    <3>1. e \in priority_queue' /\ e.job = j
      BY <2>1
    <3> QED
      BY <3>1
  <2>3. Queued(j)'
    BY <2>2 DEF Queued
  <2>4. ASSUME NEW k \in Task, k # j PROVE Queued(k)' <=> Queued(k)
    BY <2>1, <2>4 DEF Queued
  <2>5. /\ valid /\ UNCHANGED <<valid, completed>> /\ JobState[j] = "submitted"
        /\ JobState' = [JobState EXCEPT ![j] = "queued"]
    BY <1>7, <2>1, <2>3, <2>4
  <2>6. Promise!Accept(j)
    BY <2>1, <2>5 DEF Promise!Accept, Promise!Become
  <2> QED
    BY <2>6 DEF Promise!JobNext
<1> QED
  BY <1>2, <1>3, <1>5, <1>6, <1>8, <1>9 DEF QueueMove

\* A job that no worker holds in the middle of running it keeps its state.
LEMMA LoseKeeps ==
    ASSUME TypeOK, ControlInv, PlaceInv, NEW w \in Workers, Lose(w),
           Hand[w] \in Task => Due(w) # "pending", NEW k \in Task, future[k] = "pending"
    PROVE  Held(k)' <=> Held(k)
<1>1. Hand' = [Hand EXCEPT ![w] = NoJob] /\ Hand[w] # k
  BY DEF Lose, PlaceInv
<1> QED
  BY <1>1, PlaceTypes, PoolFacts DEF Held

LEMMA PoolRefines ==
    ASSUME Inv, Inv', PoolMove
    PROVE  Promise!JobNext \/ UNCHANGED PromiseVars
<1>0. /\ TypeOK /\ ControlInv /\ PlaceInv /\ TypeOK' /\ ControlInv'
  BY DEF Inv
<1> USE <1>0, PlaceTypes, PoolFacts, JobsSame
\* Only job j moves, and not in the queue.
<1>1. ASSUME NEW j \in Task, NEW from, NEW to, JobState[j] = from, JobState'[j] = to,
             \A k \in Task : k # j =>
                /\ future'[k] = future[k]
                /\ Queued(k)' <=> Queued(k)
                /\ Held(k)' <=> Held(k),
             UNCHANGED <<queue, valid, completed>>
      PROVE  Promise!Become(j, from, to) /\ UNCHANGED <<queue, valid, completed>>
  <2>1. \A k \in Task : k # j => JobState'[k] = JobState[k]
    BY <1>1, StateKept
  <2>2. JobState' = [JobState EXCEPT ![j] = to]
    BY <1>1, <2>1, OneBecomes
  <2> QED
    BY <1>1, <2>2 DEF Promise!Become
<1>2. ASSUME UNCHANGED <<queue, priority_queue>>
      PROVE  \A k \in Task : Queued(k)' <=> Queued(k)
  BY <1>2 DEF Queued
<1>3. ASSUME UNCHANGED Hand
      PROVE  \A k \in Task : Held(k)' <=> Held(k)
  BY <1>3 DEF Held
\* No job moves.
<1>4. ASSUME UNCHANGED <<queue, priority_queue, valid, completed, future>>,
             \A k \in Task : future[k] = "pending" => (Held(k)' <=> Held(k))
      PROVE  UNCHANGED PromiseVars
  <2>1. \A k \in Task : JobState'[k] = JobState[k]
    BY <1>2, <1>4, StateKept
  <2> QED
    BY <1>4, <2>1, NoneBecomes DEF PromiseVars
<1>5. CASE Calm
  BY <1>3, <1>4, <1>5 DEF Calm, Stay
<1>6. ASSUME NEW t \in Threads, NEW j \in Task, SubmitJob(t, j) PROVE Promise!JobNext
  <2>1. /\ future[j] = "none" /\ future' = [future EXCEPT ![j] = "pending"]
        /\ UNCHANGED <<queue, priority_queue, valid, completed, Hand>>
    BY <1>6 DEF SubmitJob
  <2>2. ~Queued(j) /\ ~Held(j) /\ ~Queued(j)' /\ ~Held(j)'
    BY <1>2, <1>3, <2>1, NowhereElse DEF Due, Held
  <2>3. JobState[j] = "none"
    BY <2>1, StateOf
  <2>4. JobState'[j] = "submitted"
    BY <2>1, <2>2, StateOfNext
  <2>5. Promise!Submit(j)
    BY <1>1, <1>2, <1>3, <2>1, <2>3, <2>4 DEF Promise!Submit
  <2> QED
    BY <2>5 DEF Promise!JobNext
<1>7. ASSUME NEW t \in Threads, Answer(t) PROVE Promise!JobNext \/ UNCHANGED PromiseVars
  <2>1. /\ UNCHANGED <<queue, priority_queue, valid, completed, Hand>>
    BY <1>7 DEF Answer
  <2>2. CASE UNCHANGED future
    BY <1>3, <1>4, <2>1, <2>2
  <2>3. CASE Sent[t] \in Task /\ ~valid /\ future' = [future EXCEPT ![Sent[t]] = "nostate"]
    <3> PICK j \in Task : j = Sent[t]
      BY <2>3
    <3>1. future[j] = "pending" /\ ~Queued(j) /\ ~Held(j)
      BY DEF PlaceInv, Held
    <3>2. JobState[j] = "submitted"
      BY <3>1, StateOf
    <3>3. JobState'[j] = "nostate"
      BY <2>3, StateOfNext
    <3>4. Promise!Refuse(j)
      BY <1>1, <1>2, <1>3, <2>1, <2>3, <3>2, <3>3 DEF Promise!Refuse
    <3> QED
      BY <3>4 DEF Promise!JobNext
  <2> QED
    BY <1>7, <2>2, <2>3 DEF Answer
<1>8. ASSUME NEW w \in Workers, NEW r \in {"value", "exception"}, EndJob(w, r)
      PROVE  Promise!JobNext
  <2>1. /\ Hand[w] \in Task /\ Due(w) = "pending"
        /\ future' = [future EXCEPT ![Hand[w]] = r]
        /\ UNCHANGED <<queue, priority_queue, valid, completed, Hand>>
    BY <1>8 DEF EndJob
  <2> PICK j \in Task : j = Hand[w]
    BY <2>1
  <2>2. future[j] = "pending" /\ ~Queued(j) /\ Held(j)
    BY <2>1 DEF PlaceInv, Queued, Held
  <2>3. JobState[j] = "running"
    BY <2>2, StateOf
  <2>4. JobState'[j] = r
    BY <2>1, StateOfNext
  <2>5. Promise!Become(j, "running", r) /\ UNCHANGED <<queue, valid, completed>>
    BY <1>1, <1>2, <1>3, <2>1, <2>3, <2>4
  <2>6. Promise!End(j)
    BY <2>5 DEF Promise!End
  <2> QED
    BY <2>6 DEF Promise!JobNext
<1>9. ASSUME NEW w \in Workers, CountOff(w) \/ Forget(w) PROVE UNCHANGED PromiseVars
  <2>1. /\ Lose(w) /\ (Hand[w] \in Task => Due(w) # "pending")
        /\ UNCHANGED <<queue, priority_queue, valid, completed, future>>
    BY <1>9 DEF CountOff, Forget, Dismiss, Lose
  <2>2. \A k \in Task : future[k] = "pending" => (Held(k)' <=> Held(k))
    BY <2>1, LoseKeeps
  <2> QED
    BY <1>4, <2>1, <2>2
<1>10. CASE DropAll
  <2>1. /\ queue' = <<>> /\ priority_queue' = {} /\ valid' = FALSE /\ Drop
        /\ UNCHANGED completed
    BY <1>10 DEF DropAll, Dismiss, Lose, TypeOK, QueueTypeOK
  <2>2. \A k \in Task : future[k] = "pending" => (Held(k)' <=> Held(k))
    <3>1. ASSUME NEW w \in Workers, Dismiss(w)
          PROVE  \A k \in Task : future[k] = "pending" => (Held(k)' <=> Held(k))
      BY <3>1, LoseKeeps DEF Dismiss
    <3> QED
      BY <1>3, <1>10, <3>1 DEF DropAll
  <2>3. \A k \in Task : ~Queued(k)'
    BY <2>1 DEF Queued
  <2>4. \A k \in Task : future'[k] = IF Queued(k) THEN "broken" ELSE future[k]
    BY <2>1 DEF Drop
  <2>5. ASSUME NEW k \in Task
        PROVE  JobState'[k] = IF JobState[k] = "queued" THEN "broken" ELSE JobState[k]
    <3>1. CASE Queued(k)
      <4>1. future[k] = "pending"
        BY <3>1 DEF PlaceInv, Queued
      <4>2. JobState[k] = "queued"
        BY <3>1, <4>1, StateOf
      <4>3. JobState'[k] = "broken"
        BY <2>4, <3>1, StateOfNext
      <4> QED
        BY <4>2, <4>3
    <3>2. CASE ~Queued(k)
      <4>1. JobState'[k] = JobState[k]
        BY <2>2, <2>3, <2>4, <3>2, StateKept
      <4>2. JobState[k] # "queued"
        <5>1. future[k] # "queued"
          BY DEF States
        <5> QED
          BY <3>2, <5>1, StateOf
      <4> QED
        BY <4>1, <4>2
    <3> QED
      BY <3>1, <3>2
  <2>6. JobState' = [j \in Task |-> IF JobState[j] = "queued" THEN "broken" ELSE JobState[j]]
    <3>1. JobState' = [k \in Task |-> JobState'[k]]
      BY StateOfNext
    <3> QED
      BY <2>5, <3>1
  <2>7. Promise!Stop
    BY <2>1, <2>6 DEF Promise!Stop
  <2> QED
    BY <2>7 DEF Promise!JobNext
<1>11. ASSUME NEW r \in {"value", "exception"}, RunAtOnce(r) PROVE Promise!JobNext
  <2>1. /\ Plain(next) \in Task /\ future[Plain(next)] = "none"
        /\ future' = [future EXCEPT ![Plain(next)] = r]
        /\ UNCHANGED <<queue, priority_queue, valid, completed, Hand>>
    BY <1>11 DEF RunAtOnce
  <2> PICK j \in Task : j = Plain(next)
    BY <2>1
  <2>2. JobState[j] = "none"
    BY <2>1, StateOf
  <2>3. JobState'[j] = r
    BY <2>1, StateOfNext
  <2>4. Promise!Become(j, "none", r) /\ UNCHANGED <<queue, valid, completed>>
    BY <1>1, <1>2, <1>3, <2>1, <2>2, <2>3
  <2>5. Promise!End(j)
    BY <2>4 DEF Promise!End
  <2> QED
    BY <2>5 DEF Promise!JobNext
<1> QED
  BY <1>5, <1>6, <1>7, <1>8, <1>9, <1>10, <1>11 DEF PoolMove

\* The pool keeps the promises of JobPool, for every number of workers and jobs and all
\* sizes of the queues: the initial states are those of JobPool, and every step is one
\* of its steps or leaves its variables alone.
THEOREM PromisesKeptCorrect == Spec => PromisesKept
<1>1. Init => Promise!JobInit
  <2> SUFFICES ASSUME Init PROVE Promise!JobInit
    OBVIOUS
  <2>1. /\ queue = <<>> /\ completed = {} /\ valid = TRUE /\ future = [j \in Task |-> "none"]
    BY DEF Init, QueueInit
  <2>2. JobState = [j \in Task |-> "none"]
    BY <2>1 DEF JobState
  <2> QED
    BY <2>1, <2>2, JobsSame DEF Promise!JobInit
<1>2. Inv /\ Inv' /\ [Next]_vars => [Promise!JobNext]_Promise!jobVars
  <2> SUFFICES ASSUME Inv, Inv', [Next]_vars
               PROVE  Promise!JobNext \/ UNCHANGED Promise!jobVars
    OBVIOUS
  <2>1. QueueMoved \/ PoolMove
    BY Moves DEF Inv
  <2>2. Promise!JobNext \/ UNCHANGED PromiseVars
    BY <2>1, QueueRefines, PoolRefines DEF QueueMoved
  <2> QED
    BY <2>2 DEF PromiseVars, Promise!jobVars
<1>3. Spec => []Inv
  BY InvCorrect
<1> QED
  BY <1>1, <1>2, <1>3, PTL DEF Spec, PromisesKept, Promise!JobSpec

-----------------------------------------------------------------------------
(* The minimisation of an alignment *)

Places == {"outside", "moving", "submitting", "getting", "waiting", "failed"}

RefitTypeOK ==
    /\ fcn \in Places
    /\ call \in 0..NumCalls
    /\ params \in Nat
    /\ seen \in [Workers -> Nat \cup {Torn}]
    /\ chi2 \in [Events -> Nat \cup {Torn}]
    /\ got \in 0..NumTracks
    /\ cause \in States

-----------------------------------------------------------------------------
(* What the pool does for a caller that never destroys it and whose jobs   *)
(* submit no jobs.                                                         *)

\* There are no ordered jobs, and a worker leaves its loop only with a job that
\* has thrown.
PlainInv ==
    /\ ~done
    /\ \A n \in Events : future[Ordered(n)] = "none"
    /\ \A w \in Workers : wpc[w] = "catch" => task[w] \in Task

\* The queue is first in, first out: what a worker has was submitted before what
\* waits.
FifoInv ==
    \A i \in 1..Len(queue) :
        /\ \A k \in 1..(i - 1) : queue[k].event < queue[i].event
        /\ \A w \in Workers : Hand[w] \in Task => Hand[w].event < queue[i].event

\* A job threw before the queue became invalid, and a job without an answer was
\* submitted later than one that threw.
Threw(n) == future[Plain(n)] = "exception"

ThrownInv == ~valid => \E n \in Events : Threw(n)

CauseInv ==
    \A n \in Events : future[Plain(n)] \in {"broken", "nostate"} =>
        \E m \in 0..(n - 1) : Threw(m)

-----------------------------------------------------------------------------
(* Where the main thread is *)

FcnInv ==
    /\ fcn \in {"outside", "moving", "getting", "failed"} => mpc = "idle"
    /\ fcn = "submitting" => mpc \in {"idle", "submitting"}
    /\ fcn = "waiting" => mpc \in {"idle", "waiting"}

\* How many jobs are submitted, and how many futures are read.
CallInv ==
    /\ fcn \in {"outside", "moving", "getting", "waiting"} => next = First + NumTracks
    /\ fcn = "submitting" =>
        /\ got = 0
        /\ First <= next /\ next <= First + NumTracks
        /\ mpc = "submitting" => next < First + NumTracks
    /\ fcn \in {"submitting", "getting", "waiting"} => First >= 0
    /\ fcn \in {"outside", "moving"} => got = NumTracks \/ next = 0
    /\ fcn = "waiting" => got = NumTracks

\* The futures that were read hold values.
ValueInv == \A n \in Events : n < First + got => future[Plain(n)] = "value"

\* What jobs see, and the results of this call, belong to the current position.
PositionInv ==
    /\ \A w \in Workers : wpc[w] = "run" => seen[w] = params
    /\ fcn \in {"submitting", "getting", "waiting"} =>
        \A n \in Events : n >= First /\ future[Plain(n)] = "value" => chi2[n] = params

RefitInv ==
    /\ RefitTypeOK
    /\ PlainInv /\ FifoInv /\ ThrownInv /\ CauseInv
    /\ FcnInv /\ CallInv /\ ValueInv /\ PositionInv
    /\ GenuineFailure

-----------------------------------------------------------------------------
(* The steps of the pool that the alignment takes: it never destroys it *)

PoolStep ==
    \/ \E w \in Workers : WorkerStep(w)
    \/ MainStep
    \/ (Submit \/ SubmitInline \/ Wait) /\ UNCHANGED pool
    \/ Spurious
    \/ UNCHANGED vars

LEMMA PoolSteps == [RefitNext]_allVars => PoolStep
<1> SUFFICES ASSUME [RefitNext]_allVars PROVE PoolStep
  OBVIOUS
<1>1. CASE Move \/ Moved \/ AllSubmitted \/ GetResult \/ FcnReturn \/ UNCHANGED allVars
  BY <1>1 DEF Move, Moved, AllSubmitted, GetResult, FcnReturn, allVars, PoolStep
<1>2. CASE SubmitRefit \/ RefitInline \/ WaitForPool
  BY <1>2 DEF SubmitRefit, RefitInline, WaitForPool, PoolStep
<1>3. CASE \/ MainStep /\ UNCHANGED refitVars
           \/ \E w \in Workers : RefitWorker(w)
           \/ Spurious /\ UNCHANGED refitVars
  BY <1>3 DEF RefitWorker, PoolStep
<1> QED
  BY <1>1, <1>2, <1>3 DEF RefitNext, FcnStep

LEMMA PoolNext == PoolStep => [Next]_vars
BY DEF PoolStep, Next, MainCall

\* The pools of the alignment.
LEMMA RefitPool ==
    ASSUME TypeOK
    PROVE  /\ ~Buffered /\ pool.events = NumEvents /\ "initialize" \notin Throwing
           /\ next \in Nat /\ next <= NumEvents
<1>1. pool \in Pools
  BY DEF TypeOK
<1>2. ~pool.buffered /\ pool.events = NumEvents /\ "initialize" \notin pool.throwing
  BY <1>1, AlignmentAssumption
<1> QED
  BY <1>2, PoolFacts DEF Buffered, Throwing

-----------------------------------------------------------------------------
(* What the pool does *)

LEMMA PlainStep ==
    ASSUME Inv, Inv', PlainInv, PoolStep
    PROVE  PlainInv'
<1>0. /\ TypeOK /\ ControlInv /\ RefusedInv /\ PlaceInv /\ FreshInv
      /\ TypeOK' /\ ControlInv' /\ UNCHANGED pool
  BY PoolNext, PoolKept DEF Inv
<1>1. ~done'
  <2>1. done' = done
    BY DEF PoolStep, WorkerStep, WorkerStart, WorkerPop, WorkerPopped, TaskSubmit,
       TaskSubmitted, TaskComplete, TaskCompleted, TaskReturn, TaskThrow, WorkerFinish,
       WorkerLeave, WorkerCatch, InQueue, MainStep, Submitted, WaitSleep, WaitReturn,
       Join, Submit, SubmitInline, Wait, Spurious, Wakeup, WaitSpurious, vars, poolVars
  <2> QED
    BY <2>1 DEF PlainInv
<1>2. ASSUME NEW n \in Events PROVE future'[Ordered(n)] = "none"
  <2>1. Ordered(n) \in Task /\ Ordered(n).ordered
    BY JobFacts
  <2>2. QueueMoved \/ PoolMove
    BY <1>0, PoolNext, Moves
  <2>3. future[Ordered(n)] = "none"
    BY DEF PlainInv
  <2>4. SUFFICES ASSUME future'[Ordered(n)] # "none" PROVE FALSE
    OBVIOUS
  <2>5. \/ \E t \in Threads : SubmitJob(t, Ordered(n))
        \/ Ordered(n) = Plain(next)
    BY <1>0, <2>1, <2>2, <2>3, <2>4, FutureMoves
  <2>6. ~Plain(next).ordered /\ ~Plain(next').ordered
    BY JobFacts
  <2>7. PICK t \in Threads : SubmitJob(t, Ordered(n))
    BY <2>1, <2>5, <2>6
  <2>8. t # Main /\ t \in Workers /\ wpc'[t] = "submitting"
    BY <1>0, <2>1, <2>6, <2>7, SubmitBy
  <2>9. Buffered'
    BY <1>0, <2>8 DEF ControlInv, WorkerInv
  <2> QED
    BY <1>0, <2>9, RefitPool DEF Buffered
<1>3. ASSUME NEW w \in Workers, wpc'[w] = "catch" PROVE task'[w] \in Task
  <2>1. CASE \E v \in Workers : WorkerStep(v)
    <3>1. PICK v \in Workers : WorkerStep(v)
      BY <2>1
    <3>2. CASE v # w
      <4>1. wpc'[w] = wpc[w] /\ task'[w] = task[w]
        BY <1>0, <3>1, <3>2, PoolFacts, QueueOneThread, WorkerOneThread DEF OneThread
      <4> QED
        BY <1>3, <4>1 DEF PlainInv
    <3>3. CASE v = w
      <4>1. CASE InQueue(w)
        BY <1>3, <4>1 DEF InQueue, poolVars, PlainInv
      <4>2. CASE TaskThrow(w)
        BY <1>0, <4>2 DEF TaskThrow, ControlInv, WorkerInv
      <4>3. CASE WorkerStart(w) \/ WorkerLeave(w)
        BY <1>0, <1>3, <4>3, RefitPool DEF WorkerStart, WorkerLeave, PlainInv, GotoW, TypeOK
      <4>4. CASE \/ WorkerPop(w) \/ WorkerPopped(w) \/ TaskSubmit(w) \/ TaskSubmitted(w)
                 \/ TaskComplete(w) \/ TaskCompleted(w) \/ TaskReturn(w)
                 \/ WorkerFinish(w) \/ WorkerCatch(w)
        <5>1. wpc'[w] # "catch"
          BY <1>0, <4>4 DEF WorkerPop, WorkerPopped, TaskSubmit, TaskSubmitted,
             TaskComplete, TaskCompleted, TaskReturn, WorkerFinish, WorkerCatch, GotoW, TypeOK
        <5> QED
          BY <1>3, <5>1
      <4> QED
        BY <3>1, <3>3, <4>1, <4>2, <4>3, <4>4 DEF WorkerStep
    <3> QED
      BY <3>2, <3>3
  <2>2. CASE ~(\E v \in Workers : WorkerStep(v))
    <3>1. wpc' = wpc /\ task' = task
      BY <2>2 DEF PoolStep, InQueue, MainStep, Submitted, WaitSleep, WaitReturn,
         Join, Submit, SubmitInline, Wait, Spurious, Wakeup, WaitSpurious, vars, poolVars
    <3> QED
      BY <1>3, <3>1 DEF PlainInv
  <2> QED
    BY <2>1, <2>2
<1> QED
  BY <1>1, <1>2, <1>3 DEF PlainInv

\* Only a worker whose job has thrown invalidates the queue or drops jobs, and only
\* submit() leaves a future without a state.
LEMMA Dropped ==
    ASSUME TypeOK, ControlInv, PlainInv, PoolStep
    PROVE  /\ valid /\ ~valid' => \E w \in Workers : WorkerCatch(w)
           /\ \A k \in Task : future[k] # "broken" /\ future'[k] = "broken" =>
                Queued(k) /\ \E w \in Workers : WorkerCatch(w)
           /\ \A k \in Task : future[k] # "nostate" /\ future'[k] = "nostate" =>
                k = Plain(next) /\ Submitted /\ ~ok[Main]
<1> DEFINE Goal ==
           /\ valid /\ ~valid' => \E w \in Workers : WorkerCatch(w)
           /\ \A k \in Task : future[k] # "broken" /\ future'[k] = "broken" =>
                Queued(k) /\ \E w \in Workers : WorkerCatch(w)
           /\ \A k \in Task : future[k] # "nostate" /\ future'[k] = "nostate" =>
                k = Plain(next) /\ Submitted /\ ~ok[Main]
<1> SUFFICES Goal
  OBVIOUS
<1>1. ASSUME UNCHANGED <<valid, future>> PROVE Goal
  BY <1>1
<1>2. ASSUME NEW w \in Workers, WorkerStep(w) PROVE Goal
  <2>1. CASE WorkerStart(w) \/ WorkerPop(w) \/ WorkerPopped(w) \/ TaskComplete(w)
             \/ TaskCompleted(w) \/ WorkerFinish(w) \/ WorkerLeave(w)
    BY <1>1, <2>1 DEF WorkerStart, WorkerPop, WorkerPopped, TaskComplete, TaskCompleted,
       WorkerFinish, WorkerLeave, CallPop, CallComplete, Enter, queueVars, data
  <2>2. CASE TaskSubmit(w) \/ TaskSubmitted(w)
    BY <2>2, RefitPool DEF TaskSubmit, TaskSubmitted, ControlInv, WorkerInv
  <2>3. CASE TaskReturn(w) \/ TaskThrow(w)
    <3>1. valid' = valid
      BY <2>3 DEF TaskReturn, TaskThrow, queueVars, data
    <3> QED
      BY <2>3, <3>1 DEF TaskReturn, TaskThrow, TypeOK
  <2>4. CASE WorkerCatch(w)
    <3>1. \A k \in Task : future'[k] = future[k] \/ (future'[k] = "broken" /\ Queued(k))
      BY <2>4 DEF WorkerCatch, Drop
    <3> QED
      BY <2>4, <3>1
  <2>5. CASE InQueue(w)
    BY <1>1, <2>5, PoolFacts, QueueOneThread
  <2> QED
    BY <1>2, <2>1, <2>2, <2>3, <2>4, <2>5 DEF WorkerStep
<1>3. CASE MainStep
  <2>1. CASE Submitted
    <3>1. valid' = valid
      BY <2>1 DEF Submitted, queueVars, data
    <3>2. future' = future \/ (~ok[Main] /\ future' = [future EXCEPT ![Plain(next)] = "nostate"])
      BY <2>1, Zenon DEF Submitted
    <3> QED
      BY <2>1, <3>1, <3>2 DEF TypeOK
  <2>2. CASE WaitSleep \/ WaitReturn \/ Join
    BY <1>1, <2>2 DEF WaitSleep, WaitReturn, Join, queueVars, data
  <2>3. CASE InQueue(Main)
    BY <1>1, <2>3, PoolFacts, QueueOneThread
  <2> QED
    BY <1>3, <2>1, <2>2, <2>3 DEF MainStep
<1>4. CASE (Submit \/ SubmitInline \/ Wait) /\ UNCHANGED pool
  <2>1. valid' = valid
    BY <1>4 DEF Submit, SubmitInline, Wait, CallPush, Enter, queueVars, data
  <2> QED
    BY <1>4, <2>1 DEF Submit, SubmitInline, Wait, TypeOK
<1>5. CASE Spurious \/ UNCHANGED vars
  BY <1>1, <1>5 DEF Spurious, Wakeup, WaitSpurious, SpuriousWake, vars, poolVars, queueVars, data
<1> QED
  BY <1>2, <1>3, <1>4, <1>5 DEF PoolStep
\* What a thread has or submits is a plain job, submitted earlier than the next one.
LEMMA PlainJobs ==
    ASSUME Inv, PlainInv
    PROVE  /\ \A k \in Task : future[k] # "none" =>
                /\ ~k.ordered /\ k.event \in Nat
                /\ k.event <= next /\ (k.event = next => k = Plain(next))
           /\ \A w \in Workers : Hand[w] \in Task => future[Hand[w]] # "none"
           /\ \A t \in Threads : Sent[t] \in Task => t = Main /\ Sent[t] = Plain(next)
           /\ priority_queue = {}
<1>0. TypeOK /\ ControlInv /\ PlaceInv /\ FreshInv
  BY DEF Inv
<1> USE PoolFacts, JobFacts
<1>1. ASSUME NEW k \in Task, future[k] # "none"
      PROVE  /\ ~k.ordered /\ k.event \in Nat
             /\ k.event <= next /\ (k.event = next => k = Plain(next))
  <2>1. k.event \in Events
    OBVIOUS
  <2>2. ~k.ordered
    BY <1>1, <2>1 DEF PlainInv
  <2>3. k = Plain(k.event)
    BY <2>2
  <2>4. k.event < next \/ k.event = next
    BY <1>0, <1>1, <2>1, <2>3 DEF FreshInv
  <2> QED
    BY <1>0, <2>1, <2>2, <2>3, <2>4
<1>2. ASSUME NEW w \in Workers, Hand[w] \in Task PROVE future[Hand[w]] # "none"
  BY <1>0, <1>2 DEF PlaceInv, Due
<1>3. ASSUME NEW t \in Threads, Sent[t] \in Task PROVE t = Main /\ Sent[t] = Plain(next)
  <2>1. Sent[t] = Submitting[t] /\ Submitting[t] \in Task
    BY <1>0, <1>3, PlaceTypes
  <2>2. future[Submitting[t]] # "none"
    BY <1>0, <2>1 DEF FreshInv
  <2>3. ~Submitting[t].ordered
    BY <1>1, <2>1, <2>2
  <2>4. t = Main
    BY <1>0, <2>1, <2>3 DEF Submitting
  <2> QED
    BY <1>0, <2>1, <2>4 DEF Submitting
<1>4. priority_queue = {}
  <2>1. SUFFICES ASSUME NEW e \in priority_queue PROVE FALSE
    OBVIOUS
  <2>2. e.job \in Task /\ e.job.ordered
    BY <1>0, <2>1, QueuesDiffer
  <2>3. future[e.job] = "pending"
    BY <1>0, <2>1 DEF PlaceInv
  <2> QED
    BY <1>1, <2>2, <2>3
<1> QED
  BY <1>1, <1>2, <1>3, <1>4

\* A job that has thrown has thrown, whatever is dropped later.
LEMMA ThrewKept ==
    ASSUME Inv, PoolStep
    PROVE  /\ \A n \in Events : Threw(n) => Threw(n)'
           /\ \A n \in Events : future[Plain(n)] = "value" => future'[Plain(n)] = "value"
<1>0. TypeOK /\ ControlInv /\ RefusedInv /\ PlaceInv /\ FreshInv
  BY DEF Inv
<1>1. QueueMoved \/ PoolMove
  BY <1>0, PoolNext, Moves
<1>2. \A k \in Task : future[k] \notin {"none", "pending"} => future'[k] = future[k]
  BY <1>0, <1>1, FutureMoves
<1>3. \A n \in Events : Plain(n) \in Task
  BY JobFacts
<1> QED
  BY <1>2, <1>3 DEF Threw

\* The job of a worker that catches an exception.
LEMMA CatchThrew ==
    ASSUME Inv, PlainInv, NEW w \in Workers, WorkerCatch(w)
    PROVE  /\ Hand[w] \in Task /\ Hand[w].event \in Events
           /\ Hand[w] = Plain(Hand[w].event) /\ Threw(Hand[w].event)
<1>0. TypeOK /\ ControlInv /\ PlaceInv
  BY DEF Inv
<1>1. wpc[w] = "catch" /\ task[w] \in Task
  BY DEF WorkerCatch, PlainInv
<1>2. Hand[w] = task[w] /\ Due(w) = "exception"
  BY <1>1 DEF Hand, Due
<1>3. future[Hand[w]] = "exception"
  BY <1>0, <1>1, <1>2 DEF PlaceInv
<1>4. ~Hand[w].ordered
  BY <1>1, <1>2, <1>3, PlainJobs
<1>5. Hand[w] = Plain(Hand[w].event) /\ Hand[w].event \in Events
  BY <1>1, <1>2, <1>4, JobFacts
<1> QED
  BY <1>1, <1>2, <1>3, <1>5 DEF Threw

LEMMA ThrownStep ==
    ASSUME Inv, PlainInv, ThrownInv, PoolStep
    PROVE  ThrownInv'
<1>0. TypeOK /\ ControlInv
  BY DEF Inv
<1>1. SUFFICES ASSUME ~valid' PROVE \E n \in Events : Threw(n)'
  BY DEF ThrownInv
<1>2. CASE valid
  <2>1. PICK w \in Workers : WorkerCatch(w)
    BY <1>0, <1>1, <1>2, Dropped
  <2> QED
    BY <2>1, CatchThrew, ThrewKept
<1>3. CASE ~valid
  BY <1>3, ThrewKept DEF ThrownInv
<1> QED
  BY <1>2, <1>3

LEMMA CauseStep ==
    ASSUME Inv, PlainInv, FifoInv, ThrownInv, CauseInv, PoolStep
    PROVE  CauseInv'
<1>0. TypeOK /\ ControlInv /\ RefusedInv /\ PlaceInv /\ FreshInv
  BY DEF Inv
<1> USE JobFacts
<1>1. SUFFICES ASSUME NEW n \in Events, future'[Plain(n)] \in {"broken", "nostate"}
               PROVE  \E m \in 0..(n - 1) : Threw(m)'
  BY DEF CauseInv
<1>2. \A m \in 0..(n - 1) : m \in Events
  BY ThreadPoolAssumption DEF Events
<1>3. SUFFICES \E m \in 0..(n - 1) : Threw(m)
  BY <1>2, ThrewKept
<1>4. CASE future[Plain(n)] \in {"broken", "nostate"}
  BY <1>4 DEF CauseInv
<1>5. CASE future[Plain(n)] # "broken" /\ future'[Plain(n)] = "broken"
  <2>1. Plain(n) \in Task /\ ~Plain(n).ordered /\ Plain(n).event = n
    OBVIOUS
  <2>2. Queued(Plain(n)) /\ \E w \in Workers : WorkerCatch(w)
    BY <1>0, <1>5, <2>1, Dropped
  <2>3. PICK w \in Workers : WorkerCatch(w)
    BY <2>2
  <2>4. PICK i \in 1..Len(queue) : queue[i] = Plain(n)
    BY <2>2, PlainJobs DEF Queued
  <2>5. /\ Hand[w] \in Task /\ Hand[w].event \in Events /\ Threw(Hand[w].event)
    BY <2>3, CatchThrew
  <2>6. Hand[w].event < n
    BY <2>1, <2>4, <2>5 DEF FifoInv
  <2>7. Hand[w].event \in 0..(n - 1)
    BY <2>5, <2>6
  <2> QED
    BY <2>5, <2>7
<1>6. CASE future[Plain(n)] # "nostate" /\ future'[Plain(n)] = "nostate"
  <2>1. Plain(n) \in Task /\ ~Plain(n).ordered /\ Plain(n).event = n
    OBVIOUS
  <2>2. Plain(n) = Plain(next) /\ Submitted /\ ~ok[Main]
    BY <1>0, <1>6, <2>1, Dropped
  <2>3. n = next
    BY <2>1, <2>2
  <2>4. Main \in Threads /\ at[Main] = "idle" /\ mpc = "submitting"
    BY <1>0, <2>2, PoolFacts DEF Submitted
  <2>5. Sent[Main] = Plain(n)
    BY <2>2, <2>3, <2>4 DEF Sent, Open, Submitting
  <2>6. Plain(n) # NoJob
    BY <1>0, <2>1, PoolFacts
  <2>7. ~valid
    BY <1>0, <2>4, <2>5, <2>6 DEF RefusedInv
  <2>8. PICK m \in Events : Threw(m)
    BY <2>7 DEF ThrownInv
  <2>9. future[Plain(n)] = "pending"
    BY <1>0, <2>1, <2>4, <2>5 DEF PlaceInv
  <2>10. m # n
    BY <2>8, <2>9 DEF Threw
  <2>11. Plain(m) \in Task /\ Plain(m).event = m /\ future[Plain(m)] # "none"
    BY <2>8 DEF Threw
  <2>12. m <= next
    BY <2>11, PlainJobs
  <2>13. m \in 0..(n - 1)
    BY <2>3, <2>8, <2>10, <2>12
  <2> QED
    BY <2>8, <2>13
<1> QED
  BY <1>1, <1>4, <1>5, <1>6

\* A worker takes the first job, and the main thread puts its job at the end.
LEMMA FifoStep ==
    ASSUME Inv, PlainInv, FifoInv, PoolStep
    PROVE  FifoInv'
<1>0. TypeOK /\ ControlInv /\ RefusedInv /\ PlaceInv /\ FreshInv
  BY DEF Inv
<1> USE JobFacts
<1>1. QueueMoved \/ PoolMove
  BY <1>0, PoolNext, Moves
<1>2. /\ queue \in Seq(Task) /\ Hand \in [Workers -> Task \cup {NoJob}]
      /\ NoJob \notin Task
  BY <1>0, PlaceTypes, PoolFacts
<1>3. ASSUME queue' = queue, \A w \in Workers : Hand'[w] \in {Hand[w], NoJob}
      PROVE  FifoInv'
  BY <1>2, <1>3 DEF FifoInv
<1>4. ASSUME NEW w \in Workers, TakePlain(w) PROVE FifoInv'
  <2>1. /\ queue # <<>> /\ queue' = Tail(queue) /\ Hand' = [Hand EXCEPT ![w] = queue[1]]
    BY <1>2, <1>4 DEF TakePlain, Take
  <2>2. /\ Len(queue') = Len(queue) - 1 /\ Len(queue) \in Nat
        /\ \A i \in 1..Len(queue') : queue'[i] = queue[i + 1]
    BY <1>2, <2>1
  <2>3. ASSUME NEW i \in 1..Len(queue')
        PROVE  /\ \A k \in 1..(i - 1) : queue'[k].event < queue'[i].event
               /\ \A v \in Workers : Hand'[v] \in Task => Hand'[v].event < queue'[i].event
    <3>1. i + 1 \in 1..Len(queue) /\ queue'[i] = queue[i + 1] /\ 1 \in 1..((i + 1) - 1)
      BY <2>2
    <3>2. /\ \A k \in 1..((i + 1) - 1) : queue[k].event < queue[i + 1].event
          /\ \A v \in Workers : Hand[v] \in Task => Hand[v].event < queue[i + 1].event
      BY <3>1 DEF FifoInv
    <3>3. \A k \in 1..(i - 1) : k + 1 \in 1..((i + 1) - 1) /\ queue'[k] = queue[k + 1]
      BY <2>2
    <3>4. \A v \in Workers : Hand'[v] \in {Hand[v], queue[1]}
      BY <1>2, <2>1
    <3> QED
      BY <3>1, <3>2, <3>3, <3>4
  <2> QED
    BY <2>3 DEF FifoInv
<1>5. CASE PutPlain
  <2>1. /\ Sent[Main] \in Task /\ queue' = Append(queue, Sent[Main]) /\ Hand' = Hand
    BY <1>5 DEF PutPlain, Put
  <2>2. Main \in Threads /\ Sent[Main] = Plain(next)
    BY <1>0, <2>1, PlainJobs, PoolFacts
  <2>3. /\ Len(queue') = Len(queue) + 1 /\ Len(queue) \in Nat
        /\ \A i \in 1..Len(queue) : queue'[i] = queue[i]
        /\ queue'[Len(queue) + 1] = Plain(next)
    BY <1>2, <2>1, <2>2
  <2>4. ~Queued(Plain(next)) /\ \A w \in Workers : Hand[w] # Plain(next)
    BY <1>0, <2>1, <2>2 DEF PlaceInv
  <2>5. \A i \in 1..Len(queue) : queue[i].event < next
    <3>1. TAKE i \in 1..Len(queue)
    <3>2. queue[i] \in Task /\ queue[i] # Plain(next) /\ future[queue[i]] = "pending"
      BY <1>0, <1>2, <2>4 DEF Queued, PlaceInv
    <3> QED
      BY <1>0, <3>2, PlainJobs, PoolFacts
  <2>6. \A w \in Workers : Hand[w] \in Task => Hand[w].event < next
    BY <1>0, <2>4, PlainJobs, PoolFacts
  <2>7. ASSUME NEW i \in 1..Len(queue')
        PROVE  /\ \A k \in 1..(i - 1) : queue'[k].event < queue'[i].event
               /\ \A w \in Workers : Hand'[w] \in Task => Hand'[w].event < queue'[i].event
    <3>1. CASE i = Len(queue) + 1
      <4>1. queue'[i].event = next /\ \A k \in 1..(i - 1) : k \in 1..Len(queue)
        BY <2>3, <3>1
      <4> QED
        BY <2>1, <2>3, <2>5, <2>6, <4>1
    <3>2. CASE i \in 1..Len(queue)
      <4>1. \A k \in 1..(i - 1) : k \in 1..Len(queue)
        BY <2>3, <3>2
      <4> QED
        BY <2>1, <2>3, <3>2, <4>1 DEF FifoInv
    <3> QED
      BY <2>3, <3>1, <3>2
  <2> QED
    BY <2>7 DEF FifoInv
<1>6. CASE QueueMoved
  <2>1. PICK t \in Threads : QueueMove(t)
    BY <1>6 DEF QueueMoved
  <2>2. CASE Stay
    BY <1>3, <2>2 DEF Stay
  <2>3. CASE t \in Workers /\ TakeOrdered(t)
    BY <2>3, PlainJobs DEF TakeOrdered
  <2>4. CASE t \in Workers /\ PutOrdered(t)
    BY <1>3, <2>4 DEF PutOrdered, Put
  <2> QED
    BY <1>4, <1>5, <2>1, <2>2, <2>3, <2>4 DEF QueueMove
<1>7. CASE PoolMove
  <2>1. CASE DropAll
    BY <2>1 DEF DropAll, FifoInv
  <2>2. CASE Calm
    BY <1>3, <2>2 DEF Calm, Stay
  <2>3. CASE \/ \E t \in Threads, j \in Task : SubmitJob(t, j)
             \/ \E t \in Threads : Answer(t)
             \/ \E w \in Workers, r \in {"value", "exception"} : EndJob(w, r)
             \/ \E r \in {"value", "exception"} : RunAtOnce(r)
    BY <1>3, <2>3 DEF SubmitJob, Answer, EndJob, RunAtOnce
  <2>4. CASE \E w \in Workers : CountOff(w) \/ Forget(w)
    BY <1>2, <1>3, <2>4 DEF CountOff, Forget, Dismiss, Lose
  <2> QED
    BY <1>7, <2>1, <2>2, <2>3, <2>4 DEF PoolMove
<1> QED
  BY <1>1, <1>6, <1>7

-----------------------------------------------------------------------------
(* Outside a call nothing runs *)

LEMMA CallFacts ==
    ASSUME RefitTypeOK
    PROVE  /\ NumTracks \in Nat \ {0} /\ First \in Int
           /\ call \in Nat /\ got \in Nat /\ got <= NumTracks
<1>1. NumTracks \in Nat \ {0} /\ NumCalls \in Nat
  BY AlignmentAssumption
<1> QED
  BY <1>1 DEF RefitTypeOK, First

LEMMA Quiet ==
    ASSUME Inv, RefitInv, fcn \in {"outside", "moving"}
    PROVE  /\ \A k \in Task : future[k] # "pending"
           /\ \A w \in Workers : /\ Hand[w] \in Task => Due(w) # "pending"
                                 /\ wpc[w] \notin {"run", "ran"}
<1>0. /\ TypeOK /\ ControlInv /\ PlaceInv /\ FreshInv
      /\ PlainInv /\ FcnInv /\ CallInv /\ ValueInv /\ RefitTypeOK
  BY DEF Inv, RefitInv
<1> USE JobFacts
<1>1. ASSUME NEW k \in Task, future[k] = "pending" PROVE FALSE
  <2>1. ~k.ordered /\ k.event \in Nat /\ k.event \in Events /\ k.event <= next
    BY <1>0, <1>1, PlainJobs
  <2>2. k = Plain(k.event)
    BY <2>1
  <2>3. mpc = "idle"
    BY <1>0 DEF FcnInv
  <2>4. k.event < next
    BY <1>0, <1>1, <2>1, <2>2, <2>3 DEF FreshInv
  <2>5. next = First + NumTracks /\ (got = NumTracks \/ next = 0)
    BY <1>0 DEF CallInv
  <2>6. k.event < First + got
    BY <1>0, <2>1, <2>4, <2>5, CallFacts
  <2> QED
    BY <1>0, <1>1, <2>1, <2>2, <2>6 DEF ValueInv
<1>2. ASSUME NEW w \in Workers
      PROVE  /\ Hand[w] \in Task => Due(w) # "pending"
             /\ wpc[w] \notin {"run", "ran"}
  <2>1. Hand[w] \in Task => Due(w) # "pending"
    BY <1>0, <1>1 DEF PlaceInv
  <2>2. wpc[w] \in {"run", "ran"} => Hand[w] \in Task /\ Due(w) = "pending"
    BY <1>0 DEF ControlInv, WorkerInv, Hand, Due
  <2> QED
    BY <2>1, <2>2
<1> QED
  BY <1>1, <1>2

-----------------------------------------------------------------------------
(* The steps of the alignment *)

LEMMA RefitTypeStep ==
    ASSUME Inv, Inv', RefitInv, [RefitNext]_allVars
    PROVE  RefitTypeOK'
<1>0. /\ TypeOK /\ ControlInv /\ RefitTypeOK /\ CallInv
  BY DEF Inv, RefitInv
<1> USE CallFacts
<1>1. Reading \in Nat \cup {Torn}
  BY <1>0 DEF Reading, RefitTypeOK
<1>2. CASE \/ Move \/ AllSubmitted \/ WaitForPool \/ FcnReturn
           \/ UNCHANGED allVars \/ SubmitRefit
           \/ (MainStep \/ Spurious) /\ UNCHANGED refitVars
  BY <1>0, <1>2 DEF Move, AllSubmitted, WaitForPool, FcnReturn, allVars, SubmitRefit,
     refitVars, RefitTypeOK, Places
<1>3. CASE Moved
  <2>1. params' \in Nat /\ fcn' \in Places
    BY <1>0, <1>3 DEF Moved, RefitTypeOK, Places
  <2>2. call' \in 0..NumCalls /\ got' \in 0..NumTracks
    BY <1>0, <1>3, AlignmentAssumption DEF Moved, RefitTypeOK
  <2> QED
    BY <1>0, <1>3, <2>1, <2>2 DEF Moved, RefitTypeOK
<1>4. CASE GetResult
  <2>1. Plain(First + got) \in Task
    <3>1. got < NumTracks /\ fcn = "getting"
      BY <1>4 DEF GetResult
    <3>2. next = First + NumTracks /\ First >= 0 /\ next <= NumEvents
      BY <1>0, <3>1, RefitPool DEF CallInv
    <3>3. First + got \in Nat /\ First + got < NumEvents
      BY <1>0, <3>1, <3>2, ThreadPoolAssumption
    <3> QED
      BY <3>3, JobFacts
  <2>2. future[Plain(First + got)] \in States
    BY <1>0, <2>1 DEF TypeOK
  <2>3. got' \in 0..NumTracks
    BY <1>0, <1>4 DEF GetResult
  <2>4. fcn' \in Places /\ cause' \in States
    BY <1>0, <1>4, <2>2 DEF GetResult, RefitTypeOK, Places
  <2> QED
    BY <1>0, <1>4, <2>3, <2>4 DEF GetResult, RefitTypeOK
<1>5. CASE RefitInline
  <2>1. chi2' = chi2 \/ chi2' = [chi2 EXCEPT ![next] = Reading]
    BY <1>5, Zenon DEF RefitInline
  <2>2. chi2' \in [Events -> Nat \cup {Torn}]
    BY <1>0, <1>1, <2>1 DEF RefitTypeOK
  <2>3. fcn' \in Places /\ cause' \in States
    BY <1>0, <1>5 DEF RefitInline, RefitTypeOK, Places, States
  <2> QED
    BY <1>0, <1>5, <2>2, <2>3 DEF RefitInline, RefitTypeOK
<1>6. ASSUME NEW w \in Workers, RefitWorker(w) PROVE RefitTypeOK'
  <2>1. seen' \in [Workers -> Nat \cup {Torn}]
    BY <1>0, <1>1, <1>6 DEF RefitWorker, RefitTypeOK
  <2>2. \E r \in Nat \cup {Torn} :
            chi2' = chi2 \/ chi2' = [chi2 EXCEPT ![task[w].event] = r]
    <3>1. CASE wpc[w] = "run" /\ wpc'[w] = "finish"
      <4>1. CASE seen[w] = Reading
        BY <1>1, <1>6, <3>1, <4>1 DEF RefitWorker
      <4>2. CASE seen[w] # Reading
        BY <1>6, <3>1, <4>2 DEF RefitWorker
      <4> QED
        BY <4>1, <4>2
    <3>2. CASE ~(wpc[w] = "run" /\ wpc'[w] = "finish")
      BY <1>6, <3>2 DEF RefitWorker
    <3> QED
      BY <3>1, <3>2
  <2>3. chi2' \in [Events -> Nat \cup {Torn}]
    BY <1>0, <2>2 DEF RefitTypeOK
  <2> QED
    BY <1>0, <1>6, <2>1, <2>3 DEF RefitWorker, RefitTypeOK
<1> QED
  BY <1>2, <1>3, <1>4, <1>5, <1>6 DEF RefitNext, FcnStep

\* What moves the main thread and its count, and when.
LEMMA MainMovesBy ==
    ASSUME Inv, RefitTypeOK, FcnInv, [RefitNext]_allVars, fcn' = fcn
    PROVE  \/ mpc' = mpc /\ next' = next
           \/ fcn = "submitting" /\ mpc = "idle" /\ mpc' = "submitting" /\ next' = next
              /\ next < First + NumTracks
           \/ fcn = "submitting" /\ mpc = "submitting" /\ mpc' = "idle" /\ next' = next + 1
           \/ fcn = "submitting" /\ mpc = "idle" /\ mpc' = "idle" /\ next' = next + 1
              /\ next < First + NumTracks
           \/ mpc = "waiting" /\ mpc' = "idle" /\ next' = next
<1>0. TypeOK /\ ControlInv
  BY DEF Inv
<1>1. CASE Move \/ Moved \/ AllSubmitted \/ GetResult \/ FcnReturn \/ UNCHANGED allVars
  BY <1>1 DEF Move, Moved, AllSubmitted, GetResult, FcnReturn, allVars, vars, poolVars
<1>2. CASE SubmitRefit
  BY <1>2 DEF SubmitRefit, Submit
<1>3. CASE RefitInline
  BY <1>3 DEF RefitInline, SubmitInline
<1>4. CASE WaitForPool
  BY <1>4 DEF WaitForPool
<1>5. CASE MainStep
  <2>1. CASE Submitted
    BY <2>1 DEF Submitted, FcnInv, RefitTypeOK, Places
  <2>2. CASE WaitReturn
    BY <2>2 DEF WaitReturn
  <2>3. CASE WaitSleep \/ InQueue(Main)
    BY <2>3 DEF WaitSleep, InQueue, poolVars
  <2>4. CASE Join
    <3>1. mpc = "joining" /\ mpc' = "dead"
      BY <2>4 DEF Join
    <3> QED
      BY <3>1 DEF FcnInv, RefitTypeOK, Places
  <2> QED
    BY <1>5, <2>1, <2>2, <2>3, <2>4 DEF MainStep
<1>6. CASE \E w \in Workers : RefitWorker(w)
  BY <1>0, <1>6, PoolFacts, QueueOneThread, WorkerOneThread DEF RefitWorker
<1>7. CASE Spurious
  BY <1>7 DEF Spurious, Wakeup, WaitSpurious, poolVars
<1> QED
  BY <1>1, <1>2, <1>3, <1>4, <1>5, <1>6, <1>7 DEF RefitNext, FcnStep
LEMMA CallStep ==
    ASSUME Inv, RefitInv, [RefitNext]_allVars
    PROVE  FcnInv' /\ CallInv'
<1>0. TypeOK /\ RefitTypeOK /\ FcnInv /\ CallInv
  BY DEF Inv, RefitInv
<1> USE CallFacts, RefitPool
<1>1. CASE Move
  BY <1>0, <1>1 DEF Move, vars, poolVars, FcnInv, CallInv, First
<1>2. CASE Moved
  <2>1. fcn = "moving" /\ mpc = "idle" /\ UNCHANGED <<mpc, next>>
    BY <1>0, <1>2 DEF Moved, FcnInv, vars, poolVars
  <2>2. CASE fcn' = "outside"
    BY <1>0, <1>2, <2>1, <2>2 DEF Moved, FcnInv, CallInv, First
  <2>3. CASE fcn' = "submitting" /\ call' = call + 1 /\ got' = 0
    <3>1. First' = First + NumTracks
      BY <1>0, <2>3 DEF First
    <3>2. First' = next /\ next \in Nat
      BY <1>0, <2>1, <3>1 DEF CallInv
    <3>3. FcnInv'
      BY <2>1, <2>3 DEF FcnInv
    <3>4. First' <= next' /\ next' <= First' + NumTracks /\ First' >= 0
      BY <1>0, <2>1, <3>2
    <3> QED
      BY <2>1, <2>3, <3>3, <3>4 DEF CallInv
  <2> QED
    BY <1>2, <2>2, <2>3 DEF Moved
<1>3. CASE AllSubmitted
  BY <1>0, <1>3 DEF AllSubmitted, vars, poolVars, FcnInv, CallInv, First
<1>4. CASE GetResult
  <2>1. /\ fcn = "getting" /\ fcn' \in {"getting", "failed"} /\ mpc = "idle"
        /\ UNCHANGED <<mpc, next, call>>
    BY <1>0, <1>4 DEF GetResult, FcnInv, vars, poolVars
  <2> QED
    BY <1>0, <2>1 DEF FcnInv, CallInv, First
<1>5. CASE WaitForPool
  <2>1. /\ fcn = "getting" /\ got = NumTracks /\ fcn' = "waiting" /\ mpc' = "waiting"
        /\ UNCHANGED <<next, call, got>>
    BY <1>5 DEF WaitForPool, Wait
  <2> QED
    BY <1>0, <2>1 DEF FcnInv, CallInv, First
<1>6. CASE FcnReturn
  <2>1. /\ fcn = "waiting" /\ fcn' = "outside" /\ mpc' = "idle"
        /\ UNCHANGED <<next, call, got>>
    BY <1>6 DEF FcnReturn, vars, poolVars
  <2> QED
    BY <1>0, <2>1 DEF FcnInv, CallInv, First
<1>7. CASE RefitInline /\ fcn' # fcn
  <2>1. fcn' = "failed" /\ mpc' = "idle"
    BY <1>7 DEF RefitInline, SubmitInline
  <2> QED
    BY <2>1 DEF FcnInv, CallInv
<1>8. CASE \/ SubmitRefit \/ (RefitInline /\ fcn' = fcn) \/ UNCHANGED allVars
           \/ (MainStep \/ Spurious) /\ UNCHANGED refitVars
           \/ \E w \in Workers : RefitWorker(w)
  <2>1. UNCHANGED <<fcn, call, got>>
    BY <1>8 DEF SubmitRefit, RefitInline, allVars, refitVars, RefitWorker
  <2>2. First' = First
    BY <2>1 DEF First
  <2> HIDE DEF First
  <2> QED
    BY <1>0, <2>1, <2>2, MainMovesBy DEF FcnInv, CallInv
<1> QED
  BY <1>1, <1>2, <1>3, <1>4, <1>5, <1>6, <1>7, <1>8 DEF RefitNext, FcnStep

\* A future that get() reads is one of a job that was submitted.
LEMMA GetFacts ==
    ASSUME Inv, RefitInv, GetResult
    PROVE  /\ First + got \in Events /\ Plain(First + got) \in Task
           /\ future[Plain(First + got)] \in {"value", "exception"}
<1>0. /\ TypeOK /\ FreshInv /\ RefitTypeOK /\ CallInv /\ ValueInv /\ CauseInv
  BY DEF Inv, RefitInv
<1>1. got < NumTracks /\ fcn = "getting"
  BY DEF GetResult
<1>2. next = First + NumTracks /\ First >= 0 /\ next <= NumEvents /\ next \in Nat
  BY <1>0, <1>1, RefitPool DEF CallInv
<1>3. First + got \in Nat /\ First + got < NumEvents /\ First + got < next
  BY <1>0, <1>1, <1>2, CallFacts, ThreadPoolAssumption
<1>4. First + got \in Events /\ Plain(First + got) \in Task
  BY <1>3, JobFacts
<1>5. future[Plain(First + got)] \notin {"none", "pending"}
  BY <1>0, <1>3, <1>4 DEF FreshInv, GetResult
<1>6. future[Plain(First + got)] \in States
  BY <1>0, <1>4 DEF TypeOK
<1>7. SUFFICES ASSUME future[Plain(First + got)] \in {"broken", "nostate"} PROVE FALSE
  BY <1>4, <1>5, <1>6 DEF States
<1>8. PICK n \in Events : n = First + got
  BY <1>4
<1>9. n \in Nat /\ future[Plain(n)] \in {"broken", "nostate"}
  BY <1>3, <1>7, <1>8
<1>10. PICK m \in 0..(n - 1) : Threw(m)
  BY <1>0, <1>9 DEF CauseInv
<1>11. m \in Nat /\ m < First + got
  BY <1>8, <1>9, <1>10
<1>12. m \in Events
  BY <1>3, <1>11, JobFacts, ThreadPoolAssumption
<1>13. future[Plain(m)] = "value"
  BY <1>0, <1>11, <1>12 DEF ValueInv
<1> QED
  BY <1>10, <1>13 DEF Threw

LEMMA ValueStep ==
    ASSUME Inv, RefitInv, [RefitNext]_allVars
    PROVE  ValueInv'
<1>0. TypeOK /\ FreshInv /\ RefitTypeOK /\ FcnInv /\ CallInv /\ ValueInv
  BY DEF Inv, RefitInv
<1> USE CallFacts, JobFacts
<1>1. ASSUME First' + got' = First + got PROVE ValueInv'
  BY <1>0, <1>1, PoolSteps, ThrewKept DEF ValueInv
<1>2. CASE Moved
  <2>1. CASE UNCHANGED <<call, got>>
    BY <1>1, <2>1 DEF First
  <2>2. CASE call' = call + 1 /\ got' = 0
    <3>1. First' + got' = First + NumTracks
      BY <1>0, <2>2 DEF First
    <3>2. First + NumTracks = next /\ (got = NumTracks \/ next = 0)
      BY <1>0, <1>2 DEF Moved, CallInv
    <3>3. ASSUME NEW n \in Events, n < next PROVE future'[Plain(n)] = "value"
      <4>1. n \in Nat
        OBVIOUS
      <4>2. got = NumTracks
        BY <3>2, <3>3, <4>1
      <4>3. n < First + got
        BY <3>2, <3>3, <4>2
      <4>4. future[Plain(n)] = "value"
        BY <1>0, <4>3 DEF ValueInv
      <4> QED
        BY <4>4, PoolSteps, ThrewKept
    <3>4. First' + got' = next
      BY <3>1, <3>2
    <3> QED
      BY <3>3, <3>4 DEF ValueInv
  <2> QED
    BY <1>2, <2>1, <2>2 DEF Moved
<1>3. CASE GetResult
  <2>1. First' = First
    BY <1>3 DEF GetResult, First
  <2>2. CASE future[Plain(First + got)] = "value"
    <3>1. got' = got + 1
      BY <1>3, <2>2 DEF GetResult
    <3>2. ASSUME NEW n \in Events, n < First' + got' PROVE future[Plain(n)] = "value"
      <4>1. n < First + got \/ n = First + got
        BY <1>0, <2>1, <3>1, <3>2
      <4> QED
        BY <1>0, <2>2, <4>1 DEF ValueInv
    <3> QED
      BY <3>2, PoolSteps, ThrewKept DEF ValueInv
  <2>3. CASE future[Plain(First + got)] # "value"
    <3>1. got' = got
      BY <1>3, <2>3 DEF GetResult
    <3> QED
      BY <1>1, <2>1, <3>1
  <2> QED
    BY <2>2, <2>3
<1>4. CASE ~Moved /\ ~GetResult
  <2>1. UNCHANGED <<call, got>>
    BY <1>4 DEF RefitNext, FcnStep, Move, AllSubmitted, WaitForPool, FcnReturn, SubmitRefit,
       RefitInline, allVars, refitVars, RefitWorker
  <2> QED
    BY <1>1, <2>1 DEF First
<1> QED
  BY <1>2, <1>3, <1>4

LEMMA GenuineStep ==
    ASSUME Inv, RefitInv, [RefitNext]_allVars
    PROVE  GenuineFailure'
<1>0. GenuineFailure
  BY DEF RefitInv
<1>1. CASE GetResult
  BY <1>0, <1>1, GetFacts DEF GetResult, GenuineFailure
<1>2. CASE RefitInline
  BY <1>0, <1>2 DEF RefitInline, GenuineFailure
<1>3. CASE ~GetResult /\ ~RefitInline
  BY <1>0, <1>3 DEF RefitNext, FcnStep, Move, Moved, AllSubmitted, WaitForPool, FcnReturn,
     SubmitRefit, allVars, refitVars, RefitWorker, GenuineFailure
<1> QED
  BY <1>1, <1>2, <1>3
\* A worker begins to run a job when its pop has returned, and only such a worker
\* makes a future ready with a value, if there are workers.
LEMMA RunSteps ==
    ASSUME TypeOK, ControlInv, NEW w \in Workers, WorkerStep(w)
    PROVE  /\ wpc'[w] = "run" => \/ wpc[w] = "run"
                                 \/ wpc[w] = "popping" /\ Hand[w] \in Task /\ Due(w) = "pending"
           /\ \A v \in Workers \ {w} : wpc'[v] = wpc[v]
           /\ \A k \in Task : future[k] # "value" /\ future'[k] = "value" =>
                wpc[w] = "run" /\ wpc'[w] = "finish" /\ task[w] = k
           /\ wpc[w] = "run" /\ wpc'[w] = "finish" =>
                task[w] \in Task /\ future' = [future EXCEPT ![task[w]] = "value"]
<1> DEFINE Goal ==
           /\ wpc'[w] = "run" => \/ wpc[w] = "run"
                                 \/ wpc[w] = "popping" /\ Hand[w] \in Task /\ Due(w) = "pending"
           /\ \A v \in Workers \ {w} : wpc'[v] = wpc[v]
           /\ \A k \in Task : future[k] # "value" /\ future'[k] = "value" =>
                wpc[w] = "run" /\ wpc'[w] = "finish" /\ task[w] = k
           /\ wpc[w] = "run" /\ wpc'[w] = "finish" =>
                task[w] \in Task /\ future' = [future EXCEPT ![task[w]] = "value"]
<1> SUFFICES Goal
  OBVIOUS
<1> USE DEF GotoW, TypeOK
<1>1. CASE InQueue(w)
  BY <1>1 DEF InQueue, poolVars
<1>2. CASE WorkerPopped(w)
  <2>1. /\ wpc[w] = "popping" /\ wpc' \in {[wpc EXCEPT ![w] = "run"], [wpc EXCEPT ![w] = "loop"]}
        /\ future' = future
        /\ wpc'[w] = "run" => ok[w] /\ at[w] = "idle"
    BY <1>2 DEF WorkerPopped
  <2>2. Hand[w] = job[w] /\ Due(w) = "pending"
    BY <2>1 DEF Hand, Due
  <2>3. wpc'[w] = "run" => job[w] \in Task
    BY <2>1 DEF ControlInv, WorkerInv, InQueueOfPop
  <2> QED
    BY <2>1, <2>2, <2>3
<1>3. CASE TaskReturn(w)
  BY <1>3, RefitPool DEF TaskReturn, ControlInv, WorkerInv
<1>4. CASE WorkerCatch(w)
  <2>1. /\ wpc[w] = "catch" /\ wpc' = [wpc EXCEPT ![w] = "exited"]
        /\ \A k \in Task : future'[k] \in {future[k], "broken"}
    BY <1>4 DEF WorkerCatch, Drop
  <2> QED
    BY <2>1
<1>5. CASE TaskSubmit(w) \/ TaskSubmitted(w) \/ TaskComplete(w)
  BY <1>5, RefitPool DEF TaskSubmit, TaskSubmitted, TaskComplete, ControlInv, WorkerInv
<1>6. CASE \/ WorkerStart(w) \/ WorkerPop(w) \/ TaskCompleted(w) \/ TaskThrow(w)
           \/ WorkerFinish(w) \/ WorkerLeave(w)
  BY <1>6 DEF WorkerStart, WorkerPop, TaskCompleted, TaskThrow, WorkerFinish, WorkerLeave
<1> QED
  BY <1>1, <1>2, <1>3, <1>4, <1>5, <1>6 DEF WorkerStep

\* The main thread runs no job in a worker, and makes no future ready unless there are
\* no workers.
LEMMA MainRuns ==
    ASSUME TypeOK, ControlInv, MainStep \/ Submit \/ Wait \/ Spurious \/ UNCHANGED vars
    PROVE  /\ wpc' = wpc
           /\ \A k \in Task : future'[k] = "value" => future[k] = "value"
<1>1. CASE InQueue(Main) \/ WaitSleep \/ WaitReturn \/ Join \/ Wait \/ Spurious \/ UNCHANGED vars
  BY <1>1 DEF InQueue, WaitSleep, WaitReturn, Join, Wait, Spurious, Wakeup, WaitSpurious,
     vars, poolVars
<1>2. CASE Submit
  BY <1>2 DEF Submit, TypeOK
<1>3. CASE Submitted
  BY <1>3 DEF Submitted, TypeOK
<1> QED
  BY <1>1, <1>2, <1>3 DEF MainStep

LEMMA PositionStep ==
    ASSUME Inv, RefitInv, [RefitNext]_allVars
    PROVE  PositionInv'
<1>0. /\ TypeOK /\ ControlInv /\ FreshInv /\ PlaceInv
      /\ PlainInv /\ RefitTypeOK /\ FcnInv /\ CallInv /\ PositionInv
  BY DEF Inv, RefitInv
<1> USE JobFacts, CallFacts
<1> DEFINE InCall == fcn \in {"submitting", "getting", "waiting"}
\* The main thread moves neither the detector nor a job.
<1>1. ASSUME UNCHANGED <<call, params, seen, chi2>>, InCall' => InCall,
             wpc' = wpc, \A k \in Task : future'[k] = "value" => future[k] = "value"
      PROVE  PositionInv'
  <2>1. First' = First
    BY <1>1 DEF First
  <2> QED
    BY <1>0, <1>1, <2>1 DEF PositionInv
<1>2. CASE Move \/ AllSubmitted \/ FcnReturn \/ UNCHANGED allVars
  BY <1>0, <1>1, <1>2, MainRuns DEF Move, AllSubmitted, FcnReturn, allVars, refitVars
<1>3. CASE GetResult
  BY <1>0, <1>1, <1>3, MainRuns DEF GetResult
<1>4. CASE WaitForPool \/ SubmitRefit \/ ((MainStep \/ Spurious) /\ UNCHANGED refitVars)
  BY <1>0, <1>1, <1>4, MainRuns DEF WaitForPool, SubmitRefit, refitVars
<1>5. CASE Moved
  <2>1. fcn = "moving" /\ UNCHANGED <<wpc, future, mpc, next, seen>>
    BY <1>5 DEF Moved, vars, poolVars
  <2>2. \A w \in Workers : wpc'[w] # "run"
    BY <2>1, Quiet
  <2>3. CASE fcn' = "outside"
    BY <2>2, <2>3 DEF PositionInv
  <2>4. CASE call' = call + 1
    <3>1. First' = First + NumTracks
      BY <1>0, <2>4 DEF First
    <3>2. First' = next /\ mpc = "idle"
      BY <1>0, <2>1, <3>1 DEF CallInv, FcnInv
    <3>3. \A n \in Events : n >= First' => future'[Plain(n)] # "value"
      BY <1>0, <2>1, <3>2, PoolFacts DEF FreshInv
    <3> QED
      BY <2>2, <3>3 DEF PositionInv
  <2> QED
    BY <1>5, <2>3, <2>4 DEF Moved
<1>6. CASE RefitInline
  <2>1. fcn = "submitting" /\ SubmitInline /\ UNCHANGED <<call, params, seen, wpc>>
    BY <1>6 DEF RefitInline, SubmitInline
  <2>2. next \in Events
    BY <1>0, <2>1, NextEvent DEF SubmitInline
  <2>3. First' = First
    BY <2>1 DEF First
  <2>4. \A n \in Events : n # next => future'[Plain(n)] = future[Plain(n)]
    <3>1. \A n \in Events : n # next => Plain(n) \in Task /\ Plain(n) # Plain(next)
      OBVIOUS
    <3> QED
      BY <1>0, <2>1, <3>1 DEF SubmitInline, TypeOK
  <2>5. CASE future'[Plain(next)] = "value"
    <3>1. chi2' = [chi2 EXCEPT ![next] = params] /\ fcn' = fcn
      BY <1>6, <2>1, <2>5 DEF RefitInline, Reading
    <3> QED
      BY <1>0, <2>1, <2>2, <2>3, <2>4, <3>1 DEF PositionInv, RefitTypeOK
  <2>6. CASE future'[Plain(next)] # "value"
    <3>1. fcn' = "failed"
      BY <1>6, <2>6 DEF RefitInline
    <3> QED
      BY <1>0, <2>1, <3>1 DEF PositionInv
  <2> QED
    BY <2>5, <2>6
<1>7. ASSUME NEW w \in Workers, RefitWorker(w) PROVE PositionInv'
  <2>1. WorkerStep(w) /\ UNCHANGED <<fcn, call, params>>
    BY <1>7 DEF RefitWorker
  <2>2. First' = First
    BY <2>1 DEF First
  \* A worker with a job does not find the detector moving.
  <2>3. Hand[w] \in Task /\ Due(w) = "pending" => Reading = params
    BY Quiet DEF Reading
  <2>4. ASSUME NEW v \in Workers, wpc'[v] = "run" PROVE seen'[v] = params'
    <3>1. CASE v # w
      <4>1. wpc[v] = "run" /\ seen'[v] = seen[v]
        BY <1>0, <1>7, <2>1, <2>4, <3>1, RunSteps DEF RefitWorker, RefitTypeOK
      <4> QED
        BY <1>0, <2>1, <4>1 DEF PositionInv
    <3>2. CASE v = w /\ wpc[w] = "run"
      <4>1. seen' = seen
        BY <1>7, <3>2 DEF RefitWorker
      <4> QED
        BY <1>0, <2>1, <3>2, <4>1 DEF PositionInv
    <3>3. CASE v = w /\ wpc[w] # "run"
      <4>1. wpc[w] = "popping" /\ Hand[w] \in Task /\ Due(w) = "pending"
        BY <1>0, <2>1, <2>4, <3>3, RunSteps
      <4>2. seen' = [seen EXCEPT ![w] = Reading]
        BY <1>7, <2>4, <3>3, <4>1 DEF RefitWorker
      <4> QED
        BY <1>0, <2>1, <2>3, <3>3, <4>1, <4>2 DEF RefitTypeOK
    <3> QED
      BY <3>1, <3>2, <3>3
  <2>5. ASSUME InCall, NEW n \in Events, n >= First, future'[Plain(n)] = "value"
        PROVE  chi2'[n] = params
    <3>0. Plain(n) \in Task
      OBVIOUS
    <3>1. CASE wpc[w] = "run" /\ wpc'[w] = "finish"
      <4>1. task[w] \in Task /\ future' = [future EXCEPT ![task[w]] = "value"]
        BY <1>0, <2>1, <3>1, RunSteps
      <4>2. Hand[w] = task[w] /\ Due(w) = "pending" /\ seen[w] = params
        BY <1>0, <3>1 DEF Hand, Due, PositionInv
      <4>3. ~task[w].ordered
        BY <1>0, <4>1, <4>2, PlainJobs
      <4>4. chi2' = [chi2 EXCEPT ![task[w].event] = params]
        BY <1>7, <2>3, <3>1, <4>1, <4>2 DEF RefitWorker
      <4>5. task[w].event \in Events /\ task[w] = Plain(task[w].event)
        BY <4>1, <4>3
      <4>6. CASE n = task[w].event
        BY <1>0, <4>4, <4>5, <4>6 DEF RefitTypeOK
      <4>7. CASE n # task[w].event
        <5>1. Plain(n) # task[w]
          BY <4>7
        <5>2. future[Plain(n)] = "value"
          BY <1>0, <2>5, <4>1, <5>1 DEF TypeOK
        <5>3. chi2[n] = params
          BY <1>0, <2>5, <5>2 DEF PositionInv
        <5> QED
          BY <1>0, <4>4, <4>7, <5>3 DEF RefitTypeOK
      <4> QED
        BY <4>6, <4>7
    <3>2. CASE ~(wpc[w] = "run" /\ wpc'[w] = "finish")
      <4>1. chi2' = chi2
        BY <1>7, <3>2 DEF RefitWorker
      <4>2. future[Plain(n)] = "value"
        BY <1>0, <2>1, <2>5, <3>0, <3>2, RunSteps
      <4> QED
        BY <1>0, <2>5, <4>1, <4>2 DEF PositionInv
    <3> QED
      BY <3>1, <3>2
  <2> QED
    BY <2>1, <2>2, <2>4, <2>5 DEF PositionInv
<1> QED
  BY <1>2, <1>3, <1>4, <1>5, <1>6, <1>7 DEF RefitNext, FcnStep

-----------------------------------------------------------------------------
(* The theorems *)

LEMMA RefitInitInv == RefitInit => Inv /\ RefitInv
<1> SUFFICES ASSUME RefitInit PROVE Inv /\ RefitInv
  OBVIOUS
<1> USE JobFacts
<1>1. Inv
  BY InitInv DEF RefitInit
<1>2. /\ NumTracks \in Nat \ {0} /\ NumCalls \in Nat /\ First = 0 - NumTracks
  BY AlignmentAssumption DEF RefitInit, First
<1>3. RefitTypeOK
  BY <1>2 DEF RefitInit, RefitTypeOK, Places, States, Torn
<1>4. /\ queue = <<>> /\ valid /\ ~done /\ mpc = "idle" /\ next = 0
      /\ \A k \in Task : future[k] = "none"
      /\ \A w \in Workers : wpc[w] = "start"
  BY DEF RefitInit, Init, QueueInit
<1>5. PlainInv /\ FifoInv /\ ThrownInv /\ CauseInv
  BY <1>4 DEF PlainInv, FifoInv, ThrownInv, CauseInv
<1>6. FcnInv /\ CallInv /\ ValueInv /\ PositionInv /\ GenuineFailure
  <2>1. fcn = "outside" /\ got = 0
    BY DEF RefitInit
  <2> QED
    BY <1>2, <1>4, <2>1 DEF FcnInv, CallInv, ValueInv, PositionInv, GenuineFailure
<1> QED
  BY <1>1, <1>3, <1>5, <1>6 DEF RefitInv

LEMMA RefitInvStep == Inv /\ RefitInv /\ [RefitNext]_allVars => (Inv /\ RefitInv)'
<1> SUFFICES ASSUME Inv, RefitInv, [RefitNext]_allVars PROVE (Inv /\ RefitInv)'
  OBVIOUS
<1>1. PoolStep
  BY PoolSteps
<1>2. Inv'
  BY <1>1, PoolNext, InvStep
<1>3. PlainInv' /\ FifoInv' /\ ThrownInv' /\ CauseInv'
  BY <1>1, <1>2, PlainStep, FifoStep, ThrownStep, CauseStep DEF RefitInv
<1>4. RefitTypeOK' /\ FcnInv' /\ CallInv' /\ ValueInv' /\ PositionInv' /\ GenuineFailure'
  BY <1>2, RefitTypeStep, CallStep, ValueStep, PositionStep, GenuineStep
<1> QED
  BY <1>2, <1>3, <1>4 DEF RefitInv

\* The invariant: the pool is used by a caller that never destroys it, its queue is
\* first in, first out, and a call knows how many jobs are submitted and read.
THEOREM RefitInvCorrect == RefitSpec => [](Inv /\ RefitInv)
BY RefitInitInv, RefitInvStep, PTL DEF RefitSpec

\* The alignment uses the pool as its main thread may: what is proved of the pool holds
\* for it, that JobPool is implemented and that wait() means what it says.
THEOREM RefitUsesPool == RefitSpec => Spec
<1>1. RefitInit => Init
  BY DEF RefitInit
<1>2. [RefitNext]_allVars => [Next]_vars
  BY PoolSteps, PoolNext
<1> QED
  BY <1>1, <1>2, PTL DEF RefitSpec, Spec

\* No worker runs a job while the main thread moves the detector, which the jobs read
\* without a lock: the function MINUIT calls returns only when the futures of all of
\* its jobs were read.
THEOREM NoRefitDuringMoveCorrect == RefitSpec => []NoRefitDuringMove
<1>1. Inv /\ RefitInv => NoRefitDuringMove
  BY Quiet DEF NoRefitDuringMove
<1> QED
  BY <1>1, RefitInvCorrect, PTL

\* A call that returns has one result per track, all at the position of this call. A
\* call that fails throws what a job threw: the futures are read in the order of the
\* jobs, and a job whose promise is broken or refused was submitted after one that threw.
THEOREM CallOutcomeCorrect == RefitSpec => []CallOutcome
<1>1. Inv /\ RefitInv => CallOutcome
  <2> SUFFICES ASSUME Inv, RefitInv PROVE ResultOfOnePosition /\ GenuineFailure
    BY DEF CallOutcome
  <2>1. ASSUME fcn = "waiting", NEW e \in First..(First + NumTracks - 1)
        PROVE  chi2[e] = params
    <3>1. /\ TypeOK /\ RefitTypeOK /\ CallInv /\ ValueInv /\ PositionInv
      BY DEF Inv, RefitInv
    <3>2. next = First + NumTracks /\ First >= 0 /\ got = NumTracks /\ next <= NumEvents
      BY <2>1, <3>1, RefitPool DEF CallInv
    <3>3. e \in Int /\ e >= First /\ e < First + got /\ e < NumEvents /\ e \in Nat
      BY <3>1, <3>2, CallFacts, ThreadPoolAssumption
    <3>4. e \in Events
      BY <3>3, JobFacts
    <3>5. future[Plain(e)] = "value"
      BY <3>1, <3>3, <3>4 DEF ValueInv
    <3> QED
      BY <2>1, <3>1, <3>3, <3>4, <3>5 DEF PositionInv
  <2> QED
    BY <2>1 DEF ResultOfOnePosition, RefitInv
<1> QED
  BY <1>1, RefitInvCorrect, PTL
=============================================================================
