--------------------------- MODULE SafeQueueProofs ---------------------------
(***************************************************************************)
(* Theorems about SafeQueue under the callers of SafeQueueClients, for     *)
(* every set of threads and jobs and every size of the two queues.         *)
(***************************************************************************)
EXTENDS SafeQueueClients, FiniteSetTheorems, TLAPS

-----------------------------------------------------------------------------
(* What one step inside SafeQueue preserves *)

\* A thread that leaves a function of the queue has a well-typed frame.
LEMMA LeaveType ==
    ASSUME QueueTypeOK, NEW t \in Threads, NEW r \in BOOLEAN,
           NEW j \in Jobs \cup {NoJob}, Leave(t, r, j)
    PROVE  /\ at' \in [Threads -> Labels]
           /\ job' \in [Threads -> Jobs \cup {NoJob}]
           /\ num' \in [Threads -> Nat \cup {End}]
           /\ block' \in [Threads -> BOOLEAN]
           /\ ok' \in [Threads -> BOOLEAN]
           /\ \A u \in Threads :
               /\ at'[u] \in {"push", "push_priority"} => job'[u] \in Jobs
               /\ at'[u] \in {"push_priority", "complete"} => num'[u] \in Nat
BY DEF QueueTypeOK, Leave, Labels

\* Entering a function of the queue keeps the types.
LEMMA EnterType ==
    ASSUME QueueTypeOK, NEW t \in Threads, NEW l \in Labels,
           NEW j \in Jobs \cup {NoJob}, NEW n \in Nat \cup {End},
           NEW b \in BOOLEAN, Enter(t, l, j, n, b),
           l \in {"push", "push_priority"} => j \in Jobs,
           l \in {"push_priority", "complete"} => n \in Nat
    PROVE  QueueTypeOK'
BY DEF QueueTypeOK, Enter, data, sleepers

\* So do the four calls.
LEMMA CallType ==
    ASSUME QueueTypeOK, NEW t \in Threads
    PROVE  /\ CallPop(t) => QueueTypeOK'
           /\ \A j \in Jobs, b \in BOOLEAN : CallPush(t, j, b) => QueueTypeOK'
           /\ \A n \in Nat, j \in Jobs, b \in BOOLEAN :
                CallPushPriority(t, n, j, b) => QueueTypeOK'
           /\ \A n \in Nat : CallComplete(t, n) => QueueTypeOK'
BY EnterType DEF CallPop, CallPush, CallPushPriority, CallComplete, Labels

\* Pop keeps the types.
LEMMA PopType ==
    ASSUME QueueTypeOK, NEW t \in Threads, PopStep(t)
    PROVE  QueueTypeOK'
<1>1. CASE PopInvalid(t)
  <2>1. Leave(t, FALSE, NoJob)
    BY <1>1 DEF PopInvalid
  <2> QED
    BY <1>1, <2>1, LeaveType DEF PopInvalid, QueueTypeOK, data, sleepers
<1>2. CASE PopSleep(t)
  BY <1>2 DEF PopSleep, QueueTypeOK, data, frames
<1>3. CASE PopPriority(t)
  BY <1>3 DEF PopPriority, InPop, Top, Entry, QueueTypeOK, sleepers, Labels
<1>4. CASE PopStandard(t)
  BY <1>4 DEF PopStandard, InPop, CanPopStandard, QueueTypeOK, sleepers, Labels
<1>5. CASE PopNotifyPop(t)
  BY <1>5 DEF PopNotifyPop, NotifyPop, Goto, QueueTypeOK, data, Labels
<1>6. CASE PopNotifyPush(t)
  <2>1. Leave(t, TRUE, job[t]) /\ job[t] \in Jobs \cup {NoJob}
    BY <1>6 DEF PopNotifyPush, QueueTypeOK
  <2>2. push_waiters' \in SUBSET Threads
    BY <1>6 DEF PopNotifyPush, NotifyPush, QueueTypeOK
  <2> QED
    BY <1>6, <2>1, <2>2, LeaveType DEF PopNotifyPush, QueueTypeOK, data
<1> QED
  BY <1>1, <1>2, <1>3, <1>4, <1>5, <1>6 DEF PopStep

\* Push keeps the types.
LEMMA PushType ==
    ASSUME QueueTypeOK, NEW t \in Threads, PushStep(t)
    PROVE  QueueTypeOK'
<1>1. CASE PushRefused(t)
  <2>1. Leave(t, FALSE, NoJob)
    BY <1>1 DEF PushRefused
  <2> QED
    BY <1>1, <2>1, LeaveType DEF PushRefused, QueueTypeOK, data, sleepers
<1>2. CASE PushSleep(t)
  BY <1>2 DEF PushSleep, QueueTypeOK, data, frames
<1>3. CASE PushStandard(t)
  BY <1>3 DEF PushStandard, Goto, QueueTypeOK, sleepers, Labels
<1>4. CASE PushPriority(t)
  BY <1>4 DEF PushPriority, Goto, Entry, QueueTypeOK, sleepers, Labels
<1>5. CASE PushNotify(t)
  <2>1. Leave(t, TRUE, NoJob)
    BY <1>5 DEF PushNotify
  <2>2. pop_waiters' \in SUBSET Threads
    BY <1>5 DEF PushNotify, NotifyPop, QueueTypeOK
  <2> QED
    BY <1>5, <2>1, <2>2, LeaveType DEF PushNotify, QueueTypeOK, data
<1> QED
  BY <1>1, <1>2, <1>3, <1>4, <1>5 DEF PushStep

\* The loop body of complete keeps the types.
LEMMA AdvanceType ==
    ASSUME QueueTypeOK, NEW t \in Threads, NEW ids \in SUBSET Nat,
           NEW i \in Nat, Advance(t, ids, i)
    PROVE  /\ completed_ids' \in SUBSET Nat
           /\ current_id' \in Nat
           /\ num' \in [Threads -> Nat \cup {End}]
           /\ at' \in [Threads -> Labels]
           /\ \A u \in Threads :
               /\ at'[u] \in {"push", "push_priority"} => job'[u] \in Jobs
               /\ at'[u] \in {"push_priority", "complete"} => num'[u] \in Nat
<1> DEFINE later == {k \in ids : k > i}
<1>1. \E n \in Nat \cup {End} : num' = [num EXCEPT ![t] = n]
  <2>1. later \in SUBSET Nat
    OBVIOUS
  <2>2. \/ \E n \in later : IsLeast(n, later) /\ num' = [num EXCEPT ![t] = n]
        \/ later = {} /\ num' = [num EXCEPT ![t] = End]
    BY DEF Advance
  <2> HIDE DEF later
  <2> QED
    BY <2>1, <2>2
<1>2. num' \in [Threads -> Nat \cup {End}]
  BY <1>1 DEF QueueTypeOK
<1>3. \A u \in Threads :
        /\ at'[u] \in {"push", "push_priority"} => job'[u] \in Jobs
        /\ at'[u] \in {"push_priority", "complete"} => num'[u] \in Nat
  BY <1>1 DEF Advance, QueueTypeOK
<1>4. /\ completed_ids' = ids \ {i}
      /\ current_id' = current_id + 1
      /\ at' = [at EXCEPT ![t] = "advanced"]
  BY DEF Advance
<1>5. at' \in [Threads -> Labels] /\ current_id' \in Nat
  BY <1>4 DEF QueueTypeOK, Labels
<1> QED
  BY <1>2, <1>3, <1>4, <1>5

\* Complete keeps the types.
LEMMA CompleteType ==
    ASSUME QueueTypeOK, NEW t \in Threads, CompleteStep(t)
    PROVE  QueueTypeOK'
<1>1. CASE Complete(t)
  <2> DEFINE ids == completed_ids \cup {num[t]}
  <2>1. num[t] \in Nat /\ ids \in SUBSET Nat /\ completed' \in SUBSET Nat
    BY <1>1 DEF Complete, QueueTypeOK
  <2>2. CASE Advance(t, ids, current_id)
    <3> HIDE DEF ids
    <3>1. current_id \in Nat
      BY DEF QueueTypeOK
    <3>2. UNCHANGED <<job, block, ok>>
      BY <2>2 DEF Advance
    <3> QED
      BY <1>1, <2>1, <2>2, <3>1, <3>2, AdvanceType
      DEF Complete, QueueTypeOK, sleepers
  <2>3. CASE Leave(t, TRUE, NoJob) /\ completed_ids' = ids /\ UNCHANGED current_id
    BY <1>1, <2>1, <2>3, LeaveType DEF Complete, QueueTypeOK, sleepers
  <2>4. IF IsLeast(current_id, ids)
        THEN Advance(t, ids, current_id)
        ELSE /\ completed_ids' = ids
             /\ Leave(t, TRUE, NoJob)
             /\ UNCHANGED current_id
    BY <1>1 DEF Complete
  <2> QED
    BY <2>2, <2>3, <2>4
<1>2. CASE CompleteNotify(t)
  BY <1>2 DEF CompleteNotify, NotifyPop, Goto, QueueTypeOK, data, Labels
<1>3. CASE CompleteScan(t)
  <2>1. CASE Advance(t, completed_ids, current_id)
    <3>1. current_id \in Nat /\ completed_ids \in SUBSET Nat
      BY DEF QueueTypeOK
    <3>2. UNCHANGED <<job, block, ok>>
      BY <2>1 DEF Advance
    <3> QED
      BY <1>3, <2>1, <3>1, <3>2, AdvanceType
      DEF CompleteScan, QueueTypeOK, sleepers
  <2>2. CASE Leave(t, TRUE, NoJob) /\ UNCHANGED <<completed_ids, current_id>>
    BY <1>3, <2>2, LeaveType DEF CompleteScan, QueueTypeOK, sleepers
  <2>3. PICK i \in Dereferenced(t) :
          IF i = current_id /\ i \in completed_ids
          THEN Advance(t, completed_ids, i)
          ELSE /\ Leave(t, TRUE, NoJob)
               /\ UNCHANGED <<completed_ids, current_id>>
    BY <1>3 DEF CompleteScan
  <2>4. CASE i = current_id /\ i \in completed_ids
    <3>1. Advance(t, completed_ids, i)
      BY <2>3, <2>4
    <3> QED
      BY <2>1, <2>4, <3>1
  <2>5. CASE ~(i = current_id /\ i \in completed_ids)
    <3>1. Leave(t, TRUE, NoJob) /\ UNCHANGED <<completed_ids, current_id>>
      BY <2>3, <2>5
    <3> QED
      BY <2>2, <3>1
  <2> QED
    BY <2>4, <2>5
<1> QED
  BY <1>1, <1>2, <1>3 DEF CompleteStep

\* Every step inside the queue keeps the types.
LEMMA QueueStepType ==
    ASSUME QueueTypeOK, NEW t \in Threads, QueueStep(t)
    PROVE  QueueTypeOK'
BY PopType, PushType, CompleteType DEF QueueStep

\* So do the initial state, an invalidation and a spurious wake-up.
LEMMA QueueTypeRest ==
    /\ QueueInit => QueueTypeOK
    /\ QueueTypeOK /\ Invalidate /\ UNCHANGED frames => QueueTypeOK'
    /\ QueueTypeOK /\ SpuriousWake => QueueTypeOK'
    /\ QueueTypeOK /\ UNCHANGED queueVars => QueueTypeOK'
<1>1. QueueInit => QueueTypeOK
  BY DEF QueueInit, QueueTypeOK, Labels
<1>2. QueueTypeOK /\ Invalidate /\ UNCHANGED frames => QueueTypeOK'
  <2> SUFFICES ASSUME QueueTypeOK, Invalidate, UNCHANGED frames
               PROVE  QueueTypeOK'
    OBVIOUS
  <2>1. queue' \in Seq(Jobs)
    BY DEF Invalidate
  <2>2. /\ priority_queue' \in SUBSET Entry
        /\ pop_waiters' \in SUBSET Threads
        /\ push_waiters' \in SUBSET Threads
    BY DEF Invalidate
  <2>3. valid' \in BOOLEAN
    BY DEF Invalidate
  <2> QED
    BY <2>1, <2>2, <2>3 DEF Invalidate, QueueTypeOK, frames
<1>3. QueueTypeOK /\ SpuriousWake => QueueTypeOK'
  BY DEF SpuriousWake, QueueTypeOK, data, frames
<1>4. QueueTypeOK /\ UNCHANGED queueVars => QueueTypeOK'
  BY DEF QueueTypeOK, queueVars, data, sleepers, frames
<1> QED
  BY <1>1, <1>2, <1>3, <1>4

-----------------------------------------------------------------------------
(***************************************************************************)
(* The order of completion.                                                *)
(***************************************************************************)
\* Every identifier below current_id_ is completed, the others wait in
\* completed_ids_, and no identifier is completed twice.
OrderInv ==
    /\ \A i \in 0..(current_id - 1) : i \in completed
    /\ completed_ids = {i \in completed : i >= current_id}
    /\ \A t \in Threads : at[t] = "complete" => num[t] \notin completed
    /\ \A t, u \in Threads :
        at[t] = "complete" /\ at[u] = "complete" /\ t # u => num[t] # num[u]

\* A leading identifier has a thread whose iterator is at it.
LeadInv ==
    current_id \in completed_ids =>
        \E t \in Threads :
            at[t] \in {"advanced", "relock"} /\ num[t] = current_id

\* The loop body keeps the prefix: current_id_ moves past an identifier of ids,
\* which are the completed identifiers that are not below it.
LEMMA AdvanceOrder ==
    ASSUME NEW t \in Threads, NEW ids \in SUBSET Nat, Advance(t, ids, current_id),
           QueueTypeOK, completed' \in SUBSET Nat, current_id \in ids,
           \A i \in 0..(current_id - 1) : i \in completed',
           ids = {i \in completed' : i >= current_id}
    PROVE  /\ \A i \in 0..(current_id' - 1) : i \in completed'
           /\ completed_ids' = {i \in completed' : i >= current_id'}
<1>1. /\ completed_ids' = ids \ {current_id}
      /\ current_id' = current_id + 1
  BY DEF Advance
<1>2. current_id \in Nat /\ current_id \in completed'
  BY DEF QueueTypeOK
<1>3. ASSUME NEW i \in 0..(current_id' - 1)
      PROVE  i \in completed'
  <2>1. i \in 0..(current_id - 1) \/ i = current_id
    BY <1>1, <1>2
  <2> QED
    BY <1>2, <2>1
<1>4. completed_ids' = {i \in completed' : i >= current_id'}
  <2>1. \A i \in Nat : i >= current_id + 1 <=> i >= current_id /\ i # current_id
    BY <1>2
  <2> QED
    BY <1>1, <2>1
<1> QED
  BY <1>3, <1>4

\* After the loop body the iterator of the thread is at the new leading
\* identifier, if there is one.
LEMMA AdvanceLead ==
    ASSUME NEW t \in Threads, NEW ids \in SUBSET Nat, Advance(t, ids, current_id),
           QueueTypeOK
    PROVE  LeadInv'
<1> SUFFICES ASSUME current_id' \in completed_ids'
             PROVE  \E u \in Threads :
                        /\ at'[u] \in {"advanced", "relock"}
                        /\ num'[u] = current_id'
  BY DEF LeadInv
<1> DEFINE later == {k \in ids : k > current_id}
<1>1. /\ completed_ids' = ids \ {current_id}
      /\ current_id' = current_id + 1
      /\ at' = [at EXCEPT ![t] = "advanced"]
      /\ \/ \E n \in later : IsLeast(n, later) /\ num' = [num EXCEPT ![t] = n]
         \/ later = {} /\ num' = [num EXCEPT ![t] = End]
  BY DEF Advance
<1>2. current_id \in Nat /\ current_id + 1 \in later
  BY <1>1 DEF QueueTypeOK
<1>3. PICK n \in later : IsLeast(n, later) /\ num' = [num EXCEPT ![t] = n]
  BY <1>1, <1>2
<1>4. n <= current_id + 1 /\ n > current_id /\ n \in Nat
  BY <1>2, <1>3 DEF IsLeast
<1>5. num'[t] = current_id' /\ at'[t] = "advanced"
  BY <1>1, <1>2, <1>3, <1>4 DEF QueueTypeOK
<1> QED
  BY <1>5

\* A step that is not in complete leaves the order alone.
LEMMA OtherStepOrder ==
    ASSUME QueueTypeOK, NEW t \in Threads, PopStep(t) \/ PushStep(t)
    PROVE  /\ UNCHANGED <<completed_ids, current_id, completed>>
           /\ \A u \in Threads :
                /\ at'[u] = "complete" <=> at[u] = "complete"
                /\ at'[u] \in {"advanced", "relock"} <=>
                        at[u] \in {"advanced", "relock"}
                /\ at[u] \in {"complete", "advanced", "relock"} =>
                        num'[u] = num[u]
<1>1. CASE PopStep(t)
  BY <1>1 DEF PopStep, PopInvalid, PopSleep, PopPriority, PopStandard,
              PopNotifyPop, PopNotifyPush, InPop, Leave, Goto, data, frames,
              QueueTypeOK, Labels
<1>2. CASE PushStep(t)
  BY <1>2 DEF PushStep, PushRefused, PushSleep, PushStandard, PushPriority,
              PushNotify, InPush, Leave, Goto, data, frames, QueueTypeOK, Labels
<1> QED
  BY <1>1, <1>2

\* Every step inside the queue keeps the order and the leading iterator.
LEMMA QueueStepOrder ==
    ASSUME QueueTypeOK, OrderInv, LeadInv, NEW t \in Threads, QueueStep(t)
    PROVE  OrderInv' /\ LeadInv'
<1>1. CASE PopStep(t) \/ PushStep(t)
  <2>1. /\ UNCHANGED <<completed_ids, current_id, completed>>
        /\ \A u \in Threads :
            /\ at'[u] = "complete" <=> at[u] = "complete"
            /\ at'[u] \in {"advanced", "relock"} <=>
                    at[u] \in {"advanced", "relock"}
            /\ at[u] \in {"complete", "advanced", "relock"} =>
                    num'[u] = num[u]
    BY <1>1, OtherStepOrder
  <2>2. OrderInv'
    BY <2>1 DEF OrderInv
  <2>3. LeadInv'
    BY <2>1 DEF LeadInv
  <2> QED
    BY <2>2, <2>3
<1>2. CASE Complete(t)
  <2> DEFINE ids == completed_ids \cup {num[t]}
  <2>1. /\ at[t] = "complete"
        /\ completed' = completed \cup {num[t]}
        /\ num[t] \in Nat
        /\ num[t] \notin completed
        /\ current_id \in Nat
        /\ completed \in SUBSET Nat
    BY <1>2 DEF Complete, QueueTypeOK, OrderInv
  <2>2. num[t] >= current_id
    BY <2>1 DEF OrderInv
  <2>3. /\ ids \in SUBSET Nat
        /\ ids = {i \in completed' : i >= current_id}
        /\ \A i \in 0..(current_id - 1) : i \in completed'
    BY <2>1, <2>2 DEF OrderInv, QueueTypeOK
  <2>4. IF IsLeast(current_id, ids)
        THEN Advance(t, ids, current_id)
        ELSE /\ completed_ids' = ids
             /\ Leave(t, TRUE, NoJob)
             /\ UNCHANGED current_id
    BY <1>2 DEF Complete
  <2>5. \A i \in ids : current_id <= i
    BY <2>3
  <2> HIDE DEF ids
  <2>6. CASE current_id \in ids
    <3>1. Advance(t, ids, current_id)
      BY <2>4, <2>5, <2>6 DEF IsLeast
    <3>2. /\ \A i \in 0..(current_id' - 1) : i \in completed'
          /\ completed_ids' = {i \in completed' : i >= current_id'}
      BY <2>1, <2>3, <2>6, <3>1, AdvanceOrder
    <3>3. \A u \in Threads :
            at'[u] = "complete" => u # t /\ at[u] = "complete" /\ num'[u] = num[u]
      BY <3>1 DEF Advance, QueueTypeOK
    <3>4. OrderInv'
      BY <2>1, <3>2, <3>3 DEF OrderInv
    <3> QED
      BY <2>3, <3>1, <3>4, AdvanceLead
  <2>7. CASE current_id \notin ids
    <3>1. /\ completed_ids' = ids
          /\ Leave(t, TRUE, NoJob)
          /\ current_id' = current_id
      BY <2>4, <2>7 DEF IsLeast
    <3>2. \A u \in Threads :
            at'[u] = "complete" => u # t /\ at[u] = "complete" /\ num'[u] = num[u]
      BY <3>1 DEF Leave, QueueTypeOK
    <3>3. OrderInv'
      BY <2>1, <2>3, <3>1, <3>2 DEF OrderInv
    <3>4. LeadInv'
      BY <2>7, <3>1 DEF LeadInv
    <3> QED
      BY <3>3, <3>4
  <2> QED
    BY <2>6, <2>7
<1>3. CASE CompleteNotify(t)
  <2>1. /\ at[t] = "advanced"
        /\ at' = [at EXCEPT ![t] = "relock"]
        /\ UNCHANGED <<completed_ids, current_id, completed, num>>
    BY <1>3 DEF CompleteNotify, Goto, data
  <2>2. OrderInv'
    BY <2>1 DEF OrderInv, QueueTypeOK
  <2>3. LeadInv'
    BY <2>1 DEF LeadInv, QueueTypeOK
  <2> QED
    BY <2>2, <2>3
<1>4. CASE CompleteScan(t)
  <2>1. at[t] = "relock" /\ completed' = completed
    BY <1>4 DEF CompleteScan
  <2>2. PICK i \in Dereferenced(t) :
          IF i = current_id /\ i \in completed_ids
          THEN Advance(t, completed_ids, i)
          ELSE /\ Leave(t, TRUE, NoJob)
               /\ UNCHANGED <<completed_ids, current_id>>
    BY <1>4 DEF CompleteScan
  <2>3. CASE i = current_id /\ i \in completed_ids
    <3>1. Advance(t, completed_ids, current_id)
      BY <2>2, <2>3
    <3>2. /\ completed_ids \in SUBSET Nat
          /\ completed' \in SUBSET Nat
          /\ current_id \in completed_ids
          /\ \A k \in 0..(current_id - 1) : k \in completed'
          /\ completed_ids = {k \in completed' : k >= current_id}
      BY <2>1, <2>3 DEF OrderInv, QueueTypeOK
    <3>3. /\ \A k \in 0..(current_id' - 1) : k \in completed'
          /\ completed_ids' = {k \in completed' : k >= current_id'}
      BY <3>1, <3>2, AdvanceOrder
    <3>4. \A u \in Threads :
            at'[u] = "complete" => at[u] = "complete" /\ num'[u] = num[u]
      BY <3>1 DEF Advance, QueueTypeOK
    <3>5. OrderInv'
      BY <2>1, <3>3, <3>4 DEF OrderInv
    <3> QED
      BY <3>1, <3>2, <3>5, AdvanceLead
  <2>4. CASE ~(i = current_id /\ i \in completed_ids)
    <3>1. Leave(t, TRUE, NoJob) /\ UNCHANGED <<completed_ids, current_id>>
      BY <2>2, <2>4
    <3>2. \A u \in Threads \ {t} : at'[u] = at[u] /\ num'[u] = num[u]
      BY <3>1 DEF Leave, QueueTypeOK
    <3>3. at'[t] = "idle"
      BY <3>1 DEF Leave, QueueTypeOK
    <3>4. OrderInv'
      BY <2>1, <3>1, <3>2, <3>3 DEF OrderInv
    <3>5. ~(current_id \in completed_ids /\ num[t] = current_id)
      BY <2>4 DEF Dereferenced, Dangling
    <3>6. LeadInv'
      BY <3>1, <3>2, <3>5 DEF LeadInv
    <3> QED
      BY <3>4, <3>6
  <2> QED
    BY <2>3, <2>4
<1> QED
  BY <1>1, <1>2, <1>3, <1>4 DEF QueueStep, CompleteStep

-----------------------------------------------------------------------------
\* Type correctness: every variable keeps its type in every reachable state.
THEOREM TypeCorrect == Spec => []TypeOK
<1>1. Init => TypeOK
  <2> SUFFICES ASSUME Init PROVE TypeOK
    OBVIOUS
  <2>1. QueueTypeOK
    BY QueueTypeRest DEF Init
  <2> QED
    BY <2>1 DEF Init, TypeOK
<1>2. TypeOK /\ [Next]_vars => TypeOK'
  <2> SUFFICES ASSUME TypeOK, [Next]_vars PROVE TypeOK'
    OBVIOUS
  <2> USE DEF TypeOK
  <2>1. CASE Wakeup
    BY <2>1, QueueTypeRest DEF Wakeup
  <2>2. ASSUME NEW t \in Threads, ThreadStep(t)
        PROVE  TypeOK'
    <3>1. CASE ClientPop(t)
      BY <3>1, CallType DEF ClientPop
    <3>2. CASE ClientPush(t)
      <4>1. PICK j \in unpushed, wait \in StandardWait :
                /\ CallPush(t, j, wait)
                /\ unpushed' = unpushed \ {j}
        BY <3>2 DEF ClientPush
      <4>2. j \in Jobs /\ wait \in BOOLEAN
        BY ClientsAssumption
      <4>3. QueueTypeOK'
        BY <4>1, <4>2, CallType
      <4> QED
        BY <3>2, <4>1, <4>3 DEF ClientPush
    <3>3. CASE ClientPushPriority(t)
      <4>1. PICK j \in unpushed, n \in uncompleted, wait \in PriorityWait :
                /\ CallPushPriority(t, n, j, wait)
                /\ unpushed' = unpushed \ {j}
        BY <3>3 DEF ClientPushPriority
      <4>2. j \in Jobs /\ n \in Nat /\ wait \in BOOLEAN
        BY ClientsAssumption
      <4>3. QueueTypeOK'
        BY <4>1, <4>2, CallType
      <4> QED
        BY <3>3, <4>1, <4>3 DEF ClientPushPriority
    <3>4. CASE ClientComplete(t)
      <4>1. PICK n \in uncompleted :
                CallComplete(t, n) /\ uncompleted' = uncompleted \ {n}
        BY <3>4 DEF ClientComplete
      <4>2. n \in Nat
        BY ClientsAssumption
      <4>3. QueueTypeOK'
        BY <4>1, <4>2, CallType
      <4> QED
        BY <3>4, <4>1, <4>3 DEF ClientComplete
    <3>5. CASE ClientInvalidate(t)
      BY <3>5, QueueTypeRest DEF ClientInvalidate
    <3>6. CASE InsideQueue(t)
      BY <3>6, QueueStepType DEF InsideQueue
    <3> QED
      BY <2>2, <3>1, <3>2, <3>3, <3>4, <3>5, <3>6 DEF ThreadStep
  <2>3. CASE UNCHANGED vars
    BY <2>3, QueueTypeRest DEF vars
  <2> QED
    BY <2>1, <2>2, <2>3 DEF Next
<1> QED
  BY <1>1, <1>2, PTL DEF Spec

-----------------------------------------------------------------------------
(***************************************************************************)
(* The order of completion.  The invariant adds to OrderInv and LeadInv    *)
(* that an identifier still to be completed has not been completed and is  *)
(* not being completed.                                                    *)
(***************************************************************************)
CompletionInv ==
    /\ OrderInv
    /\ LeadInv
    /\ \A n \in uncompleted : n \notin completed
    /\ \A t \in Threads : at[t] = "complete" => num[t] \notin uncompleted

\* A call changes neither the sets of complete() nor a thread inside complete().
LEMMA EnterOrder ==
    ASSUME TypeOK, OrderInv, LeadInv, NEW t \in Threads, NEW l \in Labels,
           NEW j, NEW n, NEW b, Enter(t, l, j, n, b),
           l = "complete" =>
                /\ n \notin completed
                /\ \A u \in Threads : at[u] = "complete" => num[u] # n
    PROVE  /\ OrderInv' /\ LeadInv' /\ completed' = completed
           /\ \A u \in Threads : at'[u] = "complete" =>
                \/ u = t /\ l = "complete" /\ num'[u] = n
                \/ u # t /\ at[u] = "complete" /\ num'[u] = num[u]
<1>1. /\ at[t] = "idle"
      /\ at' = [at EXCEPT ![t] = l]
      /\ num' = [num EXCEPT ![t] = n]
      /\ UNCHANGED <<completed_ids, current_id, completed>>
  BY DEF Enter, data
<1>2. \A u \in Threads : at'[u] = "complete" =>
                \/ u = t /\ l = "complete" /\ num'[u] = n
                \/ u # t /\ at[u] = "complete" /\ num'[u] = num[u]
  BY <1>1 DEF TypeOK, QueueTypeOK
<1>3. OrderInv'
  BY <1>1, <1>2 DEF OrderInv
<1>4. \A u \in Threads : at[u] \in {"advanced", "relock"} =>
                u # t /\ at'[u] = at[u] /\ num'[u] = num[u]
  BY <1>1 DEF TypeOK, QueueTypeOK
<1>5. LeadInv'
  BY <1>1, <1>4 DEF LeadInv
<1> QED
  BY <1>1, <1>2, <1>3, <1>5

\* Every step inside the queue that is not complete() leaves completed alone, and
\* complete() adds the identifier of its thread.
LEMMA QueueStepCompleted ==
    ASSUME TypeOK, NEW t \in Threads, QueueStep(t)
    PROVE  /\ \/ completed' = completed
              \/ at[t] = "complete" /\ completed' = completed \cup {num[t]}
           /\ \A u \in Threads : at'[u] = "complete" =>
                at[u] = "complete" /\ num'[u] = num[u]
<1>1. CASE PopStep(t) \/ PushStep(t)
  BY <1>1, OtherStepOrder DEF TypeOK
<1>2. CASE Complete(t)
  <2>1. \/ Advance(t, completed_ids \cup {num[t]}, current_id)
        \/ Leave(t, TRUE, NoJob)
    BY <1>2 DEF Complete
  <2> QED
    BY <1>2, <2>1 DEF Complete, Advance, Leave, TypeOK, QueueTypeOK
<1>3. CASE CompleteNotify(t)
  BY <1>3 DEF CompleteNotify, Goto, data, TypeOK, QueueTypeOK
<1>4. CASE CompleteScan(t)
  <2>1. \/ \E i \in Dereferenced(t) : Advance(t, completed_ids, i)
        \/ Leave(t, TRUE, NoJob)
    BY <1>4 DEF CompleteScan
  <2> QED
    BY <1>4, <2>1 DEF CompleteScan, Advance, Leave, TypeOK, QueueTypeOK
<1> QED
  BY <1>1, <1>2, <1>3, <1>4 DEF QueueStep, CompleteStep

\* The order of completion is an invariant.
LEMMA CompletionInvariant == Spec => []CompletionInv
<1>1. Init => CompletionInv
  BY DEF Init, QueueInit, CompletionInv, OrderInv, LeadInv
<1>2. TypeOK /\ CompletionInv /\ [Next]_vars => CompletionInv'
  <2> SUFFICES ASSUME TypeOK, CompletionInv, [Next]_vars PROVE CompletionInv'
    OBVIOUS
  <2>0. OrderInv /\ LeadInv
    BY DEF CompletionInv
  <2>1. CASE Wakeup
    BY <2>1 DEF Wakeup, SpuriousWake, data, frames, CompletionInv, OrderInv, LeadInv
  <2>2. ASSUME NEW t \in Threads, ThreadStep(t)
        PROVE  CompletionInv'
    <3>1. CASE ClientPop(t)
      <4>1. Enter(t, "pop", NoJob, End, FALSE) /\ UNCHANGED uncompleted
        BY <3>1 DEF ClientPop, CallPop
      <4>2. "pop" \in Labels /\ "pop" # "complete"
        BY DEF Labels
      <4>3. /\ OrderInv' /\ LeadInv' /\ completed' = completed
            /\ \A u \in Threads : at'[u] = "complete" =>
                \/ u = t /\ "pop" = "complete" /\ num'[u] = End
                \/ u # t /\ at[u] = "complete" /\ num'[u] = num[u]
        BY <2>0, <4>1, <4>2, EnterOrder
      <4> QED
        BY <4>1, <4>2, <4>3 DEF CompletionInv
    <3>2. CASE ClientPush(t)
      <4>1. PICK j \in unpushed, wait \in StandardWait :
                Enter(t, "push", j, End, wait) /\ UNCHANGED uncompleted
        BY <3>2 DEF ClientPush, CallPush
      <4>2. "push" \in Labels
        BY DEF Labels
      <4> QED
        BY <2>0, <4>1, <4>2, EnterOrder DEF CompletionInv
    <3>3. CASE ClientPushPriority(t)
      <4>1. PICK j \in unpushed, n \in uncompleted, wait \in PriorityWait :
                Enter(t, "push_priority", j, n, wait) /\ UNCHANGED uncompleted
        BY <3>3 DEF ClientPushPriority, CallPushPriority
      <4> QED
        BY <2>0, <4>1, EnterOrder DEF CompletionInv, Labels
    <3>4. CASE ClientComplete(t)
      <4>1. PICK n \in uncompleted :
                /\ Enter(t, "complete", NoJob, n, FALSE)
                /\ uncompleted' = uncompleted \ {n}
        BY <3>4 DEF ClientComplete, CallComplete
      <4>2. /\ n \notin completed
            /\ \A u \in Threads : at[u] = "complete" => num[u] # n
        BY DEF CompletionInv
      <4>3. /\ OrderInv' /\ LeadInv' /\ completed' = completed
            /\ \A u \in Threads : at'[u] = "complete" =>
                \/ u = t /\ num'[u] = n
                \/ u # t /\ at[u] = "complete" /\ num'[u] = num[u]
        <5>1. "complete" \in Labels
          BY DEF Labels
        <5> QED
          BY <2>0, <4>1, <4>2, <5>1, EnterOrder, Zenon
      <4> QED
        BY <4>1, <4>3 DEF CompletionInv
    <3>5. CASE ClientInvalidate(t)
      BY <3>5 DEF ClientInvalidate, Invalidate, frames, CompletionInv, OrderInv, LeadInv
    <3>6. CASE InsideQueue(t)
      <4>1. QueueStep(t) /\ UNCHANGED uncompleted
        BY <3>6 DEF InsideQueue
      <4>2. OrderInv' /\ LeadInv'
        BY <2>0, <4>1, QueueStepOrder DEF TypeOK
      <4>3. /\ \/ completed' = completed
               \/ at[t] = "complete" /\ completed' = completed \cup {num[t]}
            /\ \A u \in Threads : at'[u] = "complete" =>
                at[u] = "complete" /\ num'[u] = num[u]
        BY <4>1, QueueStepCompleted
      <4> QED
        BY <4>1, <4>2, <4>3 DEF CompletionInv
    <3> QED
      BY <2>2, <3>1, <3>2, <3>3, <3>4, <3>5, <3>6 DEF ThreadStep
  <2>3. CASE UNCHANGED vars
    BY <2>3 DEF vars, queueVars, data, frames, CompletionInv, OrderInv, LeadInv
  <2> QED
    BY <2>1, <2>2, <2>3 DEF Next
<1> QED
  BY <1>1, <1>2, TypeCorrect, PTL DEF Spec

\* current_id_ never passes an identifier that is not completed, and
\* completed_ids_ holds exactly the completed ones that it has not passed.
THEOREM PrefixCorrect == Spec => []Prefix
<1>1. CompletionInv => Prefix
  BY DEF CompletionInv, OrderInv, Prefix
<1> QED
  BY <1>1, CompletionInvariant, PTL

\* A leading identifier that is completed has a thread on its way to erase it.
THEOREM NoStallCorrect == Spec => []NoStall
<1>1. CompletionInv => NoStall
  BY DEF CompletionInv, LeadInv, NoStall
<1> QED
  BY <1>1, CompletionInvariant, PTL

\* Jobs leave the priority queue in the order of completion.
THEOREM LinearReleaseCorrect == Spec => LinearRelease
<1> DEFINE Released ==
        \A e \in priority_queue \ priority_queue' :
            valid' => \A i \in 0..(e.id - 1) : i \in completed
<1>1. TypeOK /\ CompletionInv /\ [Next]_vars => [Released]_vars
  <2> SUFFICES ASSUME TypeOK, CompletionInv, Next PROVE Released
    OBVIOUS
  <2>1. CASE Wakeup
    BY <2>1 DEF Wakeup, SpuriousWake, data
  <2>2. ASSUME NEW t \in Threads, ThreadStep(t)
        PROVE  Released
    <3>1. CASE ClientPop(t) \/ ClientPush(t) \/ ClientPushPriority(t)
                \/ ClientComplete(t)
      BY <3>1 DEF ClientPop, ClientPush, ClientPushPriority, ClientComplete,
                  CallPop, CallPush, CallPushPriority, CallComplete, Enter, data
    <3>2. CASE ClientInvalidate(t)
      BY <3>2 DEF ClientInvalidate, Invalidate
    <3>3. CASE PopPriority(t)
      <4>1. PICK e \in Top : /\ e.id = current_id
                             /\ priority_queue' = priority_queue \ {e}
        BY <3>3 DEF PopPriority
      <4> QED
        BY <4>1 DEF CompletionInv, OrderInv
    <3>4. CASE QueueStep(t) /\ ~PopPriority(t)
      <4>1. priority_queue \subseteq priority_queue'
        BY <3>4 DEF QueueStep, PopStep, PopInvalid, PopSleep, PopStandard,
                    PopNotifyPop, PopNotifyPush, PushStep, PushRefused, PushSleep,
                    PushStandard, PushPriority, PushNotify, CompleteStep, Complete,
                    CompleteNotify, CompleteScan, data
      <4> QED
        BY <4>1
    <3> QED
      BY <2>2, <3>1, <3>2, <3>3, <3>4 DEF ThreadStep, InsideQueue
  <2> QED
    BY <2>1, <2>2 DEF Next
<1> QED
  BY <1>1, TypeCorrect, CompletionInvariant, PTL DEF Spec, LinearRelease
-----------------------------------------------------------------------------
(***************************************************************************)
(* The condition variables.                                                *)
(***************************************************************************)
\* Nobody sleeps on the condition variables of an invalidated queue.
THEOREM NoSleepCorrect == Spec => []NoSleepAfterInvalidate
<1>1. Init => NoSleepAfterInvalidate
  BY DEF Init, QueueInit, NoSleepAfterInvalidate
<1>2. NoSleepAfterInvalidate /\ [Next]_vars => NoSleepAfterInvalidate'
  <2> SUFFICES ASSUME NoSleepAfterInvalidate, [Next]_vars
               PROVE  NoSleepAfterInvalidate'
    OBVIOUS
  <2> USE DEF NoSleepAfterInvalidate
  <2>1. CASE Wakeup
    BY <2>1 DEF Wakeup, SpuriousWake, data
  <2>2. ASSUME NEW t \in Threads, ThreadStep(t)
        PROVE  NoSleepAfterInvalidate'
    <3>1. CASE ClientPop(t) \/ ClientPush(t) \/ ClientPushPriority(t)
                \/ ClientComplete(t)
      BY <3>1 DEF ClientPop, ClientPush, ClientPushPriority, ClientComplete,
                  CallPop, CallPush, CallPushPriority, CallComplete, Enter,
                  data, sleepers
    <3>2. CASE ClientInvalidate(t)
      BY <3>2 DEF ClientInvalidate, Invalidate
    <3>3. CASE PopStep(t)
      <4>1. CASE PopPriority(t) \/ PopStandard(t)
        BY <4>1 DEF PopPriority, PopStandard, sleepers
      <4>2. CASE PopInvalid(t) \/ PopSleep(t) \/ PopNotifyPop(t) \/ PopNotifyPush(t)
        BY <4>2 DEF PopInvalid, PopSleep, PopNotifyPop, PopNotifyPush, NotifyPop,
                    NotifyPush, data, sleepers
      <4> QED
        BY <3>3, <4>1, <4>2 DEF PopStep
    <3>4. CASE PushStep(t)
      <4>1. CASE PushRefused(t)
        BY <4>1 DEF PushRefused, data, sleepers
      <4>4. CASE PushSleep(t)
        BY <4>4 DEF PushSleep, data
      <4>2. CASE PushStandard(t) \/ PushPriority(t)
        <5>1. valid' = valid /\ UNCHANGED sleepers
          BY <4>2 DEF PushStandard, PushPriority
        <5> QED
          BY <5>1 DEF sleepers
      <4>3. CASE PushNotify(t)
        BY <4>3 DEF PushNotify, NotifyPop, data
      <4> QED
        BY <3>4, <4>1, <4>2, <4>3, <4>4 DEF PushStep
    <3>5. CASE CompleteStep(t)
      BY <3>5 DEF CompleteStep, Complete, CompleteNotify, CompleteScan, NotifyPop,
                  data, sleepers
    <3> QED
      BY <2>2, <3>1, <3>2, <3>3, <3>4, <3>5 DEF ThreadStep, InsideQueue, QueueStep
  <2>3. CASE UNCHANGED vars
    BY <2>3 DEF vars, queueVars, data, sleepers
  <2> QED
    BY <2>1, <2>2, <2>3 DEF Next
<1> QED
  BY <1>1, <1>2, PTL DEF Spec

\* The invariant of it: the priority queue is also finite.
BoundedInv == Bounded /\ IsFiniteSet(priority_queue)

\* Neither queue of the pool outgrows its limit, whoever pushes.
THEOREM BoundedCorrect == Spec => []Bounded
<1>1. Init => BoundedInv
  BY FS_EmptySet, SafeQueueAssumption DEF Init, QueueInit, BoundedInv, Bounded
<1>2. TypeOK /\ BoundedInv /\ [Next]_vars => BoundedInv'
  <2> SUFFICES ASSUME TypeOK, BoundedInv, [Next]_vars PROVE BoundedInv'
    OBVIOUS
  <2>0. /\ queue \in Seq(Jobs)
        /\ Len(queue) <= MaxStandard
        /\ IsFiniteSet(priority_queue)
        /\ Cardinality(priority_queue) \in Nat
        /\ Cardinality(priority_queue) <= MaxPriority
    BY FS_CardinalityType DEF TypeOK, QueueTypeOK, BoundedInv, Bounded
  <2>1. CASE Wakeup \/ UNCHANGED vars
    BY <2>1 DEF Wakeup, SpuriousWake, vars, queueVars, data, BoundedInv, Bounded
  <2>2. ASSUME NEW t \in Threads, ThreadStep(t)
        PROVE  BoundedInv'
    <3>1. CASE UNCHANGED <<queue, priority_queue>>
      BY <3>1 DEF BoundedInv, Bounded
    <3>2. CASE queue' = <<>> /\ priority_queue' = {}
      BY <3>2, FS_EmptySet, SafeQueueAssumption DEF BoundedInv, Bounded
    <3>3. CASE PopPriority(t)
      <4>1. PICK e \in priority_queue : priority_queue' = priority_queue \ {e}
        BY <3>3 DEF PopPriority, Top
      <4>2. /\ IsFiniteSet(priority_queue')
            /\ Cardinality(priority_queue') = Cardinality(priority_queue) - 1
        BY <2>0, <4>1, FS_RemoveElement
      <4> QED
        BY <2>0, <3>3, <4>2, SafeQueueAssumption DEF PopPriority, BoundedInv, Bounded
    <3>4. CASE PopStandard(t)
      <4>1. Len(queue') <= Len(queue)
        BY <2>0, <3>4 DEF PopStandard, CanPopStandard
      <4> QED
        BY <2>0, <3>4, <4>1, SafeQueueAssumption DEF PopStandard, BoundedInv, Bounded
    <3>5. CASE PushStandard(t)
      <4>1. ~(Len(queue) >= MaxStandard)
        BY <3>5 DEF PushStandard, Full
      <4>2. Len(queue') = Len(queue) + 1
        BY <2>0, <3>5 DEF PushStandard
      <4> QED
        BY <2>0, <3>5, <4>1, <4>2, SafeQueueAssumption
        DEF PushStandard, BoundedInv, Bounded
    <3>6. CASE PushPriority(t)
      <4>1. ~(Cardinality(priority_queue) >= MaxPriority)
        BY <3>6 DEF PushPriority, Full
      <4>2. PICK e : priority_queue' = priority_queue \cup {e}
        BY <3>6 DEF PushPriority
      <4>3. /\ IsFiniteSet(priority_queue')
            /\ Cardinality(priority_queue') <= Cardinality(priority_queue) + 1
        BY <2>0, <4>2, FS_AddElement
      <4>4. Cardinality(priority_queue') \in Nat
        BY <4>3, FS_CardinalityType
      <4> QED
        BY <2>0, <3>6, <4>1, <4>3, <4>4, SafeQueueAssumption
        DEF PushPriority, BoundedInv, Bounded
    <3>7. CASE ClientInvalidate(t)
      BY <3>2, <3>7 DEF ClientInvalidate, Invalidate
    <3>8. CASE ClientPop(t) \/ ClientPush(t) \/ ClientPushPriority(t)
                \/ ClientComplete(t)
      BY <3>1, <3>8 DEF ClientPop, ClientPush, ClientPushPriority, ClientComplete,
                  CallPop, CallPush, CallPushPriority, CallComplete, Enter, data
    <3>9. CASE QueueStep(t)
      BY <3>1, <3>3, <3>4, <3>5, <3>6, <3>9
      DEF QueueStep, PopStep, PopInvalid, PopSleep, PopNotifyPop, PopNotifyPush,
          PushStep, PushRefused, PushSleep, PushNotify, CompleteStep, Complete,
          CompleteNotify, CompleteScan, data
    <3> QED
      BY <2>2, <3>7, <3>8, <3>9 DEF ThreadStep, InsideQueue
  <2> QED
    BY <2>1, <2>2 DEF Next
<1>3. BoundedInv => Bounded
  BY DEF BoundedInv
<1> QED
  BY <1>1, <1>2, <1>3, TypeCorrect, PTL DEF Spec
-----------------------------------------------------------------------------
(***************************************************************************)
(* No notification of a pop is lost, if priority pushes do not block: then *)
(* every thread asleep on push_condition_ waits for a place in the         *)
(* standard queue, so that notify_one cannot wake the wrong one.           *)
(***************************************************************************)
Poppers == {t \in Threads : at[t] = "popped"}
Pushers == {t \in Threads : InPush(t) /\ at[t] = "push"}

LostPushInv ==
    /\ \A t \in Threads : at[t] = "push_priority" => ~block[t]
    /\ \A t \in push_waiters : at[t] = "push"
    /\ push_waiters # {} =>
        MaxStandard - Len(queue) <= Cardinality(Poppers) + Cardinality(Pushers)

\* The two sets of threads are finite, and so is any set of threads.
LEMMA ThreadSets ==
    ASSUME NEW S \in SUBSET Threads
    PROVE  IsFiniteSet(S) /\ Cardinality(S) \in Nat
<1>1. IsFiniteSet(S)
  BY ClientsAssumption, FS_Subset
<1> QED
  BY <1>1, FS_CardinalityType

\* A step that takes no place, loses no popper and no awake pusher and puts nobody
\* to sleep keeps the bound.
LEMMA LostPushMonotone ==
    ASSUME TypeOK, LostPushInv, queue' = queue,
           Poppers \subseteq Poppers', Pushers \subseteq Pushers',
           push_waiters' \subseteq push_waiters, push_waiters' # {}
    PROVE  MaxStandard - Len(queue') <= Cardinality(Poppers') + Cardinality(Pushers')
<1>1. Cardinality(Poppers) <= Cardinality(Poppers')
  <2>1. Poppers' \in SUBSET Threads
    BY DEF Poppers
  <2> QED
    BY <2>1, ThreadSets, FS_Subset
<1>2. Cardinality(Pushers) <= Cardinality(Pushers')
  <2>1. Pushers' \in SUBSET Threads
    BY DEF Pushers
  <2> QED
    BY <2>1, ThreadSets, FS_Subset
<1>3. /\ Cardinality(Poppers) \in Nat /\ Cardinality(Pushers) \in Nat
      /\ Cardinality(Poppers') \in Nat /\ Cardinality(Pushers') \in Nat
  BY ThreadSets DEF Poppers, Pushers
<1>4. MaxStandard - Len(queue) <= Cardinality(Poppers) + Cardinality(Pushers)
  BY DEF LostPushInv
<1>5. Len(queue) \in Nat /\ MaxStandard \in Nat
  BY SafeQueueAssumption DEF TypeOK, QueueTypeOK
<1> QED
  BY <1>1, <1>2, <1>3, <1>4, <1>5

\* With priority pushes that do not block, as the pool makes them, no push sleeps
\* beside a free place that nobody is about to use or to announce.
THEOREM NoLostPushCorrect ==
    ASSUME PriorityWait \subseteq {FALSE}
    PROVE  Spec => []NoLostPush
<1>1. Init => LostPushInv
  BY DEF Init, QueueInit, LostPushInv
<1>2. TypeOK /\ NoSleepAfterInvalidate /\ LostPushInv /\ [Next]_vars => LostPushInv'
  <2> SUFFICES ASSUME TypeOK, NoSleepAfterInvalidate, LostPushInv, [Next]_vars
               PROVE  LostPushInv'
    OBVIOUS
  <2> DEFINE Bound == MaxStandard - Len(queue)
                        <= Cardinality(Poppers) + Cardinality(Pushers)
  <2>0. /\ at \in [Threads -> Labels] /\ block \in [Threads -> BOOLEAN]
        /\ queue \in Seq(Jobs) /\ Len(queue) \in Nat /\ MaxStandard \in Nat
        /\ push_waiters \in SUBSET Threads
        /\ Poppers \in SUBSET Threads /\ Pushers \in SUBSET Threads
        /\ IsFiniteSet(Poppers) /\ IsFiniteSet(Pushers)
        /\ Cardinality(Poppers) \in Nat /\ Cardinality(Pushers) \in Nat
        /\ Cardinality(Poppers') \in Nat /\ Cardinality(Pushers') \in Nat
    BY ThreadSets, SafeQueueAssumption DEF TypeOK, QueueTypeOK, Poppers, Pushers
  <2>1. CASE Wakeup \/ UNCHANGED vars
    <3>1. /\ UNCHANGED <<queue, at, block>>
          /\ push_waiters' \subseteq push_waiters
      BY <2>1 DEF Wakeup, SpuriousWake, vars, queueVars, data, frames, sleepers
    <3>2. Poppers \subseteq Poppers' /\ Pushers \subseteq Pushers'
      BY <3>1 DEF Poppers, Pushers, InPush
    <3> QED
      BY <3>1, <3>2, LostPushMonotone DEF LostPushInv
  <2>2. ASSUME NEW t \in Threads, ThreadStep(t)
        PROVE  LostPushInv'
    <3>1. ASSUME NEW l, NEW j, NEW n, NEW b, Enter(t, l, j, n, b),
                 l = "push_priority" => ~b
          PROVE  LostPushInv'
      <4>1. /\ at[t] = "idle" /\ at' = [at EXCEPT ![t] = l]
            /\ block' = [block EXCEPT ![t] = b]
            /\ UNCHANGED <<queue, push_waiters>>
        BY <3>1 DEF Enter, data, sleepers
      <4>2. t \notin push_waiters
        BY <4>1 DEF LostPushInv
      <4>3. Poppers \subseteq Poppers' /\ Pushers \subseteq Pushers'
        BY <2>0, <4>1 DEF Poppers, Pushers, InPush
      <4>4. /\ \A u \in Threads : at'[u] = "push_priority" => ~block'[u]
            /\ \A u \in push_waiters' : at'[u] = "push"
        BY <2>0, <3>1, <4>1, <4>2 DEF LostPushInv
      <4> QED
        BY <4>1, <4>3, <4>4, LostPushMonotone DEF LostPushInv
    <3>2. CASE ClientPop(t)
      BY <3>1, <3>2 DEF ClientPop, CallPop
    <3>3. CASE ClientPush(t)
      BY <3>1, <3>3 DEF ClientPush, CallPush
    <3>4. CASE ClientPushPriority(t)
      BY <3>1, <3>4 DEF ClientPushPriority, CallPushPriority
    <3>5. CASE ClientComplete(t)
      BY <3>1, <3>5 DEF ClientComplete, CallComplete
    <3>6. CASE ClientInvalidate(t)
      BY <3>6 DEF ClientInvalidate, Invalidate, frames, LostPushInv
    <3>7. ASSUME at[t] \notin {"push", "popped"},
                 \/ at'[t] \notin {"push", "push_priority"}
                 \/ UNCHANGED <<at, block>>,
                 \A u \in Threads \ {t} : at'[u] = at[u] /\ block'[u] = block[u],
                 UNCHANGED <<queue, push_waiters>>
          PROVE  LostPushInv'
      <4>1. t \notin push_waiters
        BY <3>7 DEF LostPushInv
      <4>2. Poppers \subseteq Poppers' /\ Pushers \subseteq Pushers'
        BY <3>7 DEF Poppers, Pushers, InPush
      <4>3. /\ \A u \in Threads : at'[u] = "push_priority" => ~block'[u]
            /\ \A u \in push_waiters' : at'[u] = "push"
        BY <2>0, <3>7, <4>1 DEF LostPushInv
      <4> QED
        BY <3>7, <4>2, <4>3, LostPushMonotone DEF LostPushInv
    <3>8. CASE PopInvalid(t) \/ PopSleep(t) \/ PopPriority(t) \/ PopNotifyPop(t)
                \/ PushPriority(t) \/ PushNotify(t) \/ CompleteNotify(t)
      BY <2>0, <3>7, <3>8
      DEF PopInvalid, PopSleep, PopPriority, PopNotifyPop, PushPriority, PushNotify,
          CompleteNotify, InPop, InPush, Leave, Goto, data, sleepers, frames
    <3>9. CASE Complete(t) \/ CompleteScan(t)
      <4>1. /\ at[t] \in {"complete", "relock"}
            /\ UNCHANGED <<queue, sleepers>>
            /\ \/ \E ids, i : Advance(t, ids, i)
               \/ Leave(t, TRUE, NoJob)
        BY <3>9 DEF Complete, CompleteScan
      <4>2. /\ \E l \in {"advanced", "idle"} : at' = [at EXCEPT ![t] = l]
            /\ \A u \in Threads \ {t} : block'[u] = block[u]
        BY <2>0, <4>1 DEF Advance, Leave
      <4> QED
        BY <2>0, <3>7, <4>1, <4>2 DEF sleepers
    <3>10. CASE PopStandard(t)
      <4>1. /\ at[t] = "pop" /\ at' = [at EXCEPT ![t] = "popped"]
            /\ UNCHANGED <<push_waiters, block>>
            /\ queue # <<>> /\ queue' = Tail(queue)
        BY <3>10 DEF PopStandard, InPop, CanPopStandard, sleepers
      <4>2. Len(queue') = Len(queue) - 1
        BY <2>0, <4>1
      <4>3. t \notin Poppers /\ Poppers' = Poppers \cup {t} /\ Pushers' = Pushers
        BY <2>0, <4>1 DEF Poppers, Pushers, InPush
      <4>4. Cardinality(Poppers') = Cardinality(Poppers) + 1
        BY <2>0, <4>3, FS_AddElement
      <4>5. push_waiters' # {} => Bound'
        BY <2>0, <4>1, <4>2, <4>3, <4>4 DEF LostPushInv
      <4> QED
        BY <2>0, <4>1, <4>5 DEF LostPushInv
    <3>11. CASE PopNotifyPush(t)
      <4>1. /\ at[t] = "popped" /\ at' = [at EXCEPT ![t] = "idle"]
            /\ block' = [block EXCEPT ![t] = FALSE]
            /\ queue' = queue
            /\ NotifyPush
        BY <3>11 DEF PopNotifyPush, Leave, data
      <4>2. \A u \in push_waiters : at[u] = "push" /\ u # t
        BY <4>1 DEF LostPushInv
      <4>3. CASE push_waiters = {}
        BY <2>0, <4>1, <4>3 DEF NotifyPush, LostPushInv
      <4>4. ASSUME NEW w \in push_waiters, push_waiters' = push_waiters \ {w}
            PROVE  LostPushInv'
        <5>1. /\ t \in Poppers /\ Poppers' = Poppers \ {t}
              /\ w \notin Pushers /\ Pushers' = Pushers \cup {w}
          BY <2>0, <4>1, <4>2, <4>4 DEF Poppers, Pushers, InPush
        <5>2. /\ Cardinality(Poppers') = Cardinality(Poppers) - 1
              /\ Cardinality(Pushers') = Cardinality(Pushers) + 1
          BY <2>0, <5>1, FS_AddElement, FS_RemoveElement
        <5>3. Bound'
          BY <2>0, <4>1, <4>4, <5>2 DEF LostPushInv
        <5> QED
          BY <2>0, <4>1, <4>2, <4>4, <5>3 DEF LostPushInv
      <4> QED
        BY <4>1, <4>3, <4>4 DEF NotifyPush
    <3>12. CASE PushStandard(t)
      <4>1. /\ at[t] = "push" /\ t \notin push_waiters
            /\ at' = [at EXCEPT ![t] = "pushed"]
            /\ UNCHANGED <<push_waiters, block>>
            /\ queue' = Append(queue, job[t])
        BY <3>12 DEF PushStandard, InPush, Goto, sleepers
      <4>2. Len(queue') = Len(queue) + 1
        BY <2>0, <4>1
      <4>3. t \in Pushers /\ Pushers' = Pushers \ {t} /\ Poppers' = Poppers
        BY <2>0, <4>1 DEF Poppers, Pushers, InPush
      <4>4. Cardinality(Pushers') = Cardinality(Pushers) - 1
        BY <2>0, <4>3, FS_RemoveElement
      <4>5. push_waiters' # {} => Bound'
        BY <2>0, <4>1, <4>2, <4>3, <4>4 DEF LostPushInv
      <4> QED
        BY <2>0, <4>1, <4>5 DEF LostPushInv
    <3>13. CASE PushRefused(t)
      <4>1. /\ at[t] \in {"push", "push_priority"} /\ t \notin push_waiters
            /\ ~valid \/ Full(t)
            /\ at' = [at EXCEPT ![t] = "idle"]
            /\ block' = [block EXCEPT ![t] = FALSE]
            /\ UNCHANGED <<queue, push_waiters>>
        BY <3>13 DEF PushRefused, InPush, Leave, data, sleepers
      <4>2. CASE at[t] = "push_priority"
        BY <2>0, <3>7, <4>1, <4>2
      <4>3. CASE at[t] = "push"
        <5>1. push_waiters' # {} => Len(queue) >= MaxStandard
          BY <4>1, <4>3 DEF Full, NoSleepAfterInvalidate
        <5>2. push_waiters' # {} => Bound'
          BY <2>0, <4>1, <5>1
        <5> QED
          BY <2>0, <4>1, <5>2 DEF LostPushInv
      <4> QED
        BY <4>1, <4>2, <4>3
    <3>14. CASE PushSleep(t)
      <4>1. /\ at[t] = "push" /\ Full(t)
            /\ push_waiters' = push_waiters \cup {t}
            /\ UNCHANGED <<queue, at, block>>
        BY <3>14 DEF PushSleep, InPush, data, frames, LostPushInv
      <4>2. Bound'
        BY <2>0, <4>1 DEF Full
      <4> QED
        BY <2>0, <4>1, <4>2 DEF LostPushInv
    <3> QED
      BY <2>2, <3>2, <3>3, <3>4, <3>5, <3>6, <3>8, <3>9, <3>10, <3>11, <3>12, <3>13,
         <3>14
      DEF ThreadStep, InsideQueue, QueueStep, PopStep, PushStep, CompleteStep
  <2> QED
    BY <2>1, <2>2 DEF Next
<1>3. LostPushInv => NoLostPush
  BY DEF LostPushInv, NoLostPush, Poppers, Pushers
<1> QED
  BY <1>1, <1>2, <1>3, TypeCorrect, NoSleepCorrect, PTL DEF Spec
=============================================================================
