--------------------------- MODULE AlignmentRefit ---------------------------
(***************************************************************************)
(* The minimisation of the alignment modules, AlignmentTrackChi2 and       *)
(* AlignmentDUTResidual, on top of ThreadPool.  MINUIT calls a function    *)
(* (MinimiseTrackChi2, MinimiseResiduals) again and again.  Every call     *)
(* moves the shared detector, submits one job per track, adds up the       *)
(* futures in the order of the tracks and waits for the pool.  The jobs    *)
(* read the detector without a lock, and the modules move it again when    *)
(* MIGRAD has ended.                                                       *)
(*                                                                         *)
(* The position of the detector is a version number; a job that reads it   *)
(* between displacement(), rotation() and update() sees it Torn.  The job  *)
(* of track i in call c is the event (c - 1) * NumTracks + i.              *)
(***************************************************************************)
EXTENDS ThreadPool

CONSTANTS
    NumTracks,      \* tracks refitted by a call
    NumCalls,       \* bound: how often MINUIT calls the function
    MaxVersion      \* bound: how often the detector is moved

ASSUME AlignmentAssumption ==
    /\ NumTracks \in Nat \ {0}
    /\ NumCalls \in Nat
    /\ MaxVersion \in Nat
    /\ NumEvents = NumTracks * NumCalls
    /\ \A p \in Pools :
        /\ ~p.buffered
        /\ p.events = NumEvents
        \* The function the workers are initialized with sets the log level.
        /\ "initialize" \notin p.throwing

VARIABLES
    fcn,            \* where the main thread is in the function
    call,           \* how many calls have begun
    params,         \* the position of globalDetector
    seen,           \* what the job of a worker saw of it when it began
    chi2,           \* the position the result of a job was computed with
    got,            \* how many futures this call has read
    cause           \* the state of the future whose get() threw

refitVars == <<fcn, call, params, seen, chi2, got, cause>>
allVars == <<vars, refitVars>>

Torn == -1

\* What a job that reads the detector now gets.
Reading == IF fcn = "moving" THEN Torn ELSE params

RefitInit ==
    /\ Init
    /\ fcn = "outside"
    /\ call = 0
    /\ params = 0
    /\ seen = [w \in Workers |-> Torn]
    /\ chi2 = [e \in Events |-> Torn]
    /\ got = 0
    /\ cause = "none"

First == (call - 1) * NumTracks     \* the first event of the current call

\* globalDetector->displacement(...), rotation(...), update()
Move ==
    /\ fcn = "outside"
    /\ params < MaxVersion
    /\ fcn' = "moving"
    /\ UNCHANGED <<vars, call, params, seen, chi2, got, cause>>

\* The move has ended.  It was the one that opens a call, or the one that sets
\* the optimised values after MIGRAD.
Moved ==
    /\ fcn = "moving"
    /\ params' = params + 1
    /\ \/ fcn' = "outside" /\ UNCHANGED <<call, got>>
       \/ /\ call < NumCalls
          /\ fcn' = "submitting"
          /\ call' = call + 1
          /\ got' = 0
    /\ UNCHANGED <<vars, seen, chi2, cause>>

\* result_futures.push_back(thread_pool->submit(track_refit, track))
SubmitRefit ==
    /\ fcn = "submitting"
    /\ next < First + NumTracks
    /\ Submit
    /\ UNCHANGED <<pool, refitVars>>

\* Without workers the job runs in submit, which rethrows what the job throws.
RefitInline ==
    /\ fcn = "submitting"
    /\ next < First + NumTracks
    /\ SubmitInline
    /\ IF future'[Plain(next)] = "value"
       THEN chi2' = [chi2 EXCEPT ![next] = Reading] /\ UNCHANGED <<fcn, cause>>
       ELSE fcn' = "failed" /\ cause' = "exception" /\ UNCHANGED chi2
    /\ UNCHANGED <<pool, call, params, seen, got>>
\* Mutation: the call returns without reading the futures and without wait().
AllSubmittedNoWait ==
    /\ fcn = "submitting"
    /\ mpc = "idle"
    /\ next = First + NumTracks
    /\ fcn' = "outside"
    /\ UNCHANGED <<vars, call, params, seen, chi2, got, cause>>

AllSubmitted ==
    /\ fcn = "submitting"
    /\ mpc = "idle"
    /\ next = First + NumTracks
    /\ fcn' = "getting"
    /\ UNCHANGED <<vars, call, params, seen, chi2, got, cause>>
\* Mutation: get() does not block.
GetResultNow ==
    /\ fcn = "getting"
    /\ got < NumTracks
    /\ got' = got + 1
    /\ UNCHANGED <<vars, fcn, call, params, seen, chi2, cause>>

\* result += result_future.get(): the futures are read in the order of the
\* tracks, and get() blocks until the next one is ready.
GetResult ==
    /\ fcn = "getting"
    /\ got < NumTracks
    /\ LET state == future[Plain(First + got)]
       IN  /\ state # "pending"
           /\ IF state = "value"
              THEN got' = got + 1 /\ UNCHANGED <<fcn, cause>>
              ELSE fcn' = "failed" /\ cause' = state /\ UNCHANGED got
    /\ UNCHANGED <<vars, call, params, seen, chi2>>

\* thread_pool->wait()
WaitForPool ==
    /\ fcn = "getting"
    /\ got = NumTracks
    /\ Wait
    /\ fcn' = "waiting"
    /\ UNCHANGED <<pool, call, params, seen, chi2, got, cause>>

FcnReturn ==
    /\ fcn = "waiting"
    /\ mpc = "idle"
    /\ fcn' = "outside"
    /\ UNCHANGED <<vars, call, params, seen, chi2, got, cause>>

\* A step of a worker, with what its job reads of the detector: it looks at the
\* position when it begins and again before it returns.
RefitWorker(w) ==
    /\ WorkerStep(w)
    /\ seen' = IF wpc[w] = "popping" /\ wpc'[w] = "run"
               THEN [seen EXCEPT ![w] = Reading] ELSE seen
    /\ chi2' = IF wpc[w] = "run" /\ wpc'[w] = "finish"
               THEN [chi2 EXCEPT ![task[w].event] =
                        IF seen[w] = Reading THEN Reading ELSE Torn]
               ELSE chi2
    /\ UNCHANGED <<fcn, call, params, got, cause>>

FcnStep ==
    \/ Moved \/ SubmitRefit \/ RefitInline \/ AllSubmitted \/ GetResult
    \/ WaitForPool \/ FcnReturn \/ (MainStep /\ UNCHANGED refitVars)

RefitNext ==
    \/ Move
    \/ FcnStep
    \/ \E w \in Workers : RefitWorker(w)
    \/ Spurious /\ UNCHANGED refitVars

RefitSpec ==
    /\ RefitInit
    /\ [][RefitNext]_allVars
    /\ \A w \in Workers : WF_allVars(RefitWorker(w))
    /\ WF_allVars(FcnStep)

-----------------------------------------------------------------------------
\* No job runs while the main thread moves the detector: the position a refit
\* reads without a lock does not change under it.
NoRefitDuringMove ==
    fcn = "moving" => \A w \in Workers : wpc[w] \notin {"run", "ran"}

\* The result a call returns to MINUIT is made of one chi2 per track, each of them
\* computed with the position of this call and with no other.
ResultOfOnePosition ==
    fcn = "waiting" => \A e \in First..(First + NumTracks - 1) : chi2[e] = params

\* If a call fails, get() has thrown what a job threw: the main thread never finds
\* a broken promise or a future without a state, although the first exception
\* drops the jobs that are queued and the jobs submitted after it.
GenuineFailure == fcn = "failed" => cause = "exception"

\* How a call ends: it returns what the tracks give, or fails as a job did.
CallOutcome == ResultOfOnePosition /\ GenuineFailure

\* Every call returns or fails.
CallEnds == fcn = "submitting" ~> fcn \in {"outside", "failed"}
=============================================================================
