------------------------------ MODULE RunControl ------------------------------
(***************************************************************************)
(* The life of the corry executable: main() with its signal handlers,      *)
(* Corryvreckan::load, init, run, finalize and terminate, and the loops of *)
(* ModuleManager over the modules: initializeAll, run (the event loop) and *)
(* finalizeAll.  Modules are external: a module does up to OpsPerRun       *)
(* operations on the clipboard and returns any status, or throws.          *)
(*                                                                         *)
(* Signals come between any two steps.  Before most steps the main thread  *)
(* writes a message under the mutex of the logger; a signal may find it in *)
(* there, and then a handler that writes a message waits for a mutex its   *)
(* own thread holds.  The two flags a handler sets are set together: no    *)
(* step of the main thread can be between them.                            *)
(***************************************************************************)
EXTENDS Integers, Clipboard

CONSTANTS
    TrackSlots,     \* the slots that hold tracks
    ModuleCounts,   \* how many modules a configuration may have
    Limits,         \* [events, tracks, time]: the limits it may set; -1: none
    OpsPerRun,      \* bound: clipboard operations of one call of run
    MaxPersistent,  \* bound: objects in a persistent collection
    MaxCount        \* bound: events and tracks are counted up to this number

ASSUME RunAssumption ==
    /\ TrackSlots \subseteq Slots
    /\ ModuleCounts \subseteq Nat
    /\ OpsPerRun \in Nat
    /\ MaxPersistent \in Nat
    /\ \A l \in Limits : /\ l \in [events : Int, tracks : Int, time : Int]
                         /\ l.events <= MaxCount /\ l.tracks <= MaxCount
    \* An event is its start time; an object knows the parity of its event.
    /\ Events \subseteq Nat
    /\ Objects = (0..1) \X (1..MaxCount)
    /\ MaxCount \in Nat

VARIABLES
    pc,             \* where main() is
    corry,          \* does the global pointer hold an object?
    cv_ready,       \* the flag the handler looks at
    terminate_,     \* Corryvreckan::terminate_
    m_terminate,    \* ModuleManager::m_terminate
    has_run_,       \* Corryvreckan::has_run_
    limits,         \* the limits of this configuration
    modules,        \* the number of modules loaded
    k,              \* the module at hand
    ops,            \* operations the module has done in this call
    fresh,          \* objects made in this event
    run,            \* the local flag of the event loop
    m_events, m_tracks,
    return_code,    \* of main
    \* History: whether an event has begun, the parity of the current one and
    \* its start as the modules left it, whether a module had the rest of it
    \* skipped, whether one asked for the end of the run, how many modules
    \* were initialized and finalized, and which events may still begin after a
    \* request to terminate.
    begun, epoch, last_start, skipped, asked, initialized, finalized, may_begin

historyVars == <<begun, epoch, last_start, skipped, asked, may_begin>>
loopVars == <<ops, fresh, run, m_events, m_tracks, historyVars>>
runVars == <<k, loopVars>>
setupVars == <<corry, cv_ready, limits>>
flagVars == <<terminate_, m_terminate>>
vars == <<clipboardVars, pc, setupVars, flagVars, has_run_, modules, runVars,
          return_code, initialized, finalized>>

Statuses == {"Success", "NoData", "DeadTime", "EndRun", "Failure"}

Ends == {"ended", "stuck", "crashed"}

Init ==
    /\ ClipboardInit
    /\ pc = "start"
    /\ corry = FALSE /\ cv_ready = FALSE
    /\ terminate_ = FALSE /\ m_terminate = FALSE /\ has_run_ = FALSE
    /\ limits \in Limits
    /\ modules = 0
    /\ k = 1 /\ ops = 0 /\ fresh = 0 /\ run = TRUE
    /\ m_events = 0 /\ m_tracks = 0
    /\ return_code = 0
    /\ begun = FALSE /\ epoch = 0 /\ last_start = NoEvent
    /\ skipped = FALSE /\ asked = FALSE /\ may_begin = "any"
    /\ initialized = 0 /\ finalized = 0

Goto(from, to) == pc = from /\ pc' = to

\* A counter without a limit stays at 0; no property looks at it.
Count(n, limit) ==
    IF limit <= -1 THEN 0 ELSE IF n <= MaxCount THEN n ELSE MaxCount

-----------------------------------------------------------------------------
(* main() *)

\* The catch clauses: every exception ends in one, and sets the return code to
\* 1, or to 127 if it is none of the program's own; both are 1 here.
Throw == pc' = "caught"

Construct ==
    /\ pc = "start"
    /\ \/ /\ pc' = "built"
          /\ corry' = TRUE
       \/ /\ Throw
          /\ corry' = corry
    /\ UNCHANGED <<clipboardVars, cv_ready, limits, flagVars, has_run_,
                   modules, runVars, return_code, initialized, finalized>>

SetReady ==
    /\ Goto("built", "load")
    /\ cv_ready' = TRUE
    /\ UNCHANGED <<clipboardVars, corry, limits, flagVars, has_run_,
                   modules, runVars, return_code, initialized, finalized>>

Catch ==
    /\ Goto("caught", "clean")
    /\ return_code' = 1
    /\ UNCHANGED <<clipboardVars, setupVars, flagVars, has_run_, modules,
                   runVars, initialized, finalized>>

\* clean(): the object goes, with its clipboard; the flag stays.
Clean ==
    /\ Goto("clean", "exiting")
    /\ corry' = FALSE
    /\ data' = [s \in Slots |-> <<>>]
    /\ persistent' = [s \in Slots |-> <<>>]
    /\ event' = NoEvent
    /\ UNCHANGED <<cv_ready, limits, flagVars, has_run_, modules, runVars,
                   return_code, initialized, finalized>>

Exit ==
    /\ Goto("exiting", "ended")
    /\ UNCHANGED <<clipboardVars, setupVars, flagVars, has_run_, modules,
                   runVars, return_code, initialized, finalized>>

-----------------------------------------------------------------------------
(* Corryvreckan::load, init, run, finalize: the checks of the flags *)

Phases == {<<"load", "loading", "init">>, <<"init", "initializing", "run">>,
           <<"run", "starting", "finalize">>}

\* Mutation: run() does not look at the flag.
PhaseUnchecked ==
    /\ \E phase \in Phases :
           /\ pc = phase[1]
           /\ pc' = IF terminate_ /\ pc # "run" THEN phase[3] ELSE phase[2]
    /\ k' = 1
    /\ UNCHANGED <<clipboardVars, setupVars, flagVars, has_run_, modules, loopVars,
                   return_code, initialized, finalized>>

EnterPhase ==
    /\ \E phase \in Phases :
           /\ pc = phase[1]
           /\ pc' = IF terminate_ THEN phase[3] ELSE phase[2]
    /\ k' = 1
    /\ UNCHANGED <<clipboardVars, setupVars, flagVars, has_run_, modules, loopVars,
                   return_code, initialized, finalized>>

Load ==
    /\ pc = "loading"
    /\ \/ /\ pc' = "init"
          /\ modules' \in ModuleCounts
       \/ /\ Throw
          /\ modules' = modules
    /\ UNCHANGED <<clipboardVars, setupVars, flagVars, has_run_, runVars,
                   return_code, initialized, finalized>>

\* initializeAll, one module after the other.
InitializeModule ==
    /\ pc = "initializing"
    /\ k <= modules
    /\ \/ /\ pc' = pc
          /\ initialized' = k
          /\ k' = k + 1
       \/ /\ Throw
          /\ UNCHANGED <<k, initialized>>
    /\ UNCHANGED <<clipboardVars, setupVars, flagVars, has_run_, modules, loopVars,
                   return_code, finalized>>

InitializeEnd ==
    /\ k > modules
    /\ Goto("initializing", "run")
    /\ UNCHANGED <<clipboardVars, setupVars, flagVars, has_run_, modules,
                   runVars, return_code, initialized, finalized>>

\* Mutation: finalize does not ask whether the modules did run.
EnterFinalizeAlways ==
    /\ pc = "finalize"
    /\ pc' = "finalizing"
    /\ k' = 1
    /\ UNCHANGED <<clipboardVars, setupVars, flagVars, has_run_, modules, loopVars,
                   return_code, initialized, finalized>>

EnterFinalize ==
    /\ pc = "finalize"
    /\ pc' = IF has_run_ THEN "finalizing" ELSE "clean"
    /\ k' = 1
    /\ UNCHANGED <<clipboardVars, setupVars, flagVars, has_run_, modules, loopVars,
                   return_code, initialized, finalized>>

FinalizeModule ==
    /\ pc = "finalizing"
    /\ k <= modules
    /\ \/ /\ pc' = pc
          /\ finalized' = k
          /\ k' = k + 1
       \/ /\ Throw
          /\ UNCHANGED <<k, finalized>>
    /\ UNCHANGED <<clipboardVars, setupVars, flagVars, has_run_, modules, loopVars,
                   return_code, initialized>>

\* The files finalizeAll writes at its end; it may refuse to overwrite one.
FinalizeEnd ==
    /\ pc = "finalizing"
    /\ k > modules
    /\ pc' = "clean" \/ Throw
    /\ UNCHANGED <<clipboardVars, setupVars, flagVars, has_run_, modules,
                   runVars, return_code, initialized, finalized>>

-----------------------------------------------------------------------------
(* ModuleManager::run *)

\* Reading the limits may throw; then the counters are reset.
StartLoop ==
    /\ pc = "starting"
    /\ \/ /\ pc' = "event"
          /\ m_events' = 0
          /\ m_tracks' = 0
       \/ /\ Throw
          /\ UNCHANGED <<m_events, m_tracks>>
    /\ UNCHANGED <<clipboardVars, setupVars, flagVars, has_run_, modules, k, ops,
                   fresh, run, historyVars, return_code, initialized,
                   finalized>>

BeginEvent ==
    /\ Goto("event", "loop")
    /\ run' = TRUE
    /\ k' = 1
    /\ fresh' = 0
    /\ begun' = TRUE
    /\ epoch' = 1 - epoch
    /\ last_start' = NoEvent
    /\ skipped' = FALSE
    /\ may_begin' = IF may_begin = "one" THEN "none" ELSE may_begin
    /\ UNCHANGED <<clipboardVars, setupVars, flagVars, has_run_, modules, ops,
                   m_events, m_tracks, asked, return_code, initialized,
                   finalized>>

\* The loop over the modules goes on.
ModuleLeft == k <= modules

CallModule ==
    /\ ModuleLeft
    /\ Goto("loop", "module")
    /\ UNCHANGED <<clipboardVars, setupVars, flagVars, has_run_, modules, runVars,
                   return_code, initialized, finalized>>

\* Objects made now: n of them.
NewObjects(n) == [i \in 1..n |-> <<epoch, fresh + i>>]

\* A module at work on the clipboard.
ModuleOperation ==
    /\ pc = "module"
    /\ ops < OpsPerRun
    /\ ops' = ops + 1
    /\ \/ \E s \in Slots, n \in 1..MaxCount - fresh :
              /\ PutData(s, NewObjects(n))
              /\ fresh' = fresh + n
       \/ \E s \in Slots :
              /\ fresh < MaxCount
              /\ Len(persistent[s]) < MaxPersistent
              /\ PutPersistentData(s, NewObjects(1))
              /\ fresh' = fresh + 1
       \/ /\ \E s \in Slots : \E object \in Range(data[s]) :
                 RemoveData(s, object)
          /\ fresh' = fresh
       \/ /\ \E s \in Slots : \E references \in SUBSET Range(data[s]) :
                 /\ references # {}
                 /\ Len(persistent[s]) + Cardinality(references)
                        <= MaxPersistent
                 /\ CopyToPersistentData(s, references)
          /\ fresh' = fresh
       \/ /\ \E e \in Events : PutEvent(e)
          /\ fresh' = fresh
    /\ last_start' = event'
    /\ UNCHANGED <<pc, setupVars, flagVars, has_run_, modules, k, run, m_events,
                   m_tracks, begun, epoch, skipped, asked, may_begin,
                   return_code, initialized, finalized>>

\* An operation of the clipboard, or the module itself, throws.
ModuleThrows ==
    /\ pc = "module"
    /\ Throw
    /\ UNCHANGED <<clipboardVars, setupVars, flagVars, has_run_, modules,
                   runVars, return_code, initialized, finalized>>

\* The statuses after which the remaining modules are skipped.
Skips(status) == status \in {"DeadTime", "Failure"}

\* The statuses after which the run ends.
Stops(status) == status \in {"EndRun", "Failure"}

ModuleReturns ==
    /\ pc = "module"
    /\ \E status \in Statuses :
           /\ skipped' = (status \in {"DeadTime", "Failure"})
           /\ pc' = IF Skips(status) THEN "after" ELSE "loop"
           /\ run' = IF Stops(status) THEN FALSE ELSE run
           /\ asked' = (asked \/ status \in {"EndRun", "Failure"})
    /\ k' = k + 1
    /\ ops' = 0
    /\ UNCHANGED <<clipboardVars, setupVars, flagVars, has_run_, modules, fresh,
                   m_events, m_tracks, begun, epoch, last_start, may_begin,
                   return_code, initialized, finalized>>

AllModulesRun ==
    /\ ~ModuleLeft
    /\ Goto("loop", "after")
    /\ UNCHANGED <<clipboardVars, setupVars, flagVars, has_run_, modules,
                   runVars, return_code, initialized, finalized>>

EventLimit(events) == limits.events > -1 /\ events >= limits.events

TimeLimit == event # NoEvent /\ limits.time > 0 /\ event >= limits.time

TrackLimit(tracks) == limits.tracks > -1 /\ tracks >= limits.tracks

\* Mutation: the start of the event is not compared with the time of the run.
LoopEndsTimeless(events, tracks) ==
    EventLimit(events) \/ TrackLimit(tracks) \/ ~run \/ m_terminate

\* Mutation: the flag that ends the loop is not looked at.
LoopEndsDeaf(events, tracks) ==
    EventLimit(events) \/ TimeLimit \/ TrackLimit(tracks) \/ ~run

LoopEnds(events, tracks) ==
    \/ EventLimit(events)
    \/ TimeLimit
    \/ TrackLimit(tracks)
    \/ ~run
    \/ m_terminate

\* Mutation: an event that was cut short is not cleared.
EndEventUncleared ==
    LET events == Count(m_events + 1, limits.events)
        tracks == Count(m_tracks + CountObjects(TrackSlots), limits.tracks)
    IN  /\ pc = "after"
        /\ m_events' = events
        /\ m_tracks' = tracks
        /\ IF LoopEnds(events, tracks)
           THEN /\ pc' = "finalize"
                /\ has_run_' = TRUE
                /\ UNCHANGED clipboardVars
           ELSE /\ pc' = "event"
                /\ has_run_' = has_run_
                /\ IF skipped THEN UNCHANGED clipboardVars ELSE Clear
        /\ UNCHANGED <<setupVars, flagVars, modules, k, ops, fresh, run,
                       historyVars, return_code, initialized, finalized>>

\* After the modules: count, compare, and leave the loop or clear. Leaving the
\* loop ends ModuleManager::run, and Corryvreckan::run notes that it has run.
EndEvent ==
    LET events == Count(m_events + 1, limits.events)
        tracks == Count(m_tracks + CountObjects(TrackSlots), limits.tracks)
    IN  /\ pc = "after"
        /\ m_events' = events
        /\ m_tracks' = tracks
        /\ IF LoopEnds(events, tracks)
           THEN /\ pc' = "finalize"
                /\ has_run_' = TRUE
                /\ UNCHANGED clipboardVars
           ELSE /\ pc' = "event"
                /\ has_run_' = has_run_
                /\ Clear
        /\ UNCHANGED <<setupVars, flagVars, modules, k, ops, fresh, run,
                       historyVars, return_code, initialized, finalized>>

-----------------------------------------------------------------------------
(* Signals *)

BeforeRun == pc \in {"start", "built", "load", "loading", "init",
                     "initializing", "run"}

\* interrupt_handler. Before cv_ready is set it does nothing. It may find the
\* main thread writing a message; if the log level lets it write one itself it
\* waits for ever. After clean() nothing is logged any more, the flag is still
\* set and the pointer is null.
Interrupt ==
    /\ pc \notin Ends
    /\ cv_ready
    /\ may_begin' = IF may_begin # "any" THEN may_begin
                    ELSE IF BeforeRun THEN "none" ELSE "one"
    /\ \/ /\ corry
          /\ pc' = pc
          /\ terminate_' = TRUE
          /\ m_terminate' = TRUE
       \/ /\ corry
          /\ pc' = "stuck"
          /\ UNCHANGED flagVars
       \/ /\ ~corry
          /\ pc' = "crashed"
          /\ UNCHANGED flagVars
    /\ UNCHANGED <<clipboardVars, setupVars, has_run_, modules, k, ops, fresh,
                   run, m_events, m_tracks, begun, epoch, last_start, skipped,
                   asked, return_code, initialized, finalized>>

-----------------------------------------------------------------------------
Main ==
    \/ Construct \/ SetReady \/ Catch \/ Clean \/ Exit
    \/ EnterPhase \/ Load \/ InitializeModule \/ InitializeEnd
    \/ EnterFinalize \/ FinalizeModule \/ FinalizeEnd
    \/ StartLoop \/ BeginEvent \/ CallModule \/ ModuleOperation
    \/ ModuleThrows \/ ModuleReturns \/ AllModulesRun \/ EndEvent

Next == Main \/ Interrupt

Spec == Init /\ [][Next]_vars

\* The main thread runs, and the functions of the modules return.
FairSpec == Spec /\ WF_vars(Main)

-----------------------------------------------------------------------------
(* Properties *)

\* What is on the clipboard belongs to the event at hand: nothing of an event
\* that was finished, skipped or cut short is left for the next.
EventIsolation ==
    \A s \in Slots : \A object \in Range(data[s]) : object[1] = epoch

\* What a module has put on the clipboard no other module overwrites: the
\* persistent data outlives events, also those that are skipped or cut short,
\* a collection of an event is not replaced by a later one of the same key, and
\* the event the data was selected with is not redefined.
NothingOverwritten ==
    [][corry' => /\ OnlyAppends
                 /\ EventStays
                 /\ epoch' = epoch => OnlyShrinks]_vars

\* The limits of events and of tracks are not reached, nor did the event at hand
\* start at the time limit or later.
WithinLimits ==
    /\ limits.events >= 0 => ~(m_events >= limits.events)
    /\ limits.tracks >= 0 => ~(m_tracks >= limits.tracks)
    /\ limits.time > 0 /\ last_start # NoEvent => ~(last_start >= limits.time)

\* What stops the event loop stops it: after a request to terminate before
\* run() is entered no event begins, after a later one at most one more does;
\* none begins after EndRun or a failure, and none but the first once a limit
\* of events, tracks or time is reached. After dead time or a failure no module
\* sees the rest of the event.
RunStops ==
    [][/\ epoch' # epoch => /\ may_begin # "none" /\ ~asked
                            /\ begun => WithinLimits
       /\ skipped /\ epoch' = epoch => pc' # "module"]_vars

\* The program ends with 0 (or by a signal that finds the pointer gone) only
\* if all modules were initialized and finalized around an event loop, or if a
\* signal came before the loop and no module was run or finalized.
ExitMeansFinalized ==
    pc \in {"ended", "crashed"} /\ return_code = 0 =>
        \/ has_run_ /\ initialized = modules /\ finalized = modules
        \/ terminate_ /\ ~has_run_ /\ ~begun /\ finalized = 0

\* Once termination is requested the program ends, if no message is stuck.
Terminates == terminate_ ~> pc \in Ends

\* The manual: SIGINT and SIGTERM request a graceful shutdown, in which the
\* event is finished and the modules are finalized.
GracefulShutdown == may_begin # "any" ~> pc \in Ends \ {"stuck"}
=============================================================================
