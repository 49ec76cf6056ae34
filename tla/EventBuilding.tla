---------------------------- MODULE EventBuilding ----------------------------
(***************************************************************************)
(* The event loop over one chain: a module that defines the event, if any, *)
(* then a loader that fills it from its file.  All of it is one thread;    *)
(* what varies is the data and where the files end.                        *)
(***************************************************************************)
EXTENDS EventDefinition, EventLoaderEUDAQ2, SortedLoaders,
        EventLoaderMuPixTelescope

loaderVars == <<eudaqVars, signals, t0_seen_, tag>>
definerVars == <<metronomeVars, m26Vars>>
vars == <<dataVars, definerVars, loaderVars>>

Init ==
    /\ DataInit
    /\ MetronomeInit /\ M26Init
    /\ EUDAQ2Init /\ Timepix3Init /\ ATLASpixInit /\ MuPixInit

-----------------------------------------------------------------------------
(* ModuleManager::run *)

BeginEvent ==
    /\ at = "begin"
    /\ at' = IF chain.definer = "none" THEN "load" ELSE "define"
    /\ event' = NoEvent
    /\ UNCHANGED <<setup, status, asked, inputVars, collectVars, historyVars,
                   definerVars, loaderVars>>

EndEvent ==
    /\ at = "return"
    /\ events' = Append(events, event)
    /\ asked' = (asked \/ status \in {"EndRun", "Failure"})
    /\ at' = IF asked' \/ Current >= MaxEvents THEN "exit" ELSE "begin"
    /\ UNCHANGED <<setup, event, status, inputVars, collectVars, stored, unplaced,
                   definerVars, loaderVars>>

Define ==
    /\ \/ /\ MetronomeRun
          /\ UNCHANGED <<setup, status, asked, inputVars, collectVars, historyVars, m26Vars>>
       \/ M26Step /\ UNCHANGED metronomeVars
    /\ UNCHANGED loaderVars

Load ==
    /\ \/ EUDAQ2Step /\ UNCHANGED <<signals, t0_seen_, tag>>
       \/ TimestampStep /\ UNCHANGED loaderVars
       \/ Timepix3Step /\ UNCHANGED <<eudaqVars, t0_seen_, tag>>
       \/ ATLASpixStep /\ UNCHANGED <<eudaqVars, signals, tag>>
       \/ MuPixStep /\ UNCHANGED <<eudaqVars, signals, t0_seen_>>
    /\ UNCHANGED definerVars

Next == BeginEvent \/ EndEvent \/ Define \/ Load

Spec == Init /\ [][Next]_vars

\* The main thread runs, and reading a file does not block.
FairSpec == Spec /\ WF_vars(Next)

-----------------------------------------------------------------------------
(* Properties *)

TypeOK ==
    /\ setup \in DOMAIN Chains
    /\ event = NoEvent \/ event.start <= event.end
    /\ words \in 0..MaxWords /\ sorted \subseteq DOMAIN file
    /\ status \in {"none", "Success", "NoData", "EndRun", "Failure", "exception"}
    /\ triggerTLU_ \in 0..(TriggerRange - 1) /\ triggerM26_ \in 0..(TriggerRange - 1)
    /\ event_ \in {0} \cup DOMAIN file

\* The events of the run, the one being processed included.
Events == IF event = NoEvent THEN events ELSE events \o <<event>>

\* The event that a module of its own defines comes after all events before it
\* ("M26 frames should never overlap").  The last event may be the loader's: a
\* definer that asks for the end of the run defines none.
EventsDisjoint ==
    chain.definer # "none" /\ ~asked /\ event # NoEvent /\ at \notin {"begin", "exit"} =>
        \A i \in DOMAIN events : events[i] # NoEvent /\ events[i].end <= event.start

\* An event of EventDefinitionM26 is the window of one frame around the trigger
\* of the same number, whatever pairs were refused before it.
WindowOfMatch ==
    chain.definer = "M26" /\ event # NoEvent /\ ~asked =>
        LET ahead == CASE chain.layer = "timing" -> m26.time + chain.add_begin
                       [] chain.layer = "all_hits" -> m26.time + framelength_
                       [] OTHER -> framelength_
        IN  /\ tlu.trigger = (m26.trigger + chain.shift_triggers) % TriggerRange
            /\ event.start = tlu.time - chain.time_shift - ahead

\* Data leaves the sorted buffer out of order only if the file was more out of
\* order than the buffer is deep.
ReleasedInOrder == chain.loader # "MuPix" =>
    \A m, n \in DOMAIN released :
        LET i == released[m]
            j == released[n]
        IN  m < n /\ file[j].begin < file[i].begin =>
                Cardinality({l \in 1..(j - 1) : file[l].begin > file[j].begin})
                    >= chain.buffer_depth

\* Where measurement m lies with respect to event e, by the manual: data of an
\* event overlaps it, or is inside it, or carries one of its triggers.  c is the
\* configuration.
BelongsTo(c, m, e) ==
    CASE m.kind \in {"pixel", "signal"} -> e.start <= m.begin /\ m.begin <= e.end
      [] m.kind = "frame" /\ (~Timed(m) \/ c.sync_by_trigger) ->
            m.trigger + c.shift_triggers \in TriggerIDs(e)
      [] m.kind = "frame" /\ Timed(m) /\ ~c.sync_by_trigger ->
            LET s == m.begin + c.adjust_event_times[1]
                t == m.end + c.adjust_event_times[2]
            IN  \E x \in s..t : e.start <= x /\ x <= e.end
                    /\ (~c.inclusive => e.start <= s /\ t <= e.end)
      [] OTHER -> FALSE

\* Data is stored once, and with an event it belongs to.
StoredRight ==
    \A x, y \in stored :
        /\ BelongsTo(chain, file[x[1]], Events[x[2]])
        /\ x[1] = y[1] => x = y

\* No data is discarded as too early that belongs to an event of the run, unless
\* it lies before the time from which on data is wanted.
NoLateData ==
    chain.loader # "MuPix" =>
        \A x \in dropped : \A k \in DOMAIN events :
            /\ k \notin unplaced /\ events[k] # NoEvent
            /\ file[x[1]].begin + chain.adjust_event_times[1] >= chain.skip_time
            => ~BelongsTo(chain, file[x[1]], events[k])

\* The same of the loader of MuPix data ("DURING: ... should be taken into
\* account").
NoLateHit ==
    chain.loader = "MuPix" =>
        \A x \in dropped : \A k \in DOMAIN events : ~BelongsTo(chain, file[x[1]], events[k])

\* The run comes to an end with the files.
RunEnds == <>(at \in {"exit", "undefined"})
=============================================================================
