------------------------------- MODULE FASTPIX -------------------------------
(***************************************************************************)
(* Two modules for a device that an oscilloscope reads.                    *)
(*                                                                         *)
(* EventLoaderFASTPIX: the records of the oscilloscope, one for every      *)
(* trigger, are matched with the triggers SPIDR has numbered, of which     *)
(* some may be missing; where there is no trigger, times decide.  The time *)
(* of the oscilloscope is compared after it was aligned to that of SPIDR,  *)
(* from which it may differ by a drift.                                    *)
(*                                                                         *)
(* AnalysisFASTPIX: the efficiency of the device.  After a trigger the     *)
(* oscilloscope is dead for a while, which may reach into the events that  *)
(* follow; tracks of that time must not count.                             *)
(***************************************************************************)
EXTENDS RecoChain

INSTANCE Event

-----------------------------------------------------------------------------
(* EventLoaderFASTPIX *)

VARIABLES scope,    \* the times of all triggers, and the numbers that SPIDR gave an event
          loader,   \* members of the loader, and locals of run()
          stored,   \* what was put on the clipboard: event, record and trigger
          accepted  \* the events that were not discarded as dead time

fastpixVars == <<scope, loader, stored, accepted>>

FASTPIXInit == scope = <<>> /\ loader = <<>> /\ stored = {} /\ accepted = {}

\* The oscilloscope has a record for each of the first triggers; events do not overlap, and
\* the clocks differ by less than the distance of two triggers.
ScopeConfigurations ==
    [module : {"FASTPIX"}, events : Nat, triggers : Nat, records : Nat, blockSize : Nat \ {0},
     period : Nat, length : Nat, spacing : Nat, drifts : SUBSET Int, inputs : {{}}]

ASSUME ScopeAssumption ==
    \A n \in DOMAIN Chains : Chains[n].module = "FASTPIX" =>
        LET c == Chains[n]
        IN  /\ c \in ScopeConfigurations
            /\ c.records <= c.triggers /\ c.length < c.period
            /\ \A drift \in c.drifts : -c.spacing < drift /\ drift < c.spacing

Window(n) == NewEvent((n - 1) * chain.period, (n - 1) * chain.period + chain.length)

\* The numbers of the triggers of an event, in order.
TriggersOf(n) ==
    Kept([k \in DOMAIN scope.times |-> k],
         {k \in scope.seen : getTimestampPosition(Window(n), scope.times[k]) = "DURING"})

triggers == TriggersOf(event)

MoreTriggers == loader.trigger_index <= Len(triggers)

Trigger == triggers[loader.trigger_index]

\* Reading beyond the last record gives what was in the memory.
AtEnd == loader.next > chain.records

Apart(times) == \A k, l \in DOMAIN times : k < l => times[l] - times[k] >= chain.spacing

FASTPIXBegin ==
    /\ chain.module = "FASTPIX"
    /\ Proceed("begin", "fastpix")
    /\ IF event > 1
       THEN /\ loader' = [loader EXCEPT !.prev_trigger = loader.triggerNumber, !.trigger_index = 1,
                                        !.dead_time = FALSE]
            /\ UNCHANGED scope
       ELSE /\ \E times \in {t \in [1..chain.triggers -> 0..(chain.period * chain.events - 1)] : Apart(t)},
                  seen \in SUBSET (1..chain.triggers) :
                scope' = [times |-> times, seen |-> seen]
            /\ loader' = [triggerNumber |-> 0, next |-> 1, prevEvent |-> 1, triggerSync |-> FALSE,
                          discarded |-> 0, prev_trigger |-> 0, trigger_index |-> 1, dead_time |-> FALSE]
    /\ UNCHANGED <<filled, stored, accepted>>

\* What loadEvent does to the loader: at the start of every block of records the
\* oscilloscope and SPIDR are synchronised again.
Loaded(l) ==
    LET number == l.triggerNumber + 1
    IN  [l EXCEPT !.triggerNumber = number, !.prevEvent = l.next, !.next = @ + 1,
                  !.triggerSync = @ /\ number % chain.blockSize # 0]

Store(l) == stored' = stored \cup {[event |-> event, record |-> l.next, trigger |-> Trigger]}

Looping == Proceed("fastpix", "fastpix") /\ UNCHANGED <<filled, scope, accepted>>

\* The trigger of the next record; out of step, it is the one that brings both into step.
LoadMatching ==
    /\ Looping /\ MoreTriggers /\ ~AtEnd
    /\ Trigger = loader.triggerNumber + 1
    /\ Store(loader)
    /\ loader' = [Loaded([loader EXCEPT !.triggerSync = TRUE]) EXCEPT !.trigger_index = @ + 1]

\* A later trigger: SPIDR has lost that of the record.
DiscardRecord ==
    /\ Looping /\ MoreTriggers /\ ~AtEnd /\ loader.triggerSync
    /\ Trigger > loader.triggerNumber + 1
    /\ loader' = [Loaded(loader) EXCEPT !.discarded = @ + 1]
    /\ UNCHANGED stored

\* Out of step all records before the trigger are discarded at once.
DiscardRecords ==
    /\ Looping /\ MoreTriggers /\ ~loader.triggerSync
    /\ Trigger > loader.triggerNumber + 1
    /\ LET n == Trigger - (loader.triggerNumber + 1)
       IN  /\ loader.next + n - 1 <= chain.records
           /\ loader' = [loader EXCEPT !.triggerNumber = @ + n, !.next = @ + n,
                                       !.prevEvent = loader.next + n - 1, !.discarded = @ + n]
    /\ UNCHANGED stored

\* Mutation: the number is put back, the file is not.
RewindNumber(l) == [l EXCEPT !.triggerNumber = @ - 1]

Rewind(l) == [l EXCEPT !.triggerNumber = @ - 1, !.next = l.prevEvent]

\* The trigger of the record before, which was discarded by its time.
LoadPrevious ==
    /\ Looping /\ MoreTriggers /\ ~AtEnd /\ loader.triggerSync
    /\ Trigger = loader.triggerNumber
    /\ LET back == Rewind(loader)
       IN  /\ Store(back)
           /\ loader' = [Loaded(back) EXCEPT !.trigger_index = @ + 1, !.discarded = @ + 1]

\* The trigger of a record further back.
SkipTrigger ==
    /\ Looping /\ MoreTriggers
    /\ IF loader.triggerSync THEN Trigger < loader.triggerNumber ELSE Trigger <= loader.triggerNumber
    /\ loader' = [loader EXCEPT !.trigger_index = @ + 1,
                                !.discarded = @ + IF loader.triggerSync THEN 1 ELSE 0]
    /\ UNCHANGED stored

\* Without a trigger a record up to the end of the event is discarded, and the event
\* with it if the record is of the event.
DiscardByTime ==
    /\ Looping /\ ~MoreTriggers /\ ~AtEnd /\ loader.triggerSync
    /\ \E drift \in chain.drifts :
        LET position == getTimestampPosition(Window(event), scope.times[loader.next] + drift)
        IN  /\ position # "AFTER"
            /\ loader' = [Loaded(loader) EXCEPT !.discarded = @ + 1,
                                                !.dead_time = @ \/ position = "DURING"]
    /\ UNCHANGED stored

\* The first event of a block, the last one, and those with a record that has no trigger
\* are dead time.
FASTPIXDone ==
    /\ Proceed("fastpix", "end")
    /\ ~MoreTriggers
    /\ loader.triggerSync =>
        /\ ~AtEnd
        /\ \E drift \in chain.drifts :
            getTimestampPosition(Window(event), scope.times[loader.next] + drift) = "AFTER"
    /\ LET dead == \/ loader.prev_trigger % chain.blockSize = 0
                   \/ loader.triggerNumber % chain.blockSize = 0
                   \/ loader.dead_time
       IN  accepted' = IF dead THEN accepted ELSE accepted \cup {event}
    /\ UNCHANGED <<filled, scope, loader, stored>>

\* The end of the file is not looked for: what is read then is undefined, and the model
\* follows the run no further.
ReadBeyondEnd ==
    /\ Proceed("fastpix", "undefined")
    /\ IF loader.triggerSync
       THEN AtEnd /\ (MoreTriggers => Trigger >= loader.triggerNumber)
       ELSE /\ MoreTriggers /\ Trigger > loader.triggerNumber
            /\ AtEnd \/ loader.next + Trigger - (loader.triggerNumber + 2) > chain.records
    /\ UNCHANGED <<filled, fastpixVars>>

FASTPIXStep ==
    \/ FASTPIXBegin \/ LoadMatching \/ DiscardRecord \/ DiscardRecords \/ LoadPrevious
    \/ SkipTrigger \/ DiscardByTime \/ FASTPIXDone \/ ReadBeyondEnd

-----------------------------------------------------------------------------
(* AnalysisFASTPIX *)

Signals == [time : Nat, status : STRING]

PassingTracks ==
    [time : Nat, chi2 : Int, intercept : BOOLEAN, inRoi : BOOLEAN, associated : Nat, otherClusters : BOOLEAN]

DeadtimeConfigurations ==
    [module : {"AnalysisFASTPIX"}, events : Nat, length : Nat, chi2ndof_cut : Int,
     time_cut_frameedge : Int, time_cut_trigger : Nat, time_cut_deadtime : Int,
     use_closest_cluster : BOOLEAN,
     inputs : SUBSET [triggers : SUBSET Signals, tracks : Seq(PassingTracks)]]

\* What an event has on the clipboard is of its time.
ASSUME DeadtimeAssumption ==
    \A n \in DOMAIN Chains : Chains[n].module = "AnalysisFASTPIX" =>
        /\ Chains[n] \in DeadtimeConfigurations
        /\ \A d \in Chains[n].inputs :
            /\ IsFiniteSet(d.triggers) /\ \A s \in d.triggers : s.time < Chains[n].length
            /\ \A k \in DOMAIN d.tracks : d.tracks[k].time < Chains[n].length

VARIABLES last_timestamp,   \* the time of the latest trigger of an earlier event
          passage,          \* the clipboard: triggers and tracks of an event, the next track
          seen,             \* history: the times of all triggers of the events analysed
          counted           \* history: the times of the tracks in the efficiency

deadtimeVars == <<last_timestamp, passage, seen, counted>>

DeadtimeInit == last_timestamp = 0 /\ passage = <<>> /\ seen = {} /\ counted = {}

Start(n) == n * chain.length

\* Maps of the matrix; tracks in the region of interest also go to one of a pixel.
BookedMatrixMaps ==
    {"clusterSizeMap", "clusterChargeMap", "seedChargeMap", "hitmapTimecuts", "hitmapDeadtime",
     "hitmapDeadtimeTrigger", "hitmapDeadtimeNoTrigger", "hitmapTrigger", "hitmapNoTrigger",
     "hitmapTriggerAssoc", "hitmapNoTriggerAssoc", "hitmapAssoc", "hitmapNoAssoc"}

BookedFASTPIX ==
    {"hitmap", "hitmapIntercept", "hitmapNoIntercept", "hitmapNoAssocMissing", "clusterCharge",
     "clusterChargeROI", "clusterSize", "clusterSizeROI", "inefficientTriggerAssocTime",
     "inefficientTriggerAssocDt", "inefficientAssocDt", "inefficientAssocDist",
     "inefficientAssocEventStatus", "clusterSizeMapROI"} \X {"all"}
    \cup BookedMatrixMaps \X {"all", "inpix"}

PassageArrives ==
    /\ chain.module = "AnalysisFASTPIX"
    /\ Proceed("begin", "fastpixTracks")
    /\ \E input \in Inputs :
        passage' = [triggers |-> {[s EXCEPT !.time = Start(event) + @] : s \in input.triggers},
                    tracks |-> [k \in DOMAIN input.tracks |->
                                    [input.tracks[k] EXCEPT !.time = Start(event) + @]],
                    todo |-> 1]
    /\ UNCHANGED <<filled, last_timestamp, seen, counted>>

-----------------------------------------------------------------------------

\* Close to an edge of the event, or while the oscilloscope is still dead from an
\* earlier event.
CutInTime(t) ==
    \/ Abs(t.time - Start(event + 1)) < chain.time_cut_frameedge
    \/ Abs(t.time - Start(event)) < chain.time_cut_frameedge
    \/ t.time - last_timestamp < chain.time_cut_deadtime

\* Within the dead time of a trigger of the event, but not the cause of the trigger.
InDeadTime(t) ==
    \E s \in passage.triggers :
        /\ t.time - s.time > chain.time_cut_trigger
        /\ t.time - s.time < chain.time_cut_deadtime

FillMap(t, name) == <<<<name, "all">>>> \o If(t.inRoi, <<<<name, "inpix">>>>)

FillEither(t, condition, is, isNot) == FillMap(t, IF condition THEN is ELSE isNot)

\* An entry for each trigger of the event.
PerTrigger(name) == [k \in 1..Cardinality(passage.triggers) |-> <<name, "all">>]

\* A track in the region of interest without a trigger, or without a cluster.
FillNoTrigger == PerTrigger("inefficientTriggerAssocDt") \o <<<<"inefficientTriggerAssocTime", "all">>>>

FillNoCluster(t) ==
    LET missing == Cardinality({s \in passage.triggers : s.status = "missing"})
    IN  [k \in 1..missing |-> <<"hitmapNoAssocMissing", "all">>] \o PerTrigger("inefficientAssocEventStatus")
        \o PerTrigger("inefficientAssocDt") \o If(t.otherClusters, <<<<"inefficientAssocDist", "all">>>>)

\* The clusters that are looked at: the closest one, or all that are associated.
FillClusters(t) ==
    LET each == FillMap(t, "clusterSizeMap") \o FillMap(t, "clusterChargeMap")
                \o FillMap(t, "seedChargeMap") \o <<<<"clusterSize", "all">>, <<"clusterCharge", "all">>>>
                \o If(t.inRoi, <<<<"clusterSizeMapROI", "all">>, <<"clusterSizeROI", "all">>, <<"clusterChargeROI", "all">>>>)
    IN  FlattenSeq([c \in 1..(IF chain.use_closest_cluster THEN Min({1, t.associated}) ELSE t.associated)
                        |-> each])

FillAlive(t) ==
    LET triggered == passage.triggers # {}
        triggerAssoc == \E s \in passage.triggers : Abs(t.time - s.time) < chain.time_cut_trigger
        assoc == t.associated > 0
    IN  FillMap(t, "hitmapDeadtime")
        \o FillEither(t, triggered, "hitmapDeadtimeTrigger", "hitmapDeadtimeNoTrigger")
        \o FillEither(t, triggerAssoc, "hitmapTriggerAssoc", "hitmapNoTriggerAssoc")
        \o If(t.inRoi /\ ~triggerAssoc, FillNoTrigger)
        \o FillEither(t, assoc, "hitmapAssoc", "hitmapNoAssoc")
        \o If(t.inRoi /\ ~assoc, FillNoCluster(t))
        \o FillClusters(t)

FASTPIXTrack ==
    /\ Proceed("fastpixTracks", "fastpixTracks")
    /\ passage.todo \in DOMAIN passage.tracks
    /\ passage' = [passage EXCEPT !.todo = @ + 1]
    /\ LET t == passage.tracks[passage.todo]
           alive == t.chi2 <= chain.chi2ndof_cut /\ ~CutInTime(t) /\ ~InDeadTime(t)
       IN  /\ counted' = IF alive THEN counted \cup {t.time} ELSE counted
           /\ Fill(If(t.chi2 <= chain.chi2ndof_cut,
                      <<<<"hitmap", "all">>, <<IF t.intercept THEN "hitmapIntercept" ELSE "hitmapNoIntercept", "all">>>>
                      \o If(~CutInTime(t),
                            FillMap(t, "hitmapTimecuts")
                            \o FillEither(t, passage.triggers # {}, "hitmapTrigger", "hitmapNoTrigger")
                            \o If(alive, FillAlive(t)))))
    /\ UNCHANGED <<last_timestamp, seen>>

\* Mutation: the first trigger of the event is taken for the last one.
FirstTrigger(times) == IF times = {} THEN last_timestamp ELSE Min(times)

LatestTrigger(times) == Max(times \cup {last_timestamp})

\* The dead time may extend into the next event.
FASTPIXTracksDone ==
    /\ Proceed("fastpixTracks", "end")
    /\ passage.todo \notin DOMAIN passage.tracks
    /\ LET times == {s.time : s \in passage.triggers}
       IN  last_timestamp' = LatestTrigger(times) /\ seen' = seen \cup times
    /\ UNCHANGED <<filled, passage, counted>>

DeadtimeStep == PassageArrives \/ FASTPIXTrack \/ FASTPIXTracksDone
=============================================================================
