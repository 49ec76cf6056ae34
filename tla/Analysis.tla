------------------------------ MODULE Analysis ------------------------------
(***************************************************************************)
(* The chains of modules that use what is reconstructed.                   *)
(***************************************************************************)
EXTENDS AnalysisDUT, FilterAndMask, Files, Configuration,
        AnalysisTiming, Correlations, Decoding, FASTPIX

effVars == <<dutVars, prev_hit_ts>>
loadingVars == <<decodingVars, fastpixVars, deadtimeVars>>
otherVars == <<timingVars, pairVars, loadingVars>>
analysisVars == <<effVars, input, maskVars, fileVars, confVars, otherVars>>

AnalysisInit ==
    /\ DUTInit /\ EfficiencyInit /\ FilterInit /\ MaskInit /\ FileInit /\ ConfigInit
    /\ TimingInit /\ PairInit /\ DecodingInit /\ FASTPIXInit /\ DeadtimeInit

Analyse ==
    \/ /\ \/ (TracksArrive \/ AssociateTrack \/ AssociationDone) /\ UNCHANGED prev_hit_ts
          \/ EfficiencyTrack \/ EfficiencyHits \/ DUTTrack \/ DUTDone \/ EfficiencyFinalize
       /\ UNCHANGED <<input, maskVars, fileVars, confVars, otherVars>>
    \/ FilterStep /\ UNCHANGED <<effVars, maskVars, fileVars, confVars, otherVars>>
    \/ MaskStep /\ UNCHANGED <<effVars, input, fileVars, confVars, otherVars>>
    \/ FilesStep /\ UNCHANGED <<effVars, input, maskVars, confVars, otherVars>>
    \/ ConfigurationStep /\ UNCHANGED <<filled, effVars, input, maskVars, fileVars, otherVars>>
    \/ TimingStep /\ UNCHANGED <<effVars, input, maskVars, fileVars, confVars, pairVars, loadingVars>>
    \/ PairStep /\ UNCHANGED <<effVars, input, maskVars, fileVars, confVars, timingVars, loadingVars>>
    \/ /\ \/ DecodingStep /\ UNCHANGED <<fastpixVars, deadtimeVars>>
          \/ FASTPIXStep /\ UNCHANGED <<decodingVars, deadtimeVars>>
          \/ DeadtimeStep /\ UNCHANGED <<decodingVars, fastpixVars>>
       /\ UNCHANGED <<effVars, input, maskVars, fileVars, confVars, timingVars, pairVars>>

-----------------------------------------------------------------------------
(* Properties *)

\* A track that DUTAssociation has looked at has all clusters within the cuts, and no
\* other; the closest cluster of a track is one of them, and no other of them is closer.
AssociationClosest ==
    chain.module = "DUT" /\ at \notin {"initialize", "begin"} =>
        \A k \in DOMAIN assoc :
            LET a == assoc[k]
                t == dut.tracks[k]
                within == {m \in DOMAIN dut.clusters :
                              /\ ~Outside(t.x, dut.clusters[m])
                              /\ Abs(dut.clusters[m].time - t.time) <= chain.assoc_time_cut}
            IN  /\ ToSet(a.associated) = IF at = "associate" /\ k >= todo THEN {} ELSE within
                /\ IF a.associated = <<>> THEN a.closest = 0
                   ELSE /\ a.closest \in ToSet(a.associated)
                        /\ \A m \in ToSet(a.associated) :
                               Distance2(t.x, dut.clusters[a.closest]) <= Distance2(t.x, dut.clusters[m])

\* Every track AnalysisEfficiency looks at is rejected by one cut or accepted, and
\* every accepted track has a cluster or not, in all maps alike.
CutFlowBalances ==
    chain.module = "DUT" /\ at # "initialize" =>
        /\ filled["n_track"] = filled["n_chi2"] + filled["n_dut"] + filled["n_masked"]
                + filled["n_frameedge"] + filled["n_requirecluster"] + filled["total_tracks"]
        /\ filled["total_tracks"] = filled["prevTrack_assoc"] + filled["prevTrack_noAssoc"]
        /\ filled["prevTrack_assoc"] = filled["matched_tracks"]
        /\ filled["clustPos_passed"] = filled["chipTrackPos_passed"]

\* Every track AnalysisDUT looks at is in one bin of its cut flow, and the tracks without
\* a cluster are among those that pass.
ResidualFlowBalances ==
    chain.module = "DUT" /\ at # "initialize" =>
        /\ filled["kAllTrack"] = filled["kHighChi2Ndf"] + filled["kOutsideDUT"] + filled["kOutsideROI"]
                + filled["kCloseToMask"] + filled["kTimeLimit"] + filled["kPass"]
        /\ filled["hUnassociatedTracks"] <= filled["kPass"]

\* With the same cuts, AnalysisDUT passes the tracks of which the total efficiency is
\* made, and finds a cluster for the same of them.
SameTracks ==
    /\ chain.module = "DUT" /\ at \in {"end", "finalize", "done"}
    /\ chain.dut_sensoredge = chain.spatial_cut_sensoredge
    /\ chain.masked_pixel_distance_cut = 1 /\ ~chain.require_associated_cluster_on
    => /\ filled["kPass"] = filled["eTotalEfficiency"]
       /\ filled["kPass"] - filled["hUnassociatedTracks"] = filled["eTotalEfficiency_passed"]

\* No track counts for the efficiency of a device that an oscilloscope reads if it
\* came while the oscilloscope was dead from a trigger of this or of an earlier event,
\* other than one it may have caused; of the tracks that count no more have a cluster, or
\* a trigger of their time, than there are.
DeadTimeRespected ==
    chain.module = "AnalysisFASTPIX" /\ at # "initialize" =>
        /\ \A t \in counted, s \in seen :
                ~(t - s > chain.time_cut_trigger /\ t - s < chain.time_cut_deadtime)
        /\ filled[<<"hitmapTriggerAssoc", "inpix">>] <= filled[<<"hitmapDeadtimeTrigger", "inpix">>]
        /\ filled[<<"hitmapDeadtimeTrigger", "inpix">>] <= filled[<<"hitmapTrigger", "inpix">>]
        /\ filled[<<"hitmapAssoc", "inpix">>] + filled[<<"hitmapNoAssoc", "inpix">>] = filled[<<"hitmapDeadtime", "inpix">>]

\* The numbers that the analyses of a DUT give are consistent: the cut flows of
\* AnalysisEfficiency and AnalysisDUT each with itself, the two with each other if their
\* cuts are the same, and AnalysisFASTPIX with the dead time of the oscilloscope.
AnalysesAgree == CutFlowBalances /\ ResidualFlowBalances /\ SameTracks /\ DeadTimeRespected

\* The previous hit a track is compared with is of an earlier event.
HistoryFromEarlierEvents ==
    [][at = "efficiency" /\ at' = "efficiency"
       /\ filled'["prevHit_matched"] + filled'["prevHit_notmatched"]
            > filled["prevHit_matched"] + filled["prevHit_notmatched"]
       => /\ prev_hit_ts[TruncatedPixel(dut.tracks[todo].x)] < EventStart(event)
          /\ prev_hit_ts[TruncatedPixel(dut.tracks[todo].x)] > 0]_<<loopVars, filled, effVars>>

\* A masked pixel gives no hits, and stays masked in the file that the next run reads,
\* which has the dead pixels too if they are to be masked.
MasksKept ==
    chain.module = "Mask" /\ at = "done" =>
        \A p \in Bins :
            LET kept == \E entry \in maskfile : p \in EntryPixels(chain.det, entry)
            IN  /\ IsMasked(chain.det, masked, p) => occupancy[p] = 0 /\ kept
                /\ chain.mask_dead_pixels => kept \/ occupancy[p] > 0

\* A file gives back what was written, of the classes that both sides choose: the
\* same objects in the same events, and no reference is lost within them.
RoundTrip ==
    chain.module = "Files" /\ at \in {"read", "done"} /\ event > 1 =>
        LET data == written[event - 1]
            Both(c) == Chosen(chain.writer, c) /\ Chosen(chain.reader, c)
        IN  /\ DOMAIN clipboard = {b \in DOMAIN data : data[b] # <<>> /\ Both(b[1])}
            /\ \A b \in DOMAIN clipboard :
                /\ [k \in DOMAIN clipboard[b] |-> clipboard[b][k].object] = data[b]
                /\ \A k \in DOMAIN clipboard[b], c \in chain.refers[b[1]] :
                        (clipboard[b][k].refs[c] = "missing") => ~Both(c)

\* An option for an instance wins over one for its module, and that over the file,
\* whatever the order they are given in; of several the last one counts.
OptionsWin ==
    chain.module = "Config" /\ at \in {"reported", "done"} =>
        LET sections == SelectSeq(reader, LAMBDA c : Lower(c.name) \notin {"", "corryvreckan", "ignore"})
            of == FlattenSeq([s \in DOMAIN sections |->
                    LET identifiers == chain.uses[sections[s].name].identifiers
                    IN  [k \in DOMAIN identifiers |->
                            [section |-> sections[s],
                             unique |-> IF identifiers[k] = "" THEN sections[s].name
                                        ELSE sections[s].name \o ":" \o identifiers[k]]]])
            Options(name, key) == SelectSeq(chain.options, LAMBDA o : o.identifier = name /\ o.key = key)
        IN  \A k \in DOMAIN instances : \A key \in DOMAIN of[k].section.values :
                LET own == Options(of[k].unique, key)
                    module == Options(of[k].section.name, key)
                IN  instances[k].values[key] =
                      IF own # <<>> THEN Last(own).value
                      ELSE IF module # <<>> THEN Last(module).value
                      ELSE of[k].section.values[key]

\* The keys reported as unused are those the file or an option gave to an instance, by
\* their name or by an older one, and the module never asked for.
UnusedReported ==
    chain.module = "Config" /\ at \in {"reported", "done"} =>
        \A k \in DOMAIN instances :
            LET c == instances[k]
                uses == chain.uses[c.name]
                Renamed(key) == \E a \in ToSet(uses.aliases) :
                                    a.old = key /\ has(c, a.new) /\ c.values[a.new] = c.values[key]
                byDefault == {d.key : d \in {d \in ToSet(uses.defaults) : c.values[d.key] = d.value}}
                asked == ToSet(uses.reads) \cup {"identifier"}
            IN  /\ getUnusedKeys(c) \cap (asked \cup Internal) = {}
                /\ \A key \in DOMAIN c.values \ (asked \cup Internal \cup byDefault) :
                        key \in getUnusedKeys(c) \/ Renamed(key)

\* The detectors that are written are read again as they were.
DetectorsWrittenBack ==
    chain.module = "Config" /\ at = "done" =>
        \A k \in DOMAIN detectors : DetectorOf(detector_configs[k]) = detectors[k]

\* What the user wrote reaches the modules and the detectors, or is reported.
ConfigurationKept == OptionsWin /\ UnusedReported /\ DetectorsWrittenBack

\* The strings and numbers of a value.
Atoms(kind, value) ==
    CASE kind = "array" -> ToSet(value)
      [] kind = "matrix" -> UNION {ToSet(value[k]) : k \in DOMAIN value}
      [] kind = "map" -> DOMAIN value \cup ToSet(value)

\* A value that is written as it was understood is understood in the same way, but
\* for a string with a double quotation mark, and for a map with a key that has no value.
ReadWriteStable ==
    [][LET value == getAs(chain.kind, text)
       IN  /\ chain.module = "Value" /\ value.ok
           /\ \A atom \in Atoms(chain.kind, value.is) : "double" \notin ToSet(atom)
           /\ chain.kind = "map" => \A key \in DOMAIN value.is : value.is[key] # <<>>
       => getAs(chain.kind, text') = getAs(chain.kind, text)]_<<loopVars, text>>

\* The pixels of a cluster are moved by their corrections, both of the time before,
\* once for every track that used the cluster so far; a cluster always has the time of
\* its earliest pixel.
CorrectedByTrack ==
    chain.module = "Timing" /\ at \in {"timing", "end"} =>
        \A m \in DOMAIN timing.clusters :
            LET uses == Cardinality({k \in 1..(track_nr - 1) : IsUsed(timing.tracks[k], m)})
                Correction(p) ==
                    (IF chain.row_correction = <<>> THEN 0 ELSE chain.row_correction[p.row])
                    + (IF chain.timewalk_correction = <<>> THEN 0 ELSE chain.timewalk_correction[p.raw])
                times == {p.time : p \in ToSet(timing.clusters[m].pixels)}
            IN  /\ \A n \in DOMAIN timing.given[m] :
                    LET p == timing.given[m][n]
                    IN  timing.clusters[m].pixels[n] = [p EXCEPT !.time = @ + uses * Correction(p)]
                /\ timing.clusters[m].time \in times
                /\ \A t \in times : timing.clusters[m].time <= t

\* After a prealignment by the mean the residuals in range have their mean at the place
\* of the reference, but for the width of a bin; the reference is not moved.
PrealignmentCentres ==
    chain.module = "Pairs" /\ at = "done" =>
        IF chain.is_reference THEN displacement = 0
        ELSE chain.method = "mean" /\ InRange # <<>> =>
                Abs(SumOf([k \in DOMAIN InRange |-> InRange[k] - displacement])) < Len(InRange)

\* What is corrected is moved by what was found, neither twice nor in part.
CorrectionsApplied == CorrectedByTrack /\ PrealignmentCentres

\* A pixel has the time at which it was hit if both halves of the heartbeat are of one
\* period, and the heartbeat is not of a later period of the pixel's counter.
PixelTimes ==
    decoded.kind = "pixel" =>
        LET low == clock.halves.low
        IN  /\ ~clock.old
            /\ /\ High(low, HeartbeatWrap) = High(clock.halves.high, HeartbeatWrap)
               /\ decoded.truth \in High(low, PixelWrap)..(low + PixelWrap \div 2 - 1)
               => decoded.is = decoded.truth

\* A trigger has its time and number as long as none was further from the one before
\* than the counters reach.
TriggerTimes == decoded.kind = "trigger" => ~clock.old /\ (clock.kept => decoded.is = decoded.truth)

\* A hit of a readout since the beginning of the run has its time, though first words
\* are missing, and second words as long as the first word does not change.
HitTimes ==
    decoded.kind = "hit" /\ clock.fresh /\ (clock.gap => clock.time < FPGAMiddle)
        => decoded.is = decoded.truth

\* A record of the oscilloscope goes to the event of its own trigger, to no other one,
\* and of an event that is kept every trigger has its record, if no two triggers are so
\* close that the clocks may take one for the other.
RecordsMatched ==
    chain.module = "FASTPIX" =>
        /\ \A s \in stored : /\ s.record = s.trigger
                            /\ \A u \in stored : u.record = s.record => u = s
        /\ \A e \in accepted : \A k \in ToSet(TriggersOf(e)) :
                [event |-> e, record |-> k, trigger |-> k] \in stored

\* Times and numbers that are longer than what a word can hold are found again, though
\* words are missing and what a former run left is in the file; so is the trigger of data
\* that has none, though triggers are missing.
TimesDecoded == PixelTimes /\ TriggerTimes /\ HitTimes /\ RecordsMatched

\* What is stored by one run is there for the next one: masks and objects.
FilesKept == MasksKept /\ RoundTrip
=============================================================================
