----------------------------- MODULE Tracking4D -----------------------------
(* Tracking4D: tracks through all planes of the telescope. *)
EXTENDS Tracking

ASSUME FitAssumption ==
    \A n \in DOMAIN Chains : Chains[n].module = "Tracking4D" =>
        "chi2s" \in DOMAIN Chains[n] /\ Chains[n].chi2s \subseteq Int

Searched == RegularDetectors(chain.detectors, chain.role, ~chain.exclude_dut)

\* The detectors with clusters.
Trees == HitDetectors(Searched)

Seeds == Kept(Trees, ToSet(Trees) \ chain.exclude_from_seed)

\* The required detectors, with the one that gives the time.
Required ==
    chain.require_detectors \cup
        (IF chain.timestamp_from = "" THEN {} ELSE {chain.timestamp_from})

-----------------------------------------------------------------------------

\* "trackTimeTrigger" needs a trigger, "trackAngle" another model than broken lines.
BookedTracks == {"track", "trackTimeTrigger", "trackAngle", "tracksPerEvent"} \X {""}

\* For every detector, those of a DUT that takes no part, too.
BookedIntersects == {"kink", "local_intersect"} \X ToSet(RegularDetectors(chain.detectors, chain.role, TRUE))

\* Detectors that may be on a track.
BookedLocalTracks == {"residuals_local", "pull_local"} \X ToSet(Searched)

BookedGlobalTracks == {"residuals_global", "pull_global"} \X ToSet(Searched)

BookedTracking4D == BookedTracks \cup BookedIntersects \cup BookedLocalTracks \cup BookedGlobalTracks

FillTrack(t) ==
    LET Residuals(c) == [k \in 1..4 |-> <<<<"residuals_local", "residuals_global",
                                            "pull_local", "pull_global">>[k], c[1]>>]
        Detector(d) == <<<<"local_intersect", d>>, <<"kink", d>>>>
        detectors == RegularDetectors(chain.detectors, chain.role, TRUE)
    IN  <<<<"track", "">>>>
        \o If(chain.triggers, <<<<"trackTimeTrigger", "">>>>)
        \o If(~chain.broken_lines, <<<<"trackAngle", "">>>>)
        \o FlattenSeq([k \in DOMAIN t.clusters |-> Residuals(t.clusters[k])])
        \o FlattenSeq([k \in DOMAIN detectors |-> Detector(detectors[k])])

FillTracks(ts) ==
    Fill(FlattenSeq([k \in DOMAIN ts |-> FillTrack(ts[k])]) \o <<<<"tracksPerEvent", "">>>>)

-----------------------------------------------------------------------------

\* Without a detector for the seeds there is no pair.
Tracking4DBegin ==
    /\ chain.module = "Tracking4D" /\ at = "track"
    /\ IF Len(Trees) < 2
       THEN Proceed("track", "end") /\ FillTracks(<<>>) /\ UNCHANGED searchVars
       ELSE /\ Proceed("track", "pair")
            /\ UNCHANGED <<filled, planes, candidate, detector_nr>>
            /\ IF Seeds = <<>> THEN references' = <<>> /\ pairs' = <<>>
               ELSE /\ references' = <<Head(Seeds), Last(Seeds)>>
                    /\ pairs' = ReferencePairs(Head(Seeds), Last(Seeds))
    /\ UNCHANGED <<hits, found, tracks>>

\* The planes that are counted: not the seeds, hit or not.
Between == Kept(Searched, ToSet(Searched) \ ToSet(references))

Tracking4DPair == chain.module = "Tracking4D" /\ NextPair({Between})

Tracking4DPlane == chain.module = "Tracking4D" /\ SearchPlane(Len(Trees), chain.min_hits)

\* Required detectors, the number of hits, the region of interest and the fit.
Accepted ==
    /\ \A d \in Required : ClusterFrom(candidate, d) # <<>>
    /\ Len(candidate) >= chain.min_hits

Tracking4DSave ==
    /\ chain.module = "Tracking4D"
    /\ \/ Accepted /\ \E chi2 \in chain.chi2s :
            Keep([clusters |-> candidate, chi2 |-> chi2,
                  time |-> IF chain.timestamp_from = "" THEN AverageTime(candidate)
                           ELSE AverageTime(SubSeq(ClusterFrom(candidate, chain.timestamp_from), 1, 1))])
       \/ (~Accepted \/ chain.reject_by_roi \/ chain.fit_fails) /\ Discard

\* Tracks a and b have the same cluster on a detector.
Duplicated(a, b) ==
    \E d \in ToSet(Searched) :
        LET ca == ClusterFrom(a.clusters, d)
            cb == ClusterFrom(b.clusters, d)
        IN  ca # <<>> /\ cb # <<>> /\ ca[1] = cb[1]

\* From the best track on, the tracks after it with one of its clusters are erased.
EraseDuplicated(ts) ==
    LET Erase(kept, t) == IF \E k \in DOMAIN kept : Duplicated(t, kept[k]) THEN kept ELSE Append(kept, t)
    IN  FoldLeft(Erase, <<>>, ts)

\* Mutation: the tracks are not sorted.
AnyOrder(ts) == {[k \in DOMAIN p |-> ts[p[k]]] : p \in SetToSeqs(DOMAIN ts)}

\* The orders std::sort may leave tracks of equal chi2 in.
SortedByChi2(ts) ==
    {s \in {[k \in DOMAIN p |-> ts[p[k]]] : p \in SetToSeqs(DOMAIN ts)} :
        \A m, n \in DOMAIN s : m < n => s[m].chi2 <= s[n].chi2}

Tracking4DPut ==
    /\ chain.module = "Tracking4D" /\ pairs = <<>>
    /\ Proceed("pair", "end")
    /\ IF chain.unique_cluster_usage /\ Len(found) > 1
       THEN \E s \in SortedByChi2(found) : tracks' = EraseDuplicated(s)
       ELSE tracks' = found
    /\ FillTracks(tracks')
    /\ UNCHANGED <<hits, searchVars, found>>

Tracking4DStep ==
    Tracking4DBegin \/ Tracking4DPair \/ Tracking4DPlane \/ Tracking4DSave \/ Tracking4DPut
=============================================================================
