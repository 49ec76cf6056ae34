--------------------------- MODULE AnalysisTiming ---------------------------
(***************************************************************************)
(* AnalysisTimingATLASpix: times of the clusters that are associated to a  *)
(* track, as they are and after corrections.  A correction changes the     *)
(* cluster and the pixels on the clipboard, which other tracks share.  A   *)
(* name stands for the histograms that are filled together.                *)
(***************************************************************************)
EXTENDS RecoChain

\* The rows and the charges are those that the detector and the histograms have.
TimedPixels(c) == [time : Int, row : 0..(c.det.rows - 1), raw : c.raws]

TimingTracks == [x : Int \X Int, chi2 : Int, time : Int, associated : SUBSET Nat]

ASSUME TimingAssumption ==
    \A n \in DOMAIN Chains : Chains[n].module = "Timing" =>
        LET c == Chains[n]
        IN  /\ DOMAIN c =
                    {"module", "events", "length", "det", "masked", "chi2ndof_cut", "time_cut_frameedge",
                     "raws", "high_tot_cut", "cluster_charge_cut", "cluster_size_cut",
                     "timing_tail_cut", "min_entries", "calc_corrections", "row_correction",
                     "timewalk_correction", "inputs"}
            /\ c.raws \subseteq Int /\ c.det.rows \in Nat /\ c.timing_tail_cut \in Int
            /\ c.row_correction \in {<<>>} \cup [0..(c.det.rows - 1) -> Int]
            /\ c.timewalk_correction \in {<<>>} \cup [c.raws -> Int]
            /\ c.inputs \subseteq
                  [tracks : Seq(TimingTracks), clusters : Seq(Seq(TimedPixels(c)) \ {<<>>})]

VARIABLES timing,      \* the clipboard: tracks with their associated clusters, clusters; what was given
          track_nr,    \* the track to look at next
          graphs       \* the points of the graphs that a correction is read from

timingVars == <<timing, track_nr, graphs>>

TimingInit ==
    timing = [tracks |-> <<>>, clusters |-> <<>>, given |-> <<>>] /\ track_nr = 1 /\ graphs = <<>>

Tails == {"leftTail", "rightTail", "mainPeak"}

BinNames(name, range) == {name \o ToString(bin) : bin \in range}

RowNumbers == 0..(chain.det.rows - 1)

BookedCounters ==
    {"total_tracks_uncut", "tracks_afterChi2Cut", "tracks_hasIntercept", "tracks_isWithinROI",
     "tracks_afterMasking", "total_tracks", "matched_tracks", "tracks_afterClusterChargeCut",
     "tracks_afterClusterSizeCut", "hTrackCorrelationTime"}

BookedAssociated ==
    {"hTrackCorrelationTimeAssoc", "hTrackCorrelationTime_1px", "hTrackCorrelationTime_npx",
     "hTrackCorrelationTimeVsTot_px", "hClusterTimeMinusPixelTime", "hHitMapAssoc",
     "hHitMapAssoc_highToT", "hHitMapAssoc_inPixel", "hHitMapAssoc_inPixel_highToT", "hClusterMapAssoc"}
    \cup BinNames("VsRow", RowNumbers)

BookedRow ==
    IF chain.row_correction = <<>> THEN {}
    ELSE {"hTrackCorrelationTime_rowCorr"} \cup BinNames("rowCorr", chain.raws)
         \cup BinNames("rowCorr_1px", chain.raws) \cup BinNames("rowCorr_npx", chain.raws)

BookedTimewalk ==
    IF chain.timewalk_correction = <<>> THEN {}
    ELSE {"hTrackCorrelationTime_rowAndTWCorr", "rowAndTWCorr_l25", "rowAndTWCorr_l40", "rowAndTWCorr_g40"}

BookedTails ==
    IF chain.timewalk_correction = <<>> THEN {}
    ELSE UNION {{"inPixel_" \o tail, "cluster_" \o tail, "tot_1px_" \o tail} : tail \in Tails}

BookedTiming ==
    BookedCounters \cup BookedAssociated \cup BookedRow \cup BookedTimewalk \cup BookedTails

\* Graphs of time walk are made with a point at 0 for every bin.
TimingInitialize ==
    graphs' = (IF chain.calc_corrections THEN "VsRow" :> <<>> ELSE <<>>)
              @@ (IF chain.row_correction = <<>> THEN <<>>
                  ELSE [g \in {"rowCorr", "rowCorr_1px", "rowCorr_npx"} |-> [bin \in chain.raws |-> 0]])

-----------------------------------------------------------------------------

Earliest(times) == CHOOSE t \in times : \A u \in times : t <= u

TimedCluster(pixels) ==
    [pixels |-> pixels, time |-> Earliest({pixels[k].time : k \in DOMAIN pixels})]

\* The first of the pixels with the most charge.
SeedPixel(cluster) ==
    cluster.pixels[Earliest({k \in DOMAIN cluster.pixels :
        \A l \in DOMAIN cluster.pixels : cluster.pixels[l].raw <= cluster.pixels[k].raw})]

TimingArrives ==
    /\ chain.module = "Timing"
    /\ Proceed("begin", "timing")
    /\ \E input \in Inputs :
        timing' = [tracks |-> input.tracks, given |-> input.clusters,
                   clusters |-> [m \in DOMAIN input.clusters |-> TimedCluster(input.clusters[m])]]
    /\ track_nr' = 1
    /\ UNCHANGED <<filled, graphs>>

NearFrameEdge(t) ==
    \E edge \in {0, chain.length} : Abs(t.time - edge) < chain.time_cut_frameedge

\* The counters of the cuts that a track passes.  Being outside of the region of
\* interest is not counted, and rejects no track.
PassedCuts(t) ==
    LET chi2 == t.chi2 <= chain.chi2ndof_cut
        intercept == chi2 /\ hasIntercept(chain.det, t.x, Unit)
        free == intercept /\ ~hitMasked(chain.det, chain.masked, t.x, 1)
    IN  <<"total_tracks_uncut">> \o If(chi2, <<"tracks_afterChi2Cut">>)
        \o If(intercept, <<"tracks_hasIntercept", "tracks_isWithinROI">>)
        \o If(free, <<"tracks_afterMasking">>)
        \o If(free /\ ~NearFrameEdge(t), <<"total_tracks">>)

TailOf(difference) ==
    IF difference < -chain.timing_tail_cut THEN "leftTail"
    ELSE IF difference > chain.timing_tail_cut THEN "rightTail" ELSE "mainPeak"

\* Mutation: the cluster keeps its time.
correctPixelsOnly(cluster, correction) ==
    [cluster EXCEPT !.pixels = [k \in DOMAIN @ |-> [@[k] EXCEPT !.time = @ + correction[k]]]]

\* Every pixel is moved by its correction; the cluster has the time of the earliest.
correctClusterTimestamp(cluster, correction) ==
    TimedCluster([k \in DOMAIN cluster.pixels |-> [cluster.pixels[k] EXCEPT !.time = @ + correction[k]]])

RowCorrected(cluster) ==
    IF chain.row_correction = <<>> THEN cluster
    ELSE correctClusterTimestamp(cluster, [k \in DOMAIN cluster.pixels |->
                                             chain.row_correction[cluster.pixels[k].row]])

TimewalkCorrected(cluster) ==
    IF chain.timewalk_correction = <<>> THEN cluster
    ELSE correctClusterTimestamp(cluster, [k \in DOMAIN cluster.pixels |->
                                             chain.timewalk_correction[cluster.pixels[k].raw]])

Charges(c) == [k \in DOMAIN c.pixels |-> c.pixels[k].raw]

Total(charges) == MapThenSumSet(LAMBDA k : charges[k], DOMAIN charges)

\* A cluster too large, or with too much charge, is counted but not looked at.
ChargeAccepted(c) == chain.cluster_charge_cut = 0 \/ Total(Charges(c)) <= chain.cluster_charge_cut

SizeAccepted(c) == chain.cluster_size_cut = 0 \/ Len(c.pixels) <= chain.cluster_size_cut

\* Entries before any correction.
FillBefore(t, c) ==
    LET size == Len(c.pixels)
        high == Kept(c.pixels, {p \in ToSet(c.pixels) : p.raw > chain.high_tot_cut})
        PerPixel(name, pixels) == [k \in DOMAIN pixels |-> name]
    IN  <<"hTrackCorrelationTimeAssoc", "VsRow" \o ToString(SeedPixel(c).row)>>
        \o If(size = 1, <<"hTrackCorrelationTime_1px">>) \o If(size > 1, <<"hTrackCorrelationTime_npx">>)
        \o <<"hHitMapAssoc_inPixel">>
        \o If(size = 1 /\ high # <<>>, <<"hHitMapAssoc_inPixel_highToT">>)
        \o PerPixel("hTrackCorrelationTimeVsTot_px", c.pixels) \o PerPixel("hHitMapAssoc", c.pixels)
        \o If(size > 1, PerPixel("hClusterTimeMinusPixelTime", c.pixels))
        \o PerPixel("hHitMapAssoc_highToT", high)
        \o <<"hClusterMapAssoc">>
        \o If(chain.timewalk_correction # <<>>, <<"inPixel_" \o TailOf(t.time - c.time)>>)

\* Mutation: filled without a row correction, too.
FillRowAlways(c) ==
    LET raw == ToString(SeedPixel(c).raw)
    IN  <<"hTrackCorrelationTime_rowCorr", "rowCorr" \o raw,
          (IF Len(c.pixels) = 1 THEN "rowCorr_1px" ELSE "rowCorr_npx") \o raw>>

\* Entries after the row correction, then after both.
FillRow(c) ==
    LET raw == ToString(SeedPixel(c).raw)
    IN  If(chain.row_correction # <<>>,
           <<"hTrackCorrelationTime_rowCorr", "rowCorr" \o raw,
             (IF Len(c.pixels) = 1 THEN "rowCorr_1px" ELSE "rowCorr_npx") \o raw>>)

FillTimewalk(t, c) ==
    LET raw == SeedPixel(c).raw
        tail == TailOf(t.time - c.time)
    IN  If(chain.timewalk_correction # <<>>,
           <<"hTrackCorrelationTime_rowAndTWCorr">>
           \o If(raw < 25, <<"rowAndTWCorr_l25">>) \o If(raw < 40, <<"rowAndTWCorr_l40">>)
           \o If(raw > 40, <<"rowAndTWCorr_g40">>)
           \o <<"cluster_" \o tail>> \o If(Len(c.pixels) = 1, <<"tot_1px_" \o tail>>))

IsReference(t) == Last(PassedCuts(t)) = "total_tracks"

IsMatch(t, m) == IsReference(t) /\ m \in t.associated

IsUsed(t, m) == IsMatch(t, m) /\ ChargeAccepted(timing.clusters[m]) /\ SizeAccepted(timing.clusters[m])

TimingTrack ==
    /\ track_nr \in DOMAIN timing.tracks
    /\ Proceed("timing", "timing")
    /\ track_nr' = track_nr + 1
    /\ LET t == timing.tracks[track_nr]
           Entries(m) ==
                LET c == timing.clusters[m]
                    rowed == RowCorrected(c)
                IN  If(IsReference(t), <<"hTrackCorrelationTime">>)
                    \o If(IsMatch(t, m), <<"matched_tracks">>
                          \o If(ChargeAccepted(c), <<"tracks_afterClusterChargeCut">>))
                    \o If(IsUsed(t, m), <<"tracks_afterClusterSizeCut">> \o FillBefore(t, c)
                          \o FillRow(rowed) \o FillTimewalk(t, TimewalkCorrected(rowed)))
       IN  /\ Fill(PassedCuts(t) \o FlattenSeq([m \in DOMAIN timing.clusters |-> Entries(m)]))
           /\ timing' = [timing EXCEPT !.clusters =
                [m \in DOMAIN @ |-> IF IsUsed(t, m) THEN TimewalkCorrected(RowCorrected(@[m])) ELSE @[m]]]
    /\ UNCHANGED graphs

TimingDone ==
    /\ track_nr > Len(timing.tracks)
    /\ Proceed("timing", "end")
    /\ UNCHANGED <<filled, timingVars>>

-----------------------------------------------------------------------------

\* Two bins are put together, the one before and the one of this number.
InBins(name, bin) ==
    MapThenSumSet(LAMBDA b : filled[name \o ToString(b)],
                  {b \in {bin - 1, bin} : name \o ToString(b) \in DOMAIN filled})

Fitted(name, bins) == {b \in bins : InBins(name, b) >= chain.min_entries}

\* Points of bins with enough entries: appended to the graph of the rows, and put
\* in their place in the graphs of time walk, where the others stay as they were,
\* but for the one of all clusters, which has them all.
TimingFinalize ==
    /\ chain.module = "Timing"
    /\ Proceed("finalize", "done")
    /\ graphs' =
         IF ~chain.calc_corrections THEN graphs
         ELSE [g \in DOMAIN graphs |->
                CASE g = "VsRow" -> SetToSortSeq(Fitted(g, RowNumbers), LAMBDA a, b : a < b)
                  [] g = "rowCorr" -> [bin \in chain.raws |-> bin]
                  [] OTHER -> [bin \in chain.raws |-> IF bin \in Fitted(g, chain.raws) THEN bin ELSE 0]]
    /\ UNCHANGED <<filled, timing, track_nr>>

TimingStep == TimingArrives \/ TimingTrack \/ TimingDone \/ TimingFinalize
=============================================================================
