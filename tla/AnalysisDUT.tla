----------------------------- MODULE AnalysisDUT -----------------------------
(***************************************************************************)
(* The modules of one chain about the device under test (DUT).             *)
(* DUTAssociation assigns clusters of the DUT to the tracks.               *)
(* AnalysisEfficiency: the share of tracks through the DUT that have an    *)
(* associated cluster.  AnalysisDUT: residuals and properties of the       *)
(* clusters associated to tracks.  A track has a place on the DUT, a chi2  *)
(* and a time; it may have clusters on the other detectors that an         *)
(* analysis requires.  A name stands for the histograms that are filled    *)
(* together.                                                               *)
(***************************************************************************)
EXTENDS RecoChain

\* What the modules before these leave on the clipboard: tracks, and clusters of one or
\* more pixels.
DUTTracks == [x : Int \X Int, chi2 : Int, time : Int, required : BOOLEAN]
DUTClusters == [pixels : {P \in SUBSET (Int \X Int) : P # {} /\ IsFiniteSet(P)}, time : Int]

DUTConfigurations ==
    [module : {"DUT"}, events : Nat, length : Nat,
     det : [columns : Nat, rows : Nat, hexagonal : BOOLEAN, roi : Seq(Int \X Int)], masked : SUBSET Int,
     use_cluster_centre : BOOLEAN, spatial_cut : Int \X Int, assoc_time_cut : Int,
     chi2ndof_cut : Int, spatial_cut_sensoredge : Int, dut_sensoredge : Int,
     masked_pixel_distance_cut : Nat, time_cut_frameedge : Int,
     require_associated_cluster_on : BOOLEAN, inpixel_cut_edge : Int, correlations : BOOLEAN,
     use_closest_cluster : BOOLEAN,
     inputs : SUBSET [tracks : Seq(DUTTracks), clusters : Seq(DUTClusters)]]

\* What an event has on the clipboard is of its time.
ASSUME DUTAssumption ==
    \A n \in DOMAIN Chains : Chains[n].module = "DUT" =>
        /\ Chains[n] \in DUTConfigurations
        /\ \A d \in Chains[n].inputs : \A m \in DOMAIN d.clusters :
                d.clusters[m].time \in 0..(Chains[n].length - 1)

VARIABLES dut,      \* the clipboard: tracks, clusters of the DUT
          assoc,    \* for every track, the clusters associated and the closest one (or 0)
          todo      \* the track a module looks at next

dutVars == <<dut, assoc, todo>>

DUTInit == dut = [tracks |-> <<>>, clusters |-> <<>>] /\ assoc = <<>> /\ todo = 1

\* Events follow each other; all times are later than this.
EventStart(n) == (n - 1) * chain.length

InEvent(n, x) == [x EXCEPT !.time = EventStart(n) + @]

TracksArrive ==
    /\ chain.module = "DUT"
    /\ Proceed("begin", "associate")
    /\ \E input \in Inputs :
        /\ dut' = [tracks |-> [k \in DOMAIN input.tracks |-> InEvent(event, input.tracks[k])],
                   clusters |-> [m \in DOMAIN input.clusters |-> InEvent(event, input.clusters[m])]]
        /\ assoc' = [k \in DOMAIN input.tracks |-> [associated |-> <<>>, closest |-> 0]]
    /\ todo' = 1
    /\ UNCHANGED filled

-----------------------------------------------------------------------------
(* DUTAssociation *)

BookedAssociation ==
    {"Spatial", "Timing", "clusterDistance", "no_assoc_cls", "total_tracks_", "num_cluster",
     "assoc_cluster_counter", "track_w_assoc_cls"}

Minimum(S) == CHOOSE n \in S : \A m \in S : n <= m

PixelSum(P, axis) == MapThenSumSet(LAMBDA p : Unit * p[axis], P)

\* The distance from x to a cluster along an axis: to the nearest of its pixels,
\* for each axis alone, or to its centre.
Distance(x, cluster, axis) ==
    IF chain.use_cluster_centre
    THEN Abs(x[axis] - PixelSum(cluster.pixels, axis) \div Cardinality(cluster.pixels))
    ELSE Minimum({Abs(x[axis] - Unit * p[axis]) : p \in cluster.pixels})

\* Its square, and that of the ellipse of the spatial cut.
Square(n) == n * n

Distance2(x, c) == Square(Distance(x, c, 1)) + Square(Distance(x, c, 2))

Outside(x, c) ==
    LET a == chain.spatial_cut[1]
        b == chain.spatial_cut[2]
    IN  Square(Distance(x, c, 1) * b) + Square(Distance(x, c, 2) * a) > Square(a * b)

\* The bin of the cut flow a cluster is counted in, if any.
Cut(t, c) ==
    IF Outside(t.x, c) THEN "Spatial"
    ELSE IF Abs(c.time - t.time) > chain.assoc_time_cut THEN "Timing" ELSE "assoc_cluster_counter"

\* Mutation: the first associated cluster stays the closest one.
AddClusterFirst(t, a, m) ==
    [associated |-> Append(a.associated, m), closest |-> IF a.closest = 0 THEN m ELSE a.closest]

\* Adds cluster m to a track that it is close to: the closest one is the first of
\* those at the least distance.
AddCluster(t, a, m) ==
    [associated |-> Append(a.associated, m),
     closest |-> IF \/ a.closest = 0
                    \/ Distance2(t.x, dut.clusters[m]) < Distance2(t.x, dut.clusters[a.closest])
                 THEN m ELSE a.closest]

AssociateTrack ==
    /\ todo \in DOMAIN dut.tracks
    /\ Proceed("associate", "associate")
    /\ todo' = todo + 1
    /\ LET t == dut.tracks[todo]
           cuts == [m \in DOMAIN dut.clusters |-> Cut(t, dut.clusters[m])]
           added == Kept([m \in DOMAIN cuts |-> m], {m \in DOMAIN cuts : cuts[m] = "assoc_cluster_counter"})
       IN  /\ assoc' = [assoc EXCEPT ![todo] = FoldLeft(LAMBDA a, m : AddCluster(t, a, m), @, added)]
           /\ Fill(<<"total_tracks_", "no_assoc_cls">>
                   \o cuts \o [m \in DOMAIN cuts |-> "num_cluster"]
                   \o [m \in DOMAIN cuts |-> "clusterDistance"]
                   \o If(added # <<>>, <<"track_w_assoc_cls">>))
    /\ UNCHANGED dut

\* The next module takes the tracks from the first on.
NextModule(from, to) ==
    /\ todo > Len(dut.tracks)
    /\ Proceed(from, to)
    /\ todo' = 1
    /\ UNCHANGED <<filled, dut, assoc>>

AssociationDone == NextModule("associate", "efficiency")

-----------------------------------------------------------------------------
(* AnalysisEfficiency *)

VARIABLE prev_hit_ts    \* for each pixel, the time of its last hit in an earlier event

EfficiencyInit == prev_hit_ts = <<>>

Matrix == (0..(chain.det.columns - 1)) \X (0..(chain.det.rows - 1))

\* Profiles and efficiencies, one of each at the same place.
BookedMaps ==
    {"pixelMatrix", "pixelTrackPos", "pixelTrackPos_passed", "inPixelROI", "inPixelROI_passed",
     "chipTrackPos", "chipTrackPos_passed", "globalTrackPos", "globalTrackPos_passed",
     "clustPos", "clustPos_passed"}

BookedEfficiency ==
    {"distanceTrackHit", "eTotalEfficiency", "eTotalEfficiency_passed", "efficiencyColumns",
     "efficiencyVsTime", "prevHit_matched", "prevHit_notmatched", "prevTrack_assoc",
     "prevTrack_noAssoc", "timeDiff_clustersize", "n_track", "n_chi2", "n_roi", "n_dut", "n_masked",
     "n_frameedge", "n_requirecluster", "total_tracks", "matched_tracks", "hPixelEfficiency",
     "hPixelEfficiencyMatrix"}

EfficiencyInitialize == prev_hit_ts' = [p \in Matrix |-> 0]

-----------------------------------------------------------------------------

\* Whether the track is too close to the edges of the readout frame.
AtFrameEdge(t, cut) ==
    Abs(t.time - EventStart(event + 1)) < cut \/ Abs(t.time - EventStart(event)) < cut

\* The counter of the cut that rejects a track first, or of accepted tracks.
Selection(t) ==
    IF t.chi2 > chain.chi2ndof_cut THEN "n_chi2"
    ELSE IF ~hasIntercept(chain.det, t.x, chain.spatial_cut_sensoredge) THEN "n_dut"
    ELSE IF hitMasked(chain.det, chain.masked, t.x, chain.masked_pixel_distance_cut) THEN "n_masked"
    ELSE IF AtFrameEdge(t, chain.time_cut_frameedge) THEN "n_frameedge"
    ELSE IF chain.require_associated_cluster_on /\ ~t.required THEN "n_requirecluster"
    ELSE "total_tracks"

isWithinInPixelROI(x) ==
    \A axis \in {1, 2} : Unit - Abs(2 * inPixel(chain.det, x)[axis]) > chain.inpixel_cut_edge

\* What an accepted track fills: an efficiency and what passes it.
Counted(names, matched) == <<names[1]>> \o If(matched, <<names[2]>>)

\* The pixel the track is looked up at: a conversion of both coordinates.
TruncatedPixel(x) == <<Truncate(x[1]), Truncate(x[2])>>

FillAccepted(t, a) ==
    LET matched == a.associated # <<>>
        inpixel == isWithinInPixelROI(t.x)
        closest == dut.clusters[a.closest]
    IN  If(matched, <<"matched_tracks", "distanceTrackHit">>)
        \o If(inpixel /\ (matched => TruncatedPixel(t.x) \in closest.pixels), <<"pixelMatrix">>)
        \o Counted(<<"clustPos", "clustPos_passed">>, matched)
        \o Counted(<<"globalTrackPos", "globalTrackPos_passed">>, matched)
        \o Counted(<<"chipTrackPos", "chipTrackPos_passed">>, matched)
        \o If(TrackWithinROI(chain.det, t.x),
              Counted(<<"pixelTrackPos", "pixelTrackPos_passed">>, matched)
              \o Counted(<<"eTotalEfficiency", "eTotalEfficiency_passed">>, matched)
              \o <<"efficiencyColumns", "efficiencyVsTime">>
              \o If(inpixel, Counted(<<"inPixelROI", "inPixelROI_passed">>, matched)))
        \o [m \in DOMAIN a.associated |-> "timeDiff_clustersize"]
        \o (IF matched THEN <<"prevTrack_assoc">> ELSE <<"prevTrack_noAssoc">>)

\* The time since the last hit of the pixel, if it ever had one.
FillPreviousHit(t, a) ==
    If(prev_hit_ts[TruncatedPixel(t.x)] # 0,
       IF a.associated # <<>> THEN <<"prevHit_matched">> ELSE <<"prevHit_notmatched">>)

\* Tracks up to the pixel's history; a track without a place there ends the run.
EfficiencyTrack ==
    /\ todo \in DOMAIN dut.tracks
    /\ todo' = todo + 1
    /\ LET t == dut.tracks[todo]
           a == assoc[todo]
           selection == Selection(t)
           counters == <<"n_track", selection>>
                       \o If(/\ selection \notin {"n_chi2", "n_dut"}
                             /\ ~TrackWithinROI(chain.det, t.x), <<"n_roi">>)
       IN  \/ /\ selection # "total_tracks"
              /\ Proceed("efficiency", "efficiency")
              /\ Fill(counters)
           \/ /\ selection = "total_tracks"
              /\ TruncatedPixel(t.x) \in Matrix
              /\ Proceed("efficiency", "efficiency")
              /\ Fill(counters \o FillAccepted(t, a) \o FillPreviousHit(t, a))
           \/ /\ selection = "total_tracks"
              /\ TruncatedPixel(t.x) \notin Matrix
              /\ Proceed("efficiency", "aborted")
              /\ Fill(counters \o FillAccepted(t, a))
    /\ UNCHANGED <<dut, assoc, prev_hit_ts>>

\* Mutation: the end of the event is kept, not the time of the hit.
EfficiencyHitsAtEnd ==
    /\ NextModule("efficiency", "dut")
    /\ prev_hit_ts' =
        [p \in Matrix |-> IF \E m \in DOMAIN dut.clusters : p \in dut.clusters[m].pixels
                          THEN EventStart(event + 1) ELSE prev_hit_ts[p]]

\* Hits of this event, for the next one; a cluster stands for its pixels.
EfficiencyHits ==
    /\ NextModule("efficiency", "dut")
    /\ prev_hit_ts' =
        [p \in Matrix |->
            LET hits == Kept(dut.clusters, {c \in ToSet(dut.clusters) : p \in c.pixels})
            IN  IF hits = <<>> THEN prev_hit_ts[p] ELSE Last(hits).time]

\* At the end of the run: an entry for each pixel with an efficiency above zero, of
\* which there are no more than tracks with a cluster, nor than pixels.
EfficiencyFinalize ==
    /\ chain.module = "DUT"
    /\ Proceed("finalize", "done")
    /\ \E passed \in 0..Min({filled["chipTrackPos_passed"], Cardinality(Matrix)}),
          matching \in 0..Min({filled["pixelMatrix"], Cardinality(Matrix)}) :
        Fill([n \in 1..passed |-> "hPixelEfficiency"]
             \o [n \in 1..matching |-> "hPixelEfficiencyMatrix"])
    /\ UNCHANGED <<dutVars, prev_hit_ts>>

-----------------------------------------------------------------------------
(* AnalysisDUT *)

BookedGlobalResiduals == {"residuals_global", "residualsColGlobal", "residualsRowGlobal"}

BookedLocalResiduals == {"residuals_local", "residualsColLocal", "residualsRowLocal"}

BookedCorrelations ==
    IF chain.correlations THEN {"trackCorrelation_beforeCuts", "trackCorrelation_afterCuts"} ELSE {}

\* Residuals and clusters by column and row, charges, tracks on the DUT, pixels.
BookedClusters ==
    {"residual_vs_col_row", "clusterMapAssoc", "clusterCharge", "seedCharge",
     "globalTrackZPosOnDUT", "hitMapAssoc", "pixelRawValue"}

\* Tracks by time, sizes and widths, the cut flow, profiles in the pixel.
BookedInPixel ==
    {"associatedTracksVersusTime", "clusterSizeAssoc", "kAllTrack", "kHighChi2Ndf", "kOutsideDUT",
     "kOutsideROI", "kCloseToMask", "kTimeLimit", "kPass", "kAssociated", "rmsvsxmym", "qvsxmym",
     "npxvsxmym"}

\* Profiles in the pixel by cluster size, time residuals, track positions.
BookedPositions ==
    {"npxvsxmym_1px", "npxvsxmym_2px", "npxvsxmym_3px", "npxvsxmym_4px", "residualsTime",
     "hAssociatedTracks", "hUnassociatedTracks"}

BookedTimes ==
    {"pxTimeMinusSeedTime", "pxTimeMinusSeedTime_2px", "pxTimeMinusSeedTime_3px",
     "pxTimeMinusSeedTime_4px", "track_to_track_distance", "trackPos_TProfile"}

BookedDUT ==
    BookedGlobalResiduals \cup BookedLocalResiduals \cup BookedCorrelations \cup BookedClusters
    \cup BookedInPixel \cup BookedPositions \cup BookedTimes

-----------------------------------------------------------------------------

Repeat(name, n) == [k \in 1..n |-> name]

\* Why the geometry of the DUT rejects a track, or "kPass".
acceptTrackDUT(t) ==
    IF ~hasIntercept(chain.det, t.x, chain.dut_sensoredge) THEN "kOutsideDUT"
    ELSE IF ~TrackWithinROI(chain.det, t.x) THEN "kOutsideROI"
    ELSE IF hitMasked(chain.det, chain.masked, t.x, 1) THEN "kCloseToMask"
    ELSE "kPass"

\* Mutation: tracks at the edge of a frame pass.
BinAnyTime(t) == IF t.chi2 > chain.chi2ndof_cut THEN "kHighChi2Ndf" ELSE acceptTrackDUT(t)

\* The bin of the cut flow: times are looked at last.
Bin(t) ==
    IF t.chi2 > chain.chi2ndof_cut THEN "kHighChi2Ndf"
    ELSE IF acceptTrackDUT(t) = "kPass" /\ AtFrameEdge(t, chain.time_cut_frameedge) THEN "kTimeLimit"
    ELSE acceptTrackDUT(t)

fillClusterHistograms(c) ==
    <<"clusterCharge", "seedCharge">> \o Repeat("hitMapAssoc", Cardinality(c.pixels))
    \o Repeat("pixelRawValue", Cardinality(c.pixels))

\* Histograms of a size, for the sizes that have one.
BySize(names, n) == If(n \in DOMAIN names, <<names[n]>>)

\* An associated cluster: cluster, residuals, then times and in-pixel profiles.
FillAssociated(c) ==
    LET size == Cardinality(c.pixels)
        PixelTime == Repeat("pxTimeMinusSeedTime", size - 1)
        PixelTimeBySize ==
            BySize(<<"pxTimeMinusSeedTime_2px", "pxTimeMinusSeedTime_3px", "pxTimeMinusSeedTime_4px">>,
                   size - 1)
    IN  <<"kAssociated", "trackPos_TProfile", "globalTrackZPosOnDUT">>
        \o fillClusterHistograms(c)
        \o <<"clusterSizeAssoc", "clusterMapAssoc", "associatedTracksVersusTime",
             "residual_vs_col_row", "residuals_local", "residualsColLocal", "residualsRowLocal",
             "residuals_global", "residualsColGlobal", "residualsRowGlobal",
             "rmsvsxmym", "residualsTime", "qvsxmym">>
        \o PixelTime \o FlattenSeq(Repeat(PixelTimeBySize, size - 1))
        \o <<"npxvsxmym">> \o BySize(<<"npxvsxmym_1px", "npxvsxmym_2px", "npxvsxmym_3px", "npxvsxmym_4px">>, size) \o <<"hAssociatedTracks">>

\* The associated clusters that are looked at.
Selected(a) ==
    IF chain.use_closest_cluster THEN Kept(a.associated, {a.closest}) ELSE a.associated

\* Other tracks of a good chi2, for the distances between tracks.
GoodTracks(k) == {l \in DOMAIN dut.tracks \ {k} : dut.tracks[l].chi2 <= chain.chi2ndof_cut}

DUTTrack ==
    /\ todo \in DOMAIN dut.tracks
    /\ Proceed("dut", "dut")
    /\ todo' = todo + 1
    /\ LET t == dut.tracks[todo]
           clusters == Selected(assoc[todo])
           n == Len(dut.clusters)
       IN  Fill(<<"kAllTrack", Bin(t)>>
                \o If(chain.correlations, Repeat("trackCorrelation_beforeCuts", n))
                \o If(t.chi2 <= chain.chi2ndof_cut,
                      Repeat("track_to_track_distance", Cardinality(GoodTracks(todo))))
                \o If(chain.correlations /\ Bin(t) \in {"kTimeLimit", "kPass"},
                      Repeat("trackCorrelation_afterCuts", n))
                \o If(Bin(t) = "kPass",
                      FlattenSeq([k \in DOMAIN clusters |-> FillAssociated(dut.clusters[clusters[k]])])
                      \o If(clusters = <<>>, <<"hUnassociatedTracks">>)))
    /\ UNCHANGED <<dut, assoc, prev_hit_ts>>

DUTDone == NextModule("dut", "end") /\ UNCHANGED prev_hit_ts
=============================================================================
