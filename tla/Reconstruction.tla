--------------------------- MODULE Reconstruction ---------------------------
EXTENDS Clustering, Tracking4D, TrackingMultiplet, Analysis

recoVars == <<clusteringVars, trackingVars, multipletVars>>

vars == <<chainVars, recoVars, analysisVars>>

Init == ChainInit /\ ClusteringInit /\ TrackingInit /\ MultipletInit /\ AnalysisInit

\* The histograms booked by the modules of the chain, before the first event.
Books ==
    CASE chain.module = "Clustering" ->
            BookedSpatialClusters \cup IF chain.method = "4D" THEN BookedClusters4D ELSE {}
      [] chain.module = "Tracking4D" -> BookedTracking4D
      [] chain.module = "TrackingMultiplet" -> BookedMultiplet
      [] chain.module = "DUT" -> BookedAssociation \cup BookedEfficiency \cup BookedMaps \cup BookedDUT
      [] chain.module = "Filter" -> BookedFilter
      [] chain.module = "Timing" -> BookedTiming
      [] chain.module = "Pairs" -> BookedPairs
      [] chain.module = "AnalysisFASTPIX" -> BookedFASTPIX
      [] OTHER -> {}

Initialize ==
    /\ chain.module \notin {"Mask", "Config", "Value"}
    /\ (chain.module = "TrackingMultiplet" => ArmsAccepted)
    /\ Proceed("initialize", "begin")
    /\ filled' = Booked(Books)
    /\ IF chain.module = "DUT" THEN EfficiencyInitialize ELSE UNCHANGED prev_hit_ts
    /\ IF chain.module = "Timing" THEN TimingInitialize ELSE UNCHANGED graphs
    /\ UNCHANGED <<recoVars, dutVars, input, maskVars, fileVars, confVars, timing, track_nr, pairVars, loadingVars>>

Cluster == ClusteringStep /\ UNCHANGED <<trackingVars, multipletVars, analysisVars>>

Track ==
    /\ \/ (ClustersArrive \/ Tracking4DStep) /\ UNCHANGED multipletVars
       \/ MultipletStep
    /\ UNCHANGED <<clusteringVars, analysisVars>>

NextEvent == EndOfEvent /\ UNCHANGED <<recoVars, analysisVars>>

Next ==
    \/ Initialize
    \/ Cluster \/ Track
    \/ Analyse /\ UNCHANGED recoVars
    \/ NextEvent

Spec == Init /\ [][Next]_vars

-----------------------------------------------------------------------------
(* Properties *)

\* No histogram is filled that was not booked (a null pointer), whatever the
\* parameters of the module.
BookedBeforeFilled == at \notin {"initialize", "refused"} => DOMAIN filled = Books

\* Whether pixels i and j may be in one cluster, but for their times.
Adjacent(i, j) ==
    IF chain.method = "spatial"
    THEN Abs(pixels[i].col - pixels[j].col) <= 1 /\ Abs(pixels[i].row - pixels[j].row) <= 1
    ELSE Touches(chain.det, Position(i), Position(j), chain.radius_row, chain.radius_col)

InTime(first, j) ==
    chain.method = "spatial" \/ Abs(pixels[j].time - pixels[first].time) <= chain.time_cut

\* The pixels of S that are connected to i by adjacent pixels of S.
Connected(S, i) ==
    LET Reach[n \in Nat] ==
            IF n = 0 THEN {i}
            ELSE Reach[n - 1] \cup {j \in S : \E k \in Reach[n - 1] : Adjacent(j, k)}
    IN  Reach[Cardinality(S)]

\* The clusters are the connected components of the pixels that are close in time
\* to the first of them, whatever the order in which the pixels arrive; no pixel
\* is in two clusters, and none is lost but for the region of interest.  (Of
\* pixels at one place, spatial clustering may leave one alone.)  The centre of a
\* cluster is between its pixels.
ClustersAreComponents ==
    chain.module = "Clustering" /\ at = "end" =>
        LET Pixels(m) == ToSet(clusters[m].pixels)
            Alone(i) == \A j \in DOMAIN pixels \ {i} : Position(j) # Position(i)
        IN  /\ \A m \in DOMAIN clusters :
                /\ Cardinality(Pixels(m)) = Len(clusters[m].pixels)
                /\ Connected(Pixels(m), clusters[m].pixels[1]) = Pixels(m)
                /\ \A j \in Pixels(m) : InTime(clusters[m].pixels[1], j)
                /\ \E i, j, k, l \in Pixels(m) :
                    LET centre == clusters[m].centre
                    IN  /\ centre.weight * pixels[i].col <= centre.col
                        /\ centre.col <= centre.weight * pixels[j].col
                        /\ centre.weight * pixels[k].row <= centre.row
                        /\ centre.row <= centre.weight * pixels[l].row
            /\ \A m, n \in DOMAIN clusters : m < n =>
                /\ Pixels(m) \cap Pixels(n) = {}
                /\ \A i \in Pixels(m), j \in Pixels(n) :
                        ~(Adjacent(i, j) /\ InTime(clusters[m].pixels[1], j) /\ Alone(j))
            /\ \A i \in DOMAIN pixels :
                \/ \E m \in DOMAIN clusters : i \in Pixels(m)
                \/ chain.reject_by_roi /\ chain.det.roi # <<>>

Clusters(t) == ToSet(t.clusters)

\* Every track on the clipboard has enough clusters, one of each required detector and
\* none of an excluded one; and, when the seed is of two detectors at least, no more
\* than one of a detector ("one cluster from each plane"), each once.
TracksWellFormed ==
    chain.module = "Tracking4D" /\ at = "end" =>
        \A k \in DOMAIN tracks :
            LET t == tracks[k]
            IN  /\ Len(t.clusters) >= chain.min_hits
                /\ \A d \in chain.require_detectors : \E c \in Clusters(t) : c[1] = d
                /\ \A c \in Clusters(t) : c[1] \in ToSet(Searched)
                /\ Cardinality(ToSet(Seeds)) >= 2 =>
                        /\ \A c, e \in Clusters(t) : c[1] = e[1] => c = e
                        /\ Cardinality(Clusters(t)) = Len(t.clusters)

\* With unique_cluster_usage no two tracks share a cluster (of two detectors for the
\* seed: only the first cluster of a detector is compared), and a track that was
\* dropped shares one with a track kept that is not worse.
BestTracksKept ==
    chain.module = "Tracking4D" /\ at = "end" /\ chain.unique_cluster_usage =>
        /\ Cardinality(ToSet(Seeds)) >= 2 =>
                \A k, l \in DOMAIN tracks :
                    k # l => Clusters(tracks[k]) \cap Clusters(tracks[l]) = {}
        /\ \A k \in DOMAIN found :
                \E l \in DOMAIN tracks : /\ tracks[l].chi2 <= found[k].chi2
                                        /\ Clusters(tracks[l]) \cap Clusters(found[k]) # {}

\* A tracklet is used for one multiplet only, no tracklet that is close to another
\* one of its arm is used, and each has enough clusters, all of its side of the
\* scatterer.
TrackletsIsolated ==
    chain.module = "TrackingMultiplet" /\ at = "end" =>
        \A k \in DOMAIN tracks : \A s \in Streams :
            /\ \A p \in close[s] : tracks[k][s] \notin p
            /\ \A l \in DOMAIN tracks : tracks[l][s] = tracks[k][s] => k = l
            /\ Len(tracks[k][s].clusters) >= 2
            /\ \A c \in Clusters(tracks[k][s]), z \in Scatterer :
                    IF s = "upstream" THEN chain.z[c[1]] <= z ELSE chain.z[c[1]] >= z

\* What tracking puts on the clipboard, by either module.
TracksSound == TracksWellFormed /\ BestTracksKept /\ TrackletsIsolated
=============================================================================
