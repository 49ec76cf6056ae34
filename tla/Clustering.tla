----------------------------- MODULE Clustering -----------------------------
(***************************************************************************)
(* ClusteringSpatial and Clustering4D on the pixels of one detector.  A    *)
(* cluster holds the indices of its pixels, in the order they were added.  *)
(* The name of a histogram stands for those that are filled together.      *)
(***************************************************************************)
EXTENDS RecoChain

\* An event has finitely many pixels.
ASSUME ClusteringAssumption ==
    \A n \in DOMAIN Chains : Chains[n].module = "Clustering" => \A input \in Chains[n].inputs : IsFiniteSet(input)

VARIABLES pixels,    \* the pixels on the clipboard, a sequence
          clusters   \* the clusters put on the clipboard, a sequence, or NoData

clusteringVars == <<pixels, clusters>>

ClusteringInit == pixels = <<>> /\ clusters = <<>>

Position(i) == <<pixels[i].col, pixels[i].row>>

PixelPositions(cluster) == [k \in DOMAIN cluster.pixels |-> Position(cluster.pixels[k])]

\* Every loader gives its pixels in an order of its own; Clustering4D sorts them.
PixelsArrive ==
    /\ chain.module = "Clustering"
    /\ Proceed("begin", "cluster")
    /\ \E S \in Inputs :
        pixels' \in IF chain.method = "4D" THEN {SetToSeq(S)} ELSE SetToSeqs(S)
    /\ clusters' = <<>>
    /\ UNCHANGED filled

-----------------------------------------------------------------------------
(* ClusteringSpatial: a flood over the eight neighbours of a pixel *)

\* Of several pixels at one place, the map keeps the last one.
hitmap(p) == SelectLastInSeq(pixels, LAMBDA x : <<x.col, x.row>> = p)

Around(p) == [k \in 1..9 |-> <<(p[1] - 1) + ((k - 1) % 3), (p[2] - 1) + ((k - 1) \div 3)>>]

\* Without regard to the columns that a hexagonal matrix has.
InBounds(p) == p[1] \in 0..(chain.det.columns - 1) /\ p[2] \in 0..(chain.det.rows - 1)

\* Mutation: the neighbours that are added are not looked at in turn.
VisitShallow(flood, i) ==
    LET new == {p \in ToSet(Around(Position(i))) :
                    InBounds(p) /\ hitmap(p) \notin flood.used \cup {0}}
    IN  [flood EXCEPT !.used = @ \cup {hitmap(p) : p \in new}, !.neighbors = Front(@),
                      !.pixels = @ \o SetToSeq({hitmap(p) : p \in new})]

\* Adds the unused neighbours of pixel i to the cluster and to the stack.
Visit(flood, i) ==
    LET Add(f, p) ==
            LET hit == hitmap(p)
            IN  IF ~InBounds(p) \/ hit = 0 \/ hit \in f.used THEN f
                ELSE [f EXCEPT !.used = @ \cup {hit}, !.pixels = Append(@, hit),
                               !.neighbors = Append(@, hit)]
    IN  FoldLeft(Add, [flood EXCEPT !.neighbors = Front(@)], Around(Position(i)))

SpatialCluster(seed, used) ==
    LET Next(flood, n) ==
            IF flood.neighbors = <<>> THEN flood ELSE Visit(flood, Last(flood.neighbors))
    IN  FoldLeftDomain(Next, [used |-> used \cup {seed}, pixels |-> <<seed>>,
                              split |-> FALSE, neighbors |-> <<seed>>], pixels)

SpatialTime(cluster) ==
    IF chain.use_trigger_timestamp /\ chain.triggers # <<>> THEN chain.triggers[1]
    ELSE pixels[cluster.pixels[1]].time

-----------------------------------------------------------------------------
(* Clustering4D: sweeps over the pixels, by time, until one adds none *)

\* The pixels of the event in the order std::sort may leave them in.
SortedByTime ==
    {s \in SetToSeqs(DOMAIN pixels) :
        \A m, n \in DOMAIN s : m < n => pixels[s[m]].time <= pixels[s[n]].time}

EarliestTime(cluster) ==
    CHOOSE t \in {pixels[i].time : i \in ToSet(cluster.pixels)} :
        \A i \in ToSet(cluster.pixels) : t <= pixels[i].time

\* One sweep over the pixels order[first], order[first + 1] ...: it ends at the
\* first that is too late.
Sweep(cluster, order, first) ==
    LET Add(c, i) ==
            IF c.over \/ Abs(pixels[i].time - EarliestTime(c)) > chain.time_cut
            THEN [c EXCEPT !.over = TRUE]
            ELSE IF i \in c.used
                    \/ FirstTouched(chain.det, Position(i), PixelPositions(c),
                                    chain.radius_row, chain.radius_col) = 0
                 THEN c
                 ELSE [c EXCEPT !.used = @ \cup {i}, !.pixels = Append(@, i),
                                !.split = @ \/ Splits(chain.det, Position(i), PixelPositions(c),
                                                      chain.radius_row, chain.radius_col)]
    IN  FoldLeft(Add, [cluster EXCEPT !.over = FALSE], SubSeq(order, first, Len(order)))

Cluster4D(seed, used, order, first) ==
    LET Again(c, n) ==
            LET swept == Sweep(c.cluster, order, first)
            IN  IF c.done THEN c ELSE [cluster |-> swept, done |-> swept.pixels = c.cluster.pixels]
    IN  FoldLeftDomain(Again, [cluster |-> [used |-> used \cup {seed}, pixels |-> <<seed>>,
                                            split |-> FALSE, over |-> FALSE],
                               done |-> FALSE], pixels).cluster

\* The time of the cluster: the pixels by turns, the one of larger charge or the
\* earlier one.
ClusterTime(cluster) ==
    LET Update(c, i) ==
            LET zero == c.zero \/ pixels[i].charge = 0
            IN  IF ~zero /\ ~chain.use_earliest_pixel /\ pixels[i].charge > c.maxcharge
                THEN [time |-> pixels[i].time, maxcharge |-> pixels[i].charge, zero |-> zero]
                ELSE [c EXCEPT !.zero = zero,
                               !.time = IF pixels[i].time < @ THEN pixels[i].time ELSE @]
    IN  FoldLeft(Update, [time |-> pixels[cluster.pixels[1]].time, maxcharge |-> 0,
                          zero |-> FALSE], cluster.pixels).time

-----------------------------------------------------------------------------
(* run *)

BookedSpatialClusters == {"cluster", "clusterMultiplicity"}

\* Charges by size, times of the pixels.
BookedClusters4D ==
    {"clusterCharge_1px", "clusterCharge_2px", "clusterCharge_3px", "pxTimeMinusSeedTime",
     "pxTimeMinusSeedTime_2px", "pxTimeMinusSeedTime_3px", "pxTimeMinusSeedTime_4px"}

FillSpatial(found) ==
    [m \in DOMAIN found |-> "cluster"] \o If(pixels # <<>>, <<"clusterMultiplicity">>)

\* The charge of a small cluster; the times of all pixels of a cluster but its seed.
Fill4D(cluster) ==
    LET size == Len(cluster.pixels)
        PerPixel(name) == [k \in 1..(size - 1) |-> name]
    IN  <<"cluster">>
        \o If(size = 1, <<"clusterCharge_1px">>) \o If(size = 2, <<"clusterCharge_2px">>)
        \o If(size = 3, <<"clusterCharge_3px">>)
        \o PerPixel("pxTimeMinusSeedTime")
        \o If(size = 2, PerPixel("pxTimeMinusSeedTime_2px"))
        \o If(size = 3, PerPixel("pxTimeMinusSeedTime_3px"))
        \o If(size = 4, PerPixel("pxTimeMinusSeedTime_4px"))

\* The centre of a cluster times the sum of the weights: the charges, unless one of
\* them is zero.
Centre(cluster) ==
    LET all == ToSet(cluster.pixels)
        charged == chain.charge_weighting /\ \A i \in all : pixels[i].charge > 0
        Weight(i) == IF charged THEN pixels[i].charge ELSE 1
    IN  [col |-> MapThenSumSet(LAMBDA i : Weight(i) * pixels[i].col, all),
         row |-> MapThenSumSet(LAMBDA i : Weight(i) * pixels[i].row, all),
         weight |-> MapThenSumSet(Weight, all)]

\* The cluster of the seed at place n of the order, with all pixels used so far.
ClusterOfSeed(order, n, used) ==
    IF chain.method = "spatial" THEN SpatialCluster(order[n], used)
    ELSE Cluster4D(order[n], used, order, n + 1)

TimeOf(made) == IF chain.method = "spatial" THEN SpatialTime(made) ELSE ClusterTime(made)

\* Clusters from the pixels taken as seeds in the given order.
AllClusters(order) ==
    LET Seed(state, n) ==
            LET made == ClusterOfSeed(order, n, state.used)
                cluster == [pixels |-> made.pixels, split |-> made.split, time |-> TimeOf(made),
                            centre |-> Centre(made)]
                reject == chain.reject_by_roi
                          /\ ~ClusterWithinROI(chain.det, {Position(i) : i \in ToSet(made.pixels)})
            IN  IF order[n] \in state.used THEN state
                ELSE [used |-> made.used,
                      clusters |-> IF reject THEN state.clusters
                                   ELSE Append(state.clusters, cluster)]
    IN  FoldLeftDomain(Seed, [used |-> {}, clusters |-> <<>>], order).clusters

ClusteringSpatialRun ==
    /\ chain.module = "Clustering" /\ chain.method = "spatial"
    /\ Proceed("cluster", "end")
    /\ clusters' = AllClusters([i \in DOMAIN pixels |-> i])
    /\ Fill(FillSpatial(clusters'))
    /\ UNCHANGED pixels

Clustering4DRun ==
    /\ chain.module = "Clustering" /\ chain.method = "4D"
    /\ Proceed("cluster", "end")
    /\ \E order \in SortedByTime : clusters' = AllClusters(order)
    /\ Fill(FlattenSeq([m \in DOMAIN clusters' |-> Fill4D(clusters'[m])]) \o <<"clusterMultiplicity">>)
    /\ UNCHANGED pixels

ClusteringStep == PixelsArrive \/ ClusteringSpatialRun \/ Clustering4DRun
=============================================================================
