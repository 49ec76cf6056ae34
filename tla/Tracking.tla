------------------------------ MODULE Tracking ------------------------------
(***************************************************************************)
(* The search for tracks that Tracking4D and TrackingMultiplet have in     *)
(* common: every pair of clusters on the first and the last hit detector   *)
(* is a candidate, and the planes between are searched for the cluster     *)
(* that is closest to it.  Clusters are pairs <<detector, index>>.  Where  *)
(* clusters are is left out: any cluster within the cuts may be closest.   *)
(* A histogram is a pair of a name, which stands for those that are filled *)
(* together, and a detector or "".                                         *)
(***************************************************************************)
EXTENDS RecoChain

CONSTANT TimeUnit    \* a multiple of every time cut

\* A second detector of one name is refused, and a loader leaves times of clusters.
ASSUME SearchAssumption ==
    \A n \in DOMAIN Chains : Chains[n].module \in {"Tracking4D", "TrackingMultiplet"} =>
        /\ "detectors" \in DOMAIN Chains[n]
        /\ Chains[n].detectors \in Seq(STRING)
        /\ \A i, j \in DOMAIN Chains[n].detectors : Chains[n].detectors[i] = Chains[n].detectors[j] => i = j
        /\ \A d \in ToSet(Chains[n].detectors) : \A input \in Chains[n].inputs : input[d] \in Seq(Int)

VARIABLES hits,          \* the times of the clusters of each detector, on the clipboard
          references,    \* the first and the last detector of the search
          pairs,         \* pairs of reference clusters still to be looked at
          planes,        \* planes still to be searched for the candidate
          candidate,     \* the clusters of the candidate
          detector_nr,   \* planes counted for the candidate
          found,         \* tracks found by the search
          tracks         \* the tracks on the clipboard

searchVars == <<references, pairs, planes, candidate, detector_nr>>
trackingVars == <<hits, searchVars, found, tracks>>

TrackingInit ==
    /\ hits = <<>> /\ references = <<>> /\ pairs = <<>> /\ planes = <<>>
    /\ candidate = <<>> /\ detector_nr = 0 /\ found = <<>> /\ tracks = <<>>

Larger(m, n) == IF m < n THEN n ELSE m
Smaller(m, n) == IF m < n THEN m ELSE n

Time(c) == hits[c[1]][c[2]]

\* Detectors of a list with clusters, in its order.
HitDetectors(detectors) == Kept(detectors, {d \in ToSet(detectors) : hits[d] # <<>>})

\* The mean time of some clusters, weighted with the inverse of the time cuts: a
\* sum of weighted times, and the sum of the weights.
AverageTime(cs) ==
    LET Weight(c) == TimeUnit \div chain.time_cut[c[1]]
    IN  FoldLeft(LAMBDA a, c : [sum |-> a.sum + Weight(c) * Time(c), weights |-> a.weights + Weight(c)],
                 [sum |-> 0, weights |-> 0], cs)

Within(t, average, cut) == Abs(average.sum - average.weights * t) <= average.weights * cut

\* Clusters of detector d within the time window of the candidate.
InTimeWindow(d) ==
    LET cut == Larger(Smaller(chain.time_cut[references[1]], chain.time_cut[references[2]]),
                      chain.time_cut[d])
    IN  {i \in DOMAIN hits[d] : Within(hits[d][i], AverageTime(candidate), cut)}

\* The clusters of detector d among cs; the first one is that of getClusterFromDetector.
ClusterFrom(cs, d) == Kept(cs, {c \in ToSet(cs) : c[1] = d})

-----------------------------------------------------------------------------

ClustersArrive ==
    /\ chain.module \in {"Tracking4D", "TrackingMultiplet"}
    /\ Proceed("begin", "track")
    /\ hits' \in Inputs
    /\ found' = <<>> /\ tracks' = <<>>
    /\ UNCHANGED <<filled, searchVars>>

\* All pairs of clusters of the two reference detectors, the last one's faster.
ReferencePairs(first, last) ==
    LET n == Len(hits[last])
    IN  [k \in 1..(Len(hits[first]) * n) |->
            <<<<first, ((k - 1) \div n) + 1>>, <<last, ((k - 1) % n) + 1>>>>]

\* The search begins a candidate; the planes are visited in one of the orders.
NextPair(orders) ==
    /\ pairs # <<>>
    /\ pairs' = Tail(pairs)
    /\ LET pair == Head(pairs)
           cut == Larger(chain.time_cut[references[1]], chain.time_cut[references[2]])
       IN  IF Abs(Time(pair[1]) - Time(pair[2])) > cut
           THEN Proceed("pair", "pair") /\ UNCHANGED <<planes, candidate, detector_nr>>
           ELSE /\ Proceed("pair", "plane")
                /\ planes' \in orders
                /\ candidate' = pair
                /\ detector_nr' = 2
    /\ UNCHANGED <<filled, hits, references, found, tracks>>

\* Clusters missing on the candidate, of trees hit detectors, are too many to reach
\* the minimum: an unsigned number, so that a negative one is large.
NoChance(trees, min_hits) ==
    LET left == Len(candidate) + trees - detector_nr' + 1
    IN  left >= 0 /\ left < min_hits

\* One plane between: the closest cluster within the cuts, if any, is added.
SearchPlane(trees, min_hits) ==
    /\ planes # <<>>
    /\ Proceed("plane", "plane")
    /\ planes' = Tail(planes)
    /\ detector_nr' = detector_nr + 1
    /\ LET d == Head(planes)
       IN  \/ candidate' = candidate
           \/ /\ ~NoChance(trees, min_hits)
              /\ \E i \in InTimeWindow(d) : candidate' = Append(candidate, <<d, i>>)
    /\ UNCHANGED <<filled, hits, references, pairs, found, tracks>>

\* The candidate is complete: it is kept as a track, or not.
Keep(track) ==
    /\ Proceed("plane", "pair")
    /\ planes = <<>>
    /\ found' = Append(found, track)
    /\ UNCHANGED <<filled, hits, searchVars, tracks>>

Discard ==
    /\ Proceed("plane", "pair")
    /\ planes = <<>>
    /\ UNCHANGED <<filled, hits, searchVars, found, tracks>>
=============================================================================
