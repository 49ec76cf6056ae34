-------------------------- MODULE TrackingMultiplet --------------------------
(***************************************************************************)
(* TrackingMultiplet: tracklets upstream and downstream of the scatterer,  *)
(* and tracks made of one of each.                                         *)
(***************************************************************************)
EXTENDS Tracking

VARIABLES stream,      \* the arm that is searched
          tracklets,   \* the tracklets of each arm
          close        \* pairs of tracklets, of one arm, close at the scatterer

multipletVars == <<stream, tracklets, close>>

Streams == {"upstream", "downstream"}

\* Detectors and the scatterer have places along the beam; an arm may be listed.
ASSUME ArmsAssumption ==
    \A n \in DOMAIN Chains : Chains[n].module = "TrackingMultiplet" =>
        /\ {"arms", "z", "scatterer_position"} \subseteq DOMAIN Chains[n]
        /\ Chains[n].arms \in [Streams -> Seq(STRING)]
        /\ \A d \in ToSet(Chains[n].detectors) : Chains[n].z[d] \in Int
        /\ Chains[n].scatterer_position \subseteq Int

MultipletInit ==
    stream = "upstream" /\ tracklets = [s \in Streams |-> <<>>] /\ close = [s \in Streams |-> {}]

-----------------------------------------------------------------------------
(* The constructor.  Positions along the beam are even numbers. *)

\* What the search for the largest position starts from, std::numeric_limits<double>::min():
\* the smallest positive number.
Tiny == 1

\* The position of the scatterer as it is given, or of the DUT if there is one.
Scatterer ==
    LET duts == {d \in ToSet(chain.detectors) : chain.role[d] = "dut"}
    IN  IF chain.scatterer_position # {} \/ Cardinality(duts) # 1 THEN chain.scatterer_position
        ELSE {chain.z[d] : d \in duts}

\* The detectors of an arm are listed, or those before or after the scatterer.
Arm(s) ==
    LET planes_ == RegularDetectors(chain.detectors, chain.role, FALSE)
        before == {d \in ToSet(planes_) : \A z \in Scatterer : chain.z[d] < z}
        after == {d \in ToSet(planes_) : \A z \in Scatterer : chain.z[d] > z}
    IN  IF chain.arms[s] # <<>> THEN chain.arms[s]
        ELSE Kept(planes_, IF s = "upstream" THEN before ELSE after)

MinHits(s) == IF chain.min_hits[s] = {} THEN Len(Arm(s)) ELSE CHOOSE n \in chain.min_hits[s] : TRUE

LastUpstream == Max({Tiny} \cup {chain.z[d] : d \in ToSet(Arm("upstream"))})

FirstDownstream == Min({chain.z[d] : d \in ToSet(Arm("downstream"))})

\* Arms that are accepted: of at least two known detectors that are not auxiliary, none
\* in both, each on its side of the other and of the scatterer.
ArmsAccepted ==
    LET listed == UNION {ToSet(Arm(s)) : s \in Streams}
    IN  /\ Scatterer # {} /\ listed \subseteq ToSet(chain.detectors)
        /\ \A s \in Streams : Len(Arm(s)) >= 2 /\ MinHits(s) \in 2..Len(Arm(s))
        /\ \A d \in listed : chain.role[d] # "auxiliary"
        /\ ToSet(Arm("upstream")) \cap ToSet(Arm("downstream")) = {}
        /\ LastUpstream <= FirstDownstream
        /\ Scatterer \subseteq LastUpstream..FirstDownstream

MultipletRefused ==
    /\ chain.module = "TrackingMultiplet" /\ ~ArmsAccepted
    /\ Proceed("initialize", "refused")
    /\ UNCHANGED <<filled, trackingVars, multipletVars>>

-----------------------------------------------------------------------------

HitIn(s) == HitDetectors(Arm(s))

\* Histograms of multiplets, of the tracklets of an arm, of the detectors of the arms.
BookedMultiplets == {"multipletMultiplicity", "matchingDistance", "multiplet"} \X {""}

BookedTracklets == {"trackletMultiplicity", "tracklet"} \X Streams

BookedTrackletResiduals ==
    {"residuals_global", "residuals_local"} \X UNION {ToSet(Arm(s)) : s \in Streams}

BookedMultiplet == BookedMultiplets \cup BookedTracklets \cup BookedTrackletResiduals

fill_tracklet_histograms(s, ts) ==
    LET Tracklet(t) ==
            <<<<"tracklet", s>>>>
            \o [k \in DOMAIN t.clusters |-> <<"residuals_global", t.clusters[k][1]>>]
            \o [k \in DOMAIN t.clusters |-> <<"residuals_local", t.clusters[k][1]>>]
    IN  Fill(<<<<"trackletMultiplicity", s>>>> \o FlattenSeq([k \in DOMAIN ts |-> Tracklet(ts[k])]))

\* The arm is searched if enough of its detectors are hit.  The trees are in a map
\* with the addresses of the detectors as keys: the planes come in any order.
MultipletBegin ==
    /\ chain.module = "TrackingMultiplet" /\ at = "track"
    /\ IF Len(HitIn(stream)) < MinHits(stream)
       THEN Proceed("track", "isolate") /\ UNCHANGED searchVars
       ELSE /\ Proceed("track", "pair")
            /\ references' = <<Head(HitIn(stream)), Last(HitIn(stream))>>
            /\ pairs' = ReferencePairs(Head(HitIn(stream)), Last(HitIn(stream)))
            /\ UNCHANGED <<planes, candidate, detector_nr>>
    /\ found' = <<>>
    /\ UNCHANGED <<filled, hits, tracks, multipletVars>>

MultipletPair ==
    /\ chain.module = "TrackingMultiplet"
    /\ NextPair(SetToSeqs(ToSet(HitIn(stream)) \ ToSet(references)))
    /\ UNCHANGED multipletVars

MultipletPlane ==
    /\ chain.module = "TrackingMultiplet"
    /\ SearchPlane(Len(HitIn(stream)), MinHits(stream))
    /\ UNCHANGED multipletVars

MultipletSave ==
    /\ chain.module = "TrackingMultiplet"
    /\ IF Len(candidate) < MinHits(stream) THEN Discard
       ELSE Keep([clusters |-> candidate, time |-> AverageTime(candidate)])
    /\ UNCHANGED multipletVars

MultipletSearched ==
    /\ chain.module = "TrackingMultiplet" /\ pairs = <<>>
    /\ Proceed("pair", "isolate")
    /\ UNCHANGED <<filled, trackingVars, multipletVars>>

\* From the last to the first, so that the places of the others stay what they are.
EraseUnisolated(ts, pairs_) ==
    LET Erase(k, kept) == IF \E p \in pairs_ : k \in p THEN RemoveAt(kept, k) ELSE kept
    IN  FoldRightDomain(Erase, ts, ts)

\* Tracklets closer than the isolation cut at the scatterer: any pairs of them.
Isolate ==
    /\ chain.module = "TrackingMultiplet"
    /\ IF stream = "upstream" THEN Proceed("isolate", "track") /\ stream' = "downstream"
       ELSE Proceed("isolate", "match") /\ stream' = "upstream"
    /\ \E near \in IF chain.isolation_cut = 0 THEN {{}} ELSE SUBSET kSubset(2, DOMAIN found) :
        /\ tracklets' = [tracklets EXCEPT ![stream] = EraseUnisolated(found, near)]
        /\ fill_tracklet_histograms(stream, tracklets'[stream])
        /\ close' = [close EXCEPT ![stream] = {{found[k] : k \in p} : p \in near}]
    /\ found' = <<>>
    /\ UNCHANGED <<hits, searchVars, tracks>>

-----------------------------------------------------------------------------
(* Matching: found holds the multiplets *)

\* The smallest time cut of the detectors of a tracklet.
TimeCut(t) ==
    CHOOSE c \in {chain.time_cut[x[1]] : x \in ToSet(t.clusters)} :
        \A x \in ToSet(t.clusters) : c <= chain.time_cut[x[1]]

Simultaneous(t, u) ==
    Abs(t.time.sum * u.time.weights - u.time.sum * t.time.weights)
        <= Larger(TimeCut(t), TimeCut(u)) * t.time.weights * u.time.weights

\* Of the downstream tracklets within the cuts the closest, of equals the last.
Closest(distance) ==
    {k \in DOMAIN distance : \A l \in DOMAIN distance :
        distance[k] < distance[l] \/ (distance[k] = distance[l] /\ l <= k)}

\* The distance of the next upstream tracklet to those downstream, where it is
\* within the cut.
Match ==
    /\ chain.module = "TrackingMultiplet"
    /\ Proceed("match", "match")
    /\ tracklets["upstream"] # <<>>
    /\ LET up == Head(tracklets["upstream"])
           down == tracklets["downstream"]
           simultaneous == Kept([k \in DOMAIN down |-> k], {k \in DOMAIN down : Simultaneous(down[k], up)})
       IN  \E matching \in SUBSET ToSet(simultaneous) :
           \E distance \in [matching -> 1..2] :
           /\ Fill([k \in DOMAIN simultaneous |-> <<"matchingDistance", "">>]
                   \o If(matching # {}, <<<<"multiplet", "">>>>))
           /\ IF matching = {}
              THEN /\ tracklets' = [tracklets EXCEPT !["upstream"] = Tail(@)]
                   /\ UNCHANGED found
              ELSE \E k \in Closest(distance) :
                   /\ tracklets' = [tracklets EXCEPT !["upstream"] = Tail(@),
                                                     !["downstream"] = RemoveAt(@, k)]
                   /\ found' = Append(found, [upstream |-> up, downstream |-> down[k]])
    /\ UNCHANGED <<hits, searchVars, tracks, stream, close>>

MultipletPut ==
    /\ chain.module = "TrackingMultiplet"
    /\ Proceed("match", "end")
    /\ tracklets["upstream"] = <<>>
    /\ tracks' = found
    /\ Fill(<<<<"multipletMultiplicity", "">>>>)
    /\ tracklets' = [s \in Streams |-> <<>>]
    /\ UNCHANGED <<hits, searchVars, found, stream, close>>

MultipletStep ==
    \/ MultipletRefused \/ MultipletBegin \/ MultipletPair \/ MultipletPlane \/ MultipletSave
    \/ MultipletSearched \/ Isolate \/ Match \/ MultipletPut
=============================================================================
