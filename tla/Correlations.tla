---------------------------- MODULE Correlations ----------------------------
(***************************************************************************)
(* Correlations and Prealignment: pixels and clusters of a detector are    *)
(* compared with those of the reference detector; the prealignment moves   *)
(* the detector by what it finds.  A cluster has a global place on an axis *)
(* and a time; a name stands for the histograms that are filled together.  *)
(***************************************************************************)
EXTENDS RecoChain

GlobalClusters == [x : Int, time : Int, inROI : BOOLEAN]

PairConfigurations ==
    [module : {"Pairs"}, events : Nat, correlation_vs_time : BOOLEAN, do_time_cut : BOOLEAN,
     time_cut : Int, range_abs : Nat, method : {"mean", "maximum", "gauss_fit"}, is_reference : BOOLEAN,
     inputs : SUBSET [detector : Seq(GlobalClusters), reference : Seq(GlobalClusters)]]

ASSUME PairsAssumption ==
    \A n \in DOMAIN Chains : Chains[n].module = "Pairs" => Chains[n] \in PairConfigurations

VARIABLES pairs_of,      \* the clipboard, by detector: "detector" and "reference"
          residuals,     \* the entries of the prealignment's correlation
          displacement   \* of the detector

pairVars == <<pairs_of, residuals, displacement>>

PairInit ==
    pairs_of = [detector |-> <<>>, reference |-> <<>>] /\ residuals = <<>> /\ displacement = 0

BookedHitmaps == {"hitmap", "hitmap_clusters", "eventTimes"}

BookedSpatial ==
    {"correlation", "correlation2D", "correlation2Dlocal", "correlationColRow_px"}

BookedCorrelationTimes == {"correlationTime", "correlationTimeInt", "correlationTime_px"}

BookedVsTime ==
    IF chain.correlation_vs_time
    THEN {"correlationVsTime", "correlationTimeOverTime_px", "correlationTimeOverTime",
          "correlationTimeOverSeedPixelRawValue", "correlationTimeOverPixelRawValue_px"}
    ELSE {}

BookedPrealignment == {"prealignX", "prealignX2D", "prealignX2Dlocal"}

BookedPairs ==
    BookedHitmaps \cup BookedSpatial \cup BookedCorrelationTimes \cup BookedVsTime \cup BookedPrealignment

-----------------------------------------------------------------------------

PairsArrive ==
    /\ chain.module = "Pairs"
    /\ Proceed("begin", "correlations")
    /\ \E input \in Inputs : pairs_of' = input
    /\ UNCHANGED <<filled, residuals, displacement>>

\* The place of a cluster after the detector was moved.
Global(cluster) == cluster.x + displacement

PairedInTime(c, r) == Abs(r.time - c.time) < chain.time_cut

\* Every cluster has one pixel.
FillPixels(c) ==
    <<"hitmap", "eventTimes", "hitmap_clusters">>
    \o FlattenSeq([k \in DOMAIN pairs_of.reference |->
            <<"correlationColRow_px", "correlationTime_px">>
            \o If(chain.correlation_vs_time,
                  <<"correlationTimeOverTime_px", "correlationTimeOverPixelRawValue_px">>)])

\* The time cut is for places alone, and may be left out.
FillPair(c, r) ==
    LET placed == PairedInTime(c, r) \/ ~chain.do_time_cut
    IN  If(placed, <<"correlation", "correlation2D", "correlation2Dlocal">>)
        \o <<"correlationTime">>
        \o If(chain.correlation_vs_time,
              If(placed, <<"correlationVsTime">>)
              \o <<"correlationTimeOverTime", "correlationTimeOverSeedPixelRawValue">>)
        \o <<"correlationTimeInt">>

CorrelationsRun ==
    /\ Proceed("correlations", "prealignment")
    /\ LET clusters == pairs_of.detector
           inside == Kept(clusters, {c \in ToSet(clusters) : c.inROI})
       IN  Fill(FlattenSeq([m \in DOMAIN clusters |-> FillPixels(clusters[m])])
                \o FlattenSeq([m \in DOMAIN inside |->
                        FlattenSeq([k \in DOMAIN pairs_of.reference |->
                                        FillPair(inside[m], pairs_of.reference[k])])]))
    /\ UNCHANGED pairVars

\* Without clusters on either detector there are no pairs.
PrealignmentRun ==
    /\ Proceed("prealignment", "end")
    /\ LET found == FlattenSeq([m \in DOMAIN pairs_of.detector |->
                        LET c == pairs_of.detector[m]
                            near == Kept(pairs_of.reference, {r \in ToSet(pairs_of.reference) : PairedInTime(c, r)})
                        IN  [k \in DOMAIN near |-> near[k].x - Global(c)]])
       IN  /\ residuals' = residuals \o found
           /\ Fill(FlattenSeq([k \in DOMAIN found |-> <<"prealignX", "prealignX2D", "prealignX2Dlocal">>]))
    /\ UNCHANGED <<pairs_of, displacement>>

\* What the histogram has in its range; bins are one wide.
InRange == Kept(residuals, (-chain.range_abs)..(chain.range_abs - 1))

SumOf(seq) == FoldSeq(LAMBDA d, sum : d + sum, 0, seq)

MeanResidual == IF InRange = <<>> THEN 0 ELSE SumOf(InRange) \div Len(InRange)

\* The first of the fullest bins: with no entries the lowest.
MaximumBin ==
    LET Entries(bin) == Len(Kept(InRange, {bin}))
        bins == (-chain.range_abs)..(chain.range_abs - 1)
        fullest == {b \in bins : \A c \in bins : Entries(c) <= Entries(b)}
    IN  CHOOSE b \in fullest : \A c \in fullest : b <= c

\* A fit finds some place among the entries; without entries there is no function to
\* ask for its mean.
Shifts ==
    CASE chain.method = "mean" -> {MeanResidual}
      [] chain.method = "maximum" -> {MaximumBin}
      [] chain.method = "gauss_fit" -> ToSet(InRange)

\* A correlation that is too wide is an error message.
PrealignmentFinalize ==
    /\ chain.module = "Pairs"
    /\ IF chain.is_reference
       THEN Proceed("finalize", "done") /\ UNCHANGED displacement
       ELSE \/ /\ Proceed("finalize", "done")
               /\ \E shift \in Shifts : displacement' = displacement + shift
            \/ Shifts = {} /\ Proceed("finalize", "aborted") /\ UNCHANGED displacement
    /\ UNCHANGED <<filled, pairs_of, residuals>>

PairStep == PairsArrive \/ CorrelationsRun \/ PrealignmentRun \/ PrealignmentFinalize
=============================================================================
