--------------------------- MODULE FilterAndMask ---------------------------
(***************************************************************************)
(* FilterEvents: events that do not fulfil some requirements are skipped.  *)
(* MaskCreator: noisy and dead pixels of a detector are masked.  The mask  *)
(* file outlives the run; the next run reads it if the detector's          *)
(* configuration names it.                                                 *)
(***************************************************************************)
EXTENDS RecoChain

-----------------------------------------------------------------------------
(* FilterEvents *)

VARIABLE input    \* the clipboard: tracks, clusters of the detectors, tags of the event

FilterInit == input = <<>>

BookedFilter ==
    {"Events", "TooManyTracks", "TooFewTracks", "TooManyClusters", "TooFewClusters", "EventsPassed"}

\* Tracks are places on the DUT; with several DUTs all tracks count.
only_tracks_on_dut == chain.only_tracks_on_dut /\ Cardinality(chain.duts) = 1

num_tracks ==
    IF only_tracks_on_dut
    THEN Len(SelectSeq(input.tracks, LAMBDA x : hasIntercept(chain.det, x, 0)))
    ELSE Len(input.tracks)

\* Each filter gives the bin that it fills when the event is rejected.
filter_tracks ==
    If(num_tracks > chain.max_tracks, <<"TooManyTracks">>)
    \o If(num_tracks <= chain.max_tracks /\ num_tracks < chain.min_tracks, <<"TooFewTracks">>)

\* Only the first detector out of bounds is counted.
filter_cluster ==
    LET planes == RegularDetectors(chain.detectors, chain.role, FALSE)
        Bad(d) == input.clusters[d] \notin chain.min_clusters..chain.max_clusters
        bad == SelectSeq(planes, Bad)
    IN  If(bad # <<>>, <<IF input.clusters[Head(bad)] > chain.max_clusters
                         THEN "TooManyClusters" ELSE "TooFewClusters">>)

\* A tag the event does not have is empty, and passes neither a range nor a list.
Tag(name) == IF name \in DOMAIN input.tags THEN input.tags[name] ELSE ""

\* The tags in the order of their names.  The loop returns in its first turn.
filter_tags ==
    chain.filter_tags # <<>> /\ Tag(Head(chain.filter_tags).tag) \notin Head(chain.filter_tags).values

\* A text is compared with a range: it is not a number.
NotANumber ==
    /\ chain.filter_tags # <<>>
    /\ Head(chain.filter_tags).range
    /\ Tag(Head(chain.filter_tags).tag) = "text"

EventArrives ==
    /\ chain.module = "Filter"
    /\ Proceed("begin", "filter")
    /\ input' \in Inputs
    /\ UNCHANGED filled

\* A tag that is no number where one is asked for ends the run.
FilterRun ==
    /\ chain.module = "Filter" /\ at = "filter"
    /\ LET rejected == filter_tracks \o filter_cluster
       IN  \/ /\ NotANumber
              /\ Proceed("filter", "aborted")
              /\ Fill(<<"Events">> \o rejected)
           \/ /\ ~NotANumber
              /\ Proceed("filter", "end")
              /\ Fill(<<"Events">> \o rejected
                      \o If(rejected = <<>> /\ ~filter_tags, <<"EventsPassed">>))
    /\ UNCHANGED input

FilterStep == EventArrives \/ FilterRun

-----------------------------------------------------------------------------
(* MaskCreator *)

CONSTANT MaxRuns    \* runs of the program, one after the other

VARIABLES maskfile,     \* the entries of the mask file
          configured,   \* the detector's configuration names the mask file
          masked,       \* the channels masked
          maskmap,      \* the pixels to be written to the mask file
          occupancy,    \* hits per pixel
          runs          \* runs begun

maskVars == <<maskfile, configured, masked, maskmap, occupancy, runs>>

MaskInit ==
    /\ maskfile = IF chain.module = "Mask" THEN chain.maskfile ELSE {}
    /\ configured = (chain.module = "Mask" /\ chain.configured)
    /\ masked = {} /\ maskmap = {} /\ occupancy = <<>> /\ runs = 1

\* The pixels of the histograms, which a hexagonal matrix exceeds.
Bins == (0..(chain.det.columns - 1)) \X (0..(chain.det.rows - 1))

\* Mutation: what the mask file has is not written again.
MaskInitializeEmpty ==
    /\ chain.module = "Mask"
    /\ Proceed("initialize", "begin")
    /\ masked' = IF configured THEN process_mask_file(chain.det, maskfile) ELSE {}
    /\ maskmap' = {}
    /\ occupancy' = Booked(Bins)
    /\ UNCHANGED <<filled, maskfile, configured, runs>>

MaskInitialize ==
    /\ chain.module = "Mask"
    /\ Proceed("initialize", "begin")
    /\ LET channels == IF configured THEN process_mask_file(chain.det, maskfile) ELSE {}
       IN  /\ masked' = channels
           /\ maskmap' = {p \in Bins : IsMasked(chain.det, channels, p)}
    /\ occupancy' = Booked(Bins)
    /\ UNCHANGED <<filled, maskfile, configured, runs>>

\* An event loader gives the pixels that are not masked; without any the event is
\* NoData, and counts.
MaskRun ==
    /\ chain.module = "Mask"
    /\ Proceed("begin", "end")
    /\ \E hits \in Inputs :
        LET pixels == {p \in hits : ~IsMasked(chain.det, masked, p)}
        IN  occupancy' = [p \in Bins |-> occupancy[p] + (IF p \in pixels THEN 1 ELSE 0)]
    /\ UNCHANGED <<filled, maskfile, configured, masked, maskmap, runs>>

-----------------------------------------------------------------------------

Unmasked == {p \in Bins : ~IsMasked(chain.det, masked, p)}

\* Pixels above the mean rate of their neighbours, in standard deviations: any with a
\* hit may be; of no hit in an empty neighbourhood nothing is known (0/0).
AboveDensity == SUBSET {p \in Unmasked : occupancy[p] > 0}

\* The local density method, which has an absolute limit of hits per event too.
localDensityEstimator(above) ==
    above \cup {p \in Unmasked : occupancy[p] > chain.rate_max * event}

globalFrequencyFilter ==
    LET hits == MapThenSumSet(LAMBDA p : occupancy[p], Bins)
    IN  {p \in Unmasked : occupancy[p] * Cardinality(Bins) > chain.frequency_cut * hits}

deadPixelFinder == {p \in Unmasked : occupancy[p] = 0}

\* The file is written anew, with all pixels of the mask map.
writeMaskFiles(pixels) ==
    /\ maskfile' = {[id |-> "p", col |-> p[1], row |-> p[2]] : p \in pixels}
    /\ configured' = (configured \/ chain.write_new_config)

MaskFinalize ==
    /\ chain.module = "Mask"
    /\ Proceed("finalize", "done")
    /\ \E above \in AboveDensity :
        LET noisy == CASE chain.method = "localdensity" -> localDensityEstimator(above)
                       [] chain.method = "frequency" -> globalFrequencyFilter
            dead == IF chain.mask_dead_pixels THEN deadPixelFinder ELSE {}
        IN  maskmap' = maskmap \cup noisy \cup dead
    /\ writeMaskFiles(maskmap')
    /\ UNCHANGED <<filled, masked, occupancy, runs>>

\* The program is run again with the configuration it wrote.
Restart ==
    /\ chain.module = "Mask" /\ at = "done" /\ runs < MaxRuns
    /\ at' = "initialize" /\ event' = 1 /\ runs' = runs + 1
    /\ masked' = {} /\ maskmap' = {} /\ occupancy' = <<>>
    /\ UNCHANGED <<setup, chain, filled, maskfile, configured>>

MaskStep == MaskInitialize \/ MaskRun \/ MaskFinalize \/ Restart
=============================================================================
