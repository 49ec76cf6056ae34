-------------------------- MODULE ReconstructionMC --------------------------
EXTENDS Reconstruction

Small(S, n) == UNION {kSubset(k, S) : k \in 1..n}

Pix(P, T, Q(_)) == {[col |-> p[1], row |-> p[2], time |-> t, charge |-> Q(p)] : p \in P, t \in T}

Cartesian == [columns |-> 3, rows |-> 3, hexagonal |-> FALSE, roi |-> <<>>]

Default ==
    [module |-> "Clustering", method |-> "spatial", events |-> 1, det |-> Cartesian,
     inputs |-> {}, use_trigger_timestamp |-> FALSE, triggers |-> <<>>,
     reject_by_roi |-> FALSE, time_cut |-> 1, radius_row |-> 1, radius_col |-> 1,
     use_earliest_pixel |-> FALSE, charge_weighting |-> TRUE]

Spatial == [Default EXCEPT !.inputs = Small(Pix((0..2) \X (0..2), {1}, LAMBDA p : 1), 4) \cup {{}}]

InTime4D ==
    [Default EXCEPT !.method = "4D", !.inputs = Small(Pix((0..3) \X {0}, 0..2, LAMBDA p : p[1]), 4) \cup {{}},
                    !.det = [Cartesian EXCEPT !.columns = 4, !.rows = 1]]

ClusteringChains ==
    <<Spatial,
      [Spatial EXCEPT !.inputs = Small(Pix({<<0, 0>>, <<1, 1>>, <<2, 1>>}, {1, 2}, LAMBDA p : 1), 4),
                      !.use_trigger_timestamp = TRUE, !.triggers = <<7>>, !.charge_weighting = FALSE],
      InTime4D,
      [InTime4D EXCEPT !.radius_col = 2, !.use_earliest_pixel = TRUE, !.reject_by_roi = TRUE,
            !.det.roi = <<<<0, -1>>, <<0, 1>>, <<3, 1>>, <<3, -1>>>>],
      [InTime4D EXCEPT !.det = [columns |-> 2, rows |-> 3, hexagonal |-> TRUE, roi |-> <<>>],
            !.inputs = Small(Pix({<<0, 0>>, <<1, 0>>, <<0, 1>>, <<1, 1>>, <<-1, 2>>, <<0, 2>>}, {0, 1}, LAMBDA p : 1), 3)]>>

Planes == <<"a", "b", "c", "d">>

Each(x) == [d \in ToSet(Planes) |-> x]

Telescope ==
    [module |-> "Tracking4D", events |-> 1, detectors |-> Planes, role |-> Each("none"),
     time_cut |-> Each(1), exclude_dut |-> TRUE, exclude_from_seed |-> {},
     require_detectors |-> {}, timestamp_from |-> "", min_hits |-> 3, chi2s |-> {1},
     reject_by_roi |-> FALSE, fit_fails |-> FALSE, unique_cluster_usage |-> FALSE,
     triggers |-> FALSE, broken_lines |-> FALSE,
     inputs |-> [ToSet(Planes) -> {<<>>, <<1>>, <<2>>, <<1, 3>>}]]

TrackingChains ==
    <<Telescope,
      [Telescope EXCEPT !.role["b"] = "dut", !.min_hits = 2, !.time_cut["c"] = 2,
                        !.require_detectors = {"c"}, !.reject_by_roi = TRUE],
      [Telescope EXCEPT !.role["b"] = "dut", !.exclude_dut = FALSE, !.timestamp_from = "c",
                        !.exclude_from_seed = {"d"}],
      [Telescope EXCEPT !.exclude_from_seed = ToSet(Planes), !.inputs = [ToSet(Planes) -> {<<1>>}]],
      [Telescope EXCEPT !.chi2s = {1, 2}, !.unique_cluster_usage = TRUE, !.triggers = TRUE, !.broken_lines = TRUE,
                        !.inputs = [ToSet(Planes) -> {<<>>, <<1, 1>>}], !.role["c"] = "auxiliary"]>>

MultipletDefault ==
    [module |-> "TrackingMultiplet", events |-> 1, detectors |-> Planes, role |-> Each("none"),
     time_cut |-> Each(1), z |-> [a |-> 2, b |-> 4, c |-> 6, d |-> 8],
     arms |-> [upstream |-> <<>>, downstream |-> <<>>], scatterer_position |-> {4},
     min_hits |-> [upstream |-> {2}, downstream |-> {}], isolation_cut |-> 1,
     inputs |-> [ToSet(Planes) -> {<<>>, <<1>>, <<1, 2>>}]]

FivePlanes ==
    [MultipletDefault EXCEPT !.detectors = Append(Planes, "e"), !.z = @ @@ "e" :> 10, !.role = @ @@ "e" :> "none",
                             !.time_cut = @ @@ "e" :> 1]

Arms(up, down) == [upstream |-> up, downstream |-> down]

\* Short, crossing and overlapping arms, one of an unknown and one of an auxiliary
\* detector, too few hits, and arms about a scatterer at 0.
RefusedArms ==
    LET No == [FivePlanes EXCEPT !.inputs = {}]
    IN  <<[No EXCEPT !.arms.upstream = <<"a">>],
          [No EXCEPT !.arms = Arms(<<"a", "d">>, <<"b", "e">>)],
          [No EXCEPT !.arms = Arms(<<"a", "b">>, <<"b", "d">>)],
          [No EXCEPT !.arms.upstream = <<"a", "f">>],
          [No EXCEPT !.arms.downstream = <<"d", "e">>, !.role["d"] = "auxiliary"],
          [No EXCEPT !.min_hits.upstream = {1}],
          [No EXCEPT !.z = [d \in DOMAIN @ |-> @[d] - 6], !.scatterer_position = {0}]>>

MultipletChains ==
    <<[MultipletDefault EXCEPT !.arms.upstream = <<"a", "b">>],
      [FivePlanes EXCEPT !.isolation_cut = 0, !.arms = Arms(<<"a", "b", "c">>, <<"d", "e">>), !.scatterer_position = {6},
         !.inputs = [{"a", "b", "c", "d", "e"} -> {<<>>, <<1>>, <<2>>}]],
      [FivePlanes EXCEPT !.role["c"] = "dut", !.scatterer_position = {},
         !.inputs = [{"a", "b", "c", "d", "e"} -> {<<>>, <<1>>}]]>>
    \o RefusedArms


\* Two columns and one row of a DUT; places in quarters of a pixel.
Trk(x, chi2, time, required) == [x |-> x, chi2 |-> chi2, time |-> time, required |-> required]
Clu(P, time) == [pixels |-> P, time |-> time]

Two == [columns |-> 2, rows |-> 1, hexagonal |-> FALSE, roi |-> <<>>]

Seqs(S, n) == UNION {[1..k -> S] : k \in 0..n}

DUTInputs(T, C) == [tracks : Seqs(T, 2), clusters : Seqs(C, 2)]

DUTDefault ==
    [module |-> "DUT", events |-> 2, length |-> 10, det |-> Two, masked |-> {},
     use_cluster_centre |-> FALSE, spatial_cut |-> <<4, 3>>, assoc_time_cut |-> 1,
     chi2ndof_cut |-> 3, spatial_cut_sensoredge |-> 0, dut_sensoredge |-> 0,
     masked_pixel_distance_cut |-> 1, time_cut_frameedge |-> 1,
     require_associated_cluster_on |-> FALSE, inpixel_cut_edge |-> 1, correlations |-> FALSE,
     use_closest_cluster |-> TRUE,
     inputs |-> DUTInputs({Trk(<<0, 0>>, 1, 5, FALSE), Trk(<<3, 1>>, 1, 5, FALSE)},
                          {Clu({<<0, 0>>}, 5), Clu({<<1, 0>>}, 6), Clu({<<0, 0>>, <<1, 0>>}, 7)})]

DUTChains ==
    <<DUTDefault,
      [DUTDefault EXCEPT !.events = 1, !.correlations = TRUE, !.use_closest_cluster = FALSE,
         !.require_associated_cluster_on = TRUE, !.masked = {0},
         !.det = [Two EXCEPT !.columns = 4, !.roi = <<<<1, -1>>, <<1, 1>>, <<3, 1>>, <<3, -1>>>>],
         !.inputs = DUTInputs([x : {<<0, 0>>, <<5, 0>>, <<8, 0>>, <<13, 0>>}, chi2 : {1, 4}, time : {5, 10},
                               required : BOOLEAN], {Clu({<<2, 0>>}, 5), Clu({<<2, 0>>, <<3, 0>>}, 5)})],
      [DUTDefault EXCEPT !.events = 1, !.use_cluster_centre = TRUE, !.spatial_cut_sensoredge = 1, !.dut_sensoredge = 1,
         !.det = [Two EXCEPT !.columns = 4, !.roi = <<<<1, -1>>, <<1, 1>>, <<3, 1>>, <<3, -1>>>>],
         !.inputs = DUTInputs([x : {<<1, 0>>, <<8, 0>>, <<15, 0>>}, chi2 : {1}, time : {0, 5},
                               required : {TRUE}], {Clu({<<1, 0>>, <<2, 0>>, <<3, 0>>}, 5), Clu((0..3) \X {0}, 5)})],
      [DUTDefault EXCEPT !.events = 1, !.det = [columns |-> 2, rows |-> 3, hexagonal |-> TRUE, roi |-> <<>>],
         !.inputs = DUTInputs([x : {<<0, 0>>, <<-4, 8>>}, chi2 : {1}, time : {5}, required : {TRUE}],
                              {Clu({<<-1, 2>>}, 5)})]>>

FilterDefault ==
    [module |-> "Filter", events |-> 2, det |-> Two, duts |-> {"b"}, only_tracks_on_dut |-> TRUE,
     min_tracks |-> 1, max_tracks |-> 1, min_clusters |-> 1, max_clusters |-> 1,
     detectors |-> <<"a", "b", "c">>, role |-> [a |-> "none", b |-> "dut", c |-> "reference"],
     filter_tags |-> <<[tag |-> "run", values |-> {"1", "2"}, range |-> TRUE],
                       [tag |-> "spill", values |-> {"on"}, range |-> FALSE]>>,
     inputs |-> [tracks : Seqs({<<0, 0>>, <<9, 0>>}, 2), clusters : [{"a", "b", "c"} -> 0..2],
                 tags : {<<>>, [run |-> "1", spill |-> "off"], [run |-> "text"], [run |-> "3"]}]]

FilterChains ==
    <<[FilterDefault EXCEPT !.events = 1],
      [FilterDefault EXCEPT !.duts = {"b", "c"}, !.filter_tags = <<>>,
           !.inputs = {[tracks |-> <<>>, clusters |-> [a |-> 1, b |-> 0, c |-> 1], tags |-> <<>>],
                       [tracks |-> <<<<9, 0>>>>, clusters |-> [a |-> 1, b |-> 0, c |-> 1], tags |-> <<>>]}]>>

Entry(id, col, row) == [id |-> id, col |-> col, row |-> row]

MaskDefault ==
    [module |-> "Mask", events |-> 2, det |-> [Two EXCEPT !.rows = 2], maskfile |-> {}, configured |-> FALSE,
     write_new_config |-> TRUE, mask_dead_pixels |-> FALSE, method |-> "frequency", frequency_cut |-> 1,
     rate_max |-> 1, inputs |-> Small({<<0, 0>>, <<0, 1>>, <<1, 1>>}, 2) \cup {{}}]

MaskChains ==
    <<MaskDefault,
      [MaskDefault EXCEPT !.method = "localdensity", !.mask_dead_pixels = TRUE, !.configured = TRUE,
                          !.maskfile = {Entry("c", 1, 0), Entry("p", 0, 1)}],
      [MaskDefault EXCEPT !.write_new_config = FALSE, !.det.hexagonal = TRUE,
                          !.inputs = Small({<<-1, 1>>, <<0, 0>>, <<1, 0>>}, 2)]>>

FilesDefault ==
    [module |-> "Files", events |-> 2, refers |-> [Pixel |-> {}, Cluster |-> {"Pixel"}, Track |-> {"Cluster"}],
     writer |-> [include |-> {}, exclude |-> {}], reader |-> [include |-> {}, exclude |-> {}],
     inputs |-> {<<>>, <<"Pixel", "a">> :> <<1, 2>>, (<<"Pixel", "b">> :> <<3>>) @@ (<<"Cluster", "b">> :> <<>>),
                 (<<"Pixel", "a">> :> <<1, 2>>) @@ (<<"Cluster", "a">> :> <<2, 1>>) @@ (<<"Track", "">> :> <<1>>),
                 (<<"Pixel", "b">> :> <<1>>) @@ (<<"Cluster", "b">> :> <<1>>)}]

FilesChains ==
    <<FilesDefault,
      [FilesDefault EXCEPT !.writer.exclude = {"Track"}, !.reader.include = {"Cluster", "Track"}],
      [FilesDefault EXCEPT !.writer.include = {"Cluster"}, !.reader.exclude = {"Cluster"}]>>

Key(key, value) == [kind |-> "key", key |-> key, value |-> value]
Section(name) == [kind |-> "section", name |-> name]
Option(identifier, key, value) == [identifier |-> identifier, key |-> key, value |-> value]

DetectorConf(values) == [Conf("d1") EXCEPT !.values = values]

ConfigDefault ==
    [module |-> "Config", events |-> 1, lower |-> [Corryvreckan |-> "corryvreckan", Ignore |-> "ignore"],
     inputs |-> Seqs({Key("cut", "1"), Key("timing_cut", "2"), Section("M"), Section("Corryvreckan"),
                      Section("Ignore"), [kind |-> "comment"], [kind |-> "bad"]}, 4),
     options |-> <<Option("M:d1", "cut", "6"), Option("M", "cut", "4"), Option("", "cut", "5"),
                   Option("M", "cut", "7"), Option("M:d2", "more", "1")>>,
     uses |-> [M |-> [identifiers |-> <<"d1", "d2">>, reads |-> <<"time_cut", "other">>,
                      aliases |-> <<[new |-> "time_cut", old |-> "timing_cut"]>>,
                      defaults |-> <<[key |-> "other", value |-> "0"]>>]],
     detectors |-> <<DetectorConf([type |-> "t", pixel_pitch |-> "p", number_of_pixels |-> "n"])>>,
     detector_options |-> <<Option("d1", "role", {"dut"}), Option("d2", "role", {"passive"})>>,
     detector_defaults |->
        [type |-> "missing", coordinates |-> "cartesian", role |-> {}, time_offset |-> "0",
         time_resolution |-> "-1", position |-> "0", orientation_mode |-> "xyz", orientation |-> "0",
         material_budget |-> "0", calibration_file |-> "", number_of_pixels |-> "missing",
         pixel_pitch |-> "missing", spatial_resolution |-> "", roi |-> "", mask_file |-> ""]]

FewLines == {<<>>, <<Section("M"), Key("cut", "1")>>, <<Section("N")>>}

ConfigChains ==
    <<ConfigDefault,
      [ConfigDefault EXCEPT !.inputs = FewLines, !.options = <<>>,
         !.detector_options = <<Option("d1", "role", {"auxiliary"}), Option("d1", "time_offset", "3")>>,
         !.uses = [M |-> [identifiers |-> <<"">>, reads |-> <<"other">>, aliases |-> <<>>,
                          defaults |-> <<[key |-> "other", value |-> "0"]>>]]],
      [ConfigDefault EXCEPT !.inputs = FewLines,
         !.detector_options = <<Option("d1", "role", {"auxiliary", "dut"})>>],
      [ConfigDefault EXCEPT !.inputs = FewLines,
         !.detector_options = <<Option("d1", "roi", "r"), Option("d1", "mask_file", "m"),
                                Option("d1", "orientation_mode", "invalid")>>]>>

ValueDefault ==
    [module |-> "Value", events |-> 1, strings |-> FALSE, kind |-> "array",
     inputs |-> Seqs({"a", "[", "]", ",", " "}, 5)]

Matrices == {<<"[">> \o s \o <<"]">> : s \in Seqs({"a", "[", "]", ",", " "}, 5)}
        \cup {<<"[", "[", "a", ",", "b", "]", s, "[">> \o t \o <<"]", "]">> :
                s \in {",", " "}, t \in Seqs({"a", "b", ","}, 3)}

\* Texts of one string, and of two in brackets, with quotation marks.
Strings == Seqs({"a", "double", "single", ",", " "}, 4)
        \cup {<<"[", "[">> \o s \o <<",", "b", "]", ",">> \o t \o <<"]">> :
                s \in Seqs({"a", "double", "single", " ", "["}, 4),
                t \in {<<"[", "single", "]", " ", "single", "]">>, <<"[", "a", ",", "b", "]">>}}

StringDefault == [ValueDefault EXCEPT !.strings = TRUE, !.inputs = Strings]

ValueChains ==
    <<ValueDefault, StringDefault,
      [StringDefault EXCEPT !.kind = "matrix"],
      [StringDefault EXCEPT !.kind = "map"],
      [ValueDefault EXCEPT !.kind = "matrix", !.inputs = @ \cup Matrices],
      [ValueDefault EXCEPT !.kind = "map", !.inputs = @ \cup Matrices]>>

TPix(row, raw, time) == [row |-> row, raw |-> raw, time |-> time]
\* The chip is 2 x 2: one place is a pixel away from all of its edges.
TTrk(chi2, time, associated) == [x |-> <<2, 2>>, chi2 |-> chi2, time |-> time, associated |-> associated]

TimingInputs(T) ==
    [tracks : Seqs(T, 2), clusters : [1..2 -> {<<TPix(0, 1, 5)>>, <<TPix(0, 45, 5)>>, <<TPix(1, 45, 5), TPix(0, 30, 4)>>}]]

TimingDefault ==
    [module |-> "Timing", events |-> 2, length |-> 9, det |-> [Two EXCEPT !.rows = 2], masked |-> {},
     chi2ndof_cut |-> 3, time_cut_frameedge |-> 2, raws |-> {1, 30, 45}, high_tot_cut |-> 40,
     cluster_charge_cut |-> 0, cluster_size_cut |-> 0, timing_tail_cut |-> 2, min_entries |-> 2,
     calc_corrections |-> TRUE, row_correction |-> [r \in 0..1 |-> r], timewalk_correction |-> <<>>,
     inputs |-> TimingInputs({TTrk(1, 5, {1}), TTrk(1, 5, {1, 2}), TTrk(4, 5, {1}), TTrk(1, 8, {1}), TTrk(1, 2, {1}), TTrk(1, 7, {2}),
                             [TTrk(1, 5, {1}) EXCEPT !.x = <<0, 0>>]})]

TimingChains ==
    <<[TimingDefault EXCEPT !.inputs = TimingInputs({TTrk(1, 5, {1}), TTrk(1, 5, {1, 2})})],
      [TimingDefault EXCEPT !.events = 1, !.calc_corrections = FALSE,
         !.timewalk_correction = (1 :> -2) @@ (30 :> 0) @@ (45 :> 3)],
      [TimingDefault EXCEPT !.events = 1, !.row_correction = <<>>, !.masked = {1}, !.cluster_charge_cut = 50,
         !.timewalk_correction = (1 :> 0) @@ (30 :> 4) @@ (45 :> -4), !.time_cut_frameedge = 0],
      [TimingDefault EXCEPT !.events = 1, !.row_correction = <<>>, !.cluster_size_cut = 1]>>

PClu(x, time, inROI) == [x |-> x, time |-> time, inROI |-> inROI]

PairsDefault ==
    [module |-> "Pairs", events |-> 2, correlation_vs_time |-> FALSE, do_time_cut |-> TRUE, time_cut |-> 2,
     range_abs |-> 3, method |-> "mean", is_reference |-> FALSE,
     inputs |-> [detector : Seqs({PClu(0, 1, TRUE), PClu(2, 1, FALSE)}, 2),
                 reference : Seqs({PClu(1, 1, TRUE), PClu(4, 2, TRUE), PClu(2, 3, TRUE)}, 1)]]

PairsChains ==
    <<PairsDefault,
      [PairsDefault EXCEPT !.events = 1, !.method = "maximum", !.correlation_vs_time = TRUE, !.do_time_cut = FALSE],
      [PairsDefault EXCEPT !.events = 1, !.method = "gauss_fit"],
      [PairsDefault EXCEPT !.events = 1, !.is_reference = TRUE]>>

\* The FPGA's words 1 and 2 overflow, and the chip's counters; readouts from just before
\* to half a period after the time of the FPGA, hits from before to after the readout.
WordChains ==
    LET Timepix3 == [module |-> "Words", loader |-> "Timepix3", events |-> 1, words |-> 7, leftover |-> 0,
                     dut |-> FALSE, steps |-> {5, 13}, delays |-> {0, 7}, inputs |-> {}]
    IN  <<Timepix3,
          [Timepix3 EXCEPT !.leftover = HeartbeatWrap + 8, !.steps = {2}],
          [Timepix3 EXCEPT !.words = 5, !.dut = TRUE],
          [module |-> "Words", loader |-> "ATLASpix", events |-> 1, words |-> 12, leftover |-> 50,
           steps |-> {60, 124}, readouts |-> {-1, 0, 32}, hits |-> {-12, 0, 2}, inputs |-> {}]>>

\* Events that touch and events with gaps between them; blocks of three or four records,
\* a record for every trigger or not for the last.
ScopeChains ==
    LET FASTPIX == [module |-> "FASTPIX", events |-> 3, triggers |-> 5, records |-> 5, blockSize |-> 3,
                    period |-> 4, length |-> 3, spacing |-> 2, drifts |-> {-1, 0, 1}, inputs |-> {}]
    IN  <<FASTPIX,
          [FASTPIX EXCEPT !.records = 3, !.length = 2, !.blockSize = 4]>>

\* Tracks with and without clusters, and triggers with a record and without; events longer
\* than the dead time of the oscilloscope, and events of which it spans two.
Passing(time, chi2, inRoi, associated) ==
    [time |-> time, chi2 |-> chi2, intercept |-> inRoi, inRoi |-> inRoi, associated |-> associated,
     otherClusters |-> inRoi]

DeadtimeChains ==
    LET Signal(time, status) == [time |-> time, status |-> status]
        FASTPIX == [module |-> "AnalysisFASTPIX", events |-> 2, length |-> 6, chi2ndof_cut |-> 3,
                    time_cut_frameedge |-> 1, time_cut_trigger |-> 1, time_cut_deadtime |-> 4,
                    use_closest_cluster |-> FALSE,
                    inputs |-> [triggers : SUBSET {Signal(1, "complete"), Signal(3, "missing"), Signal(5, "complete")},
                                tracks : Seqs({Passing(time, 1, TRUE, 0) : time \in 1..5}
                                              \cup {Passing(1, 1, TRUE, 2), Passing(3, 1, FALSE, 1), Passing(5, 4, TRUE, 1)}, 1)]]
    IN  <<FASTPIX,
          [FASTPIX EXCEPT !.events = 3, !.length = 3, !.time_cut_frameedge = 0, !.time_cut_deadtime = 5,
             !.use_closest_cluster = TRUE,
             !.inputs = [triggers : SUBSET {Signal(0, "missing"), Signal(2, "complete")},
                         tracks : Seqs({Passing(time, 1, TRUE, associated) : time \in 0..2, associated \in {0, 2}}, 1)]]>>

AllChains ==
    ClusteringChains \o TrackingChains \o MultipletChains \o DUTChains \o FilterChains
    \o MaskChains \o FilesChains \o ConfigChains \o ValueChains
    \o TimingChains \o PairsChains \o WordChains \o ScopeChains \o DeadtimeChains
=============================================================================
