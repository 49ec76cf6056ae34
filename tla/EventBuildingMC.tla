--------------------------- MODULE EventBuildingMC ---------------------------
(* Every definer with the loaders it is used with, on small files. *)
EXTENDS EventBuilding

Datum(kind, b, e, t, g) == [kind |-> kind, begin |-> b, end |-> e, trigger |-> t, tag |-> g]

Hits(kind, times) == {Datum(kind, t, t, t, 1) : t \in times}

Default ==
    [definer |-> "Metronome", loader |-> "Timepix3", buffer_depth |-> 2,
     data |-> Hits("pixel", 1..6), event_length |-> 2, triggers |-> 0,
     skip_time |-> 0, skip_triggers |-> 0, tags |-> 1,
     inclusive |-> TRUE, sync_by_trigger |-> FALSE, veto_triggers |-> FALSE,
     shift_triggers |-> 0, adjust_event_times |-> <<0, 0>>,
     tlu_data |-> {}, m26_data |-> {}, layer |-> "timing", add_begin |-> 0,
     add_end |-> 0, time_shift |-> 0, add_trigger |-> FALSE]

\* The same with a definer, and without.
Both(c) == <<c, [c EXCEPT !.definer = "none"]>>

Timepix3Chains ==
    <<[Default EXCEPT !.data = Hits("pixel", {0, 2, 3, 5}) \cup Hits("signal", {1, 2, 4})]>>

TimestampChains ==
    Both([Default EXCEPT !.loader = "Timestamp", !.data = Hits("signal", 1..6)])

ATLASpix == [Default EXCEPT !.loader = "ATLASpix"]

ATLASpixChains == Both(ATLASpix) \o <<[ATLASpix EXCEPT !.buffer_depth = 1]>>

Telescope(times) == {Datum("pixel", t, t, 0, g) : t \in times, g \in 1..2}

MuPixChains ==
    Both([Default EXCEPT !.loader = "MuPix", !.data = Telescope({1, 2, 4, 5}),
                         !.tags = 2, !.event_length = 4, !.buffer_depth = 1])

EUDAQ2 == [Default EXCEPT !.loader = "EUDAQ2"]

Frames(begins, lengths, triggers) ==
    {Datum("frame", b, b + l, t, 1) : b \in begins, l \in lengths, t \in triggers}

\* Frames without a time, by the triggers of the event.
TriggerFrames == {Datum("frame", 0, 0, t, 1) : t \in 0..4}

TimedEUDAQ2 ==
    [EUDAQ2 EXCEPT !.data = Frames({1, 4}, {1}, {0}) \cup Frames({2}, {2}, {3})
                                \cup {Datum("other", 1, 1, 0, 1)}]

ByTime ==
    Both(TimedEUDAQ2) \o
    <<[TimedEUDAQ2 EXCEPT !.buffer_depth = 0],
      [TimedEUDAQ2 EXCEPT !.buffer_depth = 0, !.inclusive = FALSE],
      [EUDAQ2 EXCEPT !.data = Frames({1, 2, 3}, {1, -1}, {2}), !.definer = "none",
                     !.skip_time = 2, !.adjust_event_times = <<-1, 1>>,
                     !.veto_triggers = TRUE, !.buffer_depth = 0]>>

TriggeredEUDAQ2 ==
    [EUDAQ2 EXCEPT !.data = TriggerFrames, !.triggers = 2, !.buffer_depth = 0]

ByTriggers ==
    Both(TriggeredEUDAQ2) \o
    <<[TriggeredEUDAQ2 EXCEPT !.shift_triggers = 1],
      [TriggeredEUDAQ2 EXCEPT !.sync_by_trigger = TRUE,
                              !.data = Frames({1, 2}, {1}, {0, 1, 3})]>>

\* The frames of the telescope are taken by trigger.
M26 ==
    [EUDAQ2 EXCEPT !.definer = "M26", !.buffer_depth = 0, !.add_trigger = TRUE,
                   !.add_begin = 1, !.time_shift = 1, !.data = {},
                   !.tlu_data = [trigger : 0..2, time : {2, 5, 9}],
                   !.m26_data = [trigger : 0..2, time : {0, 1}]]

M26Chains ==
    <<M26, [M26 EXCEPT !.layer = "all_hits"], [M26 EXCEPT !.layer = "pivot_hits"],
      [M26 EXCEPT !.data = TriggerFrames, !.shift_triggers = 1, !.add_begin = 0,
                  !.time_shift = 0, !.tlu_data = [trigger : 1..3, time : {2, 9}],
                  !.m26_data = [trigger : 0..2, time : {0}]],
      [M26 EXCEPT !.data = Frames({1, 2}, {1}, {2}), !.add_end = -1,
                  !.tlu_data = {[trigger |-> 1, time |-> 9], [trigger |-> 2, time |-> 15]},
                  !.m26_data = [trigger : 1..2, time : {1}]],
      [M26 EXCEPT !.add_end = -7]>>

AllChains ==
    Timepix3Chains \o TimestampChains \o ATLASpixChains
        \o MuPixChains \o ByTime \o ByTriggers \o M26Chains

MuPixOnly == MuPixChains
=============================================================================
