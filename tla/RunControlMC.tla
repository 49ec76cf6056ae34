----------------------------- MODULE RunControlMC -----------------------------
(* Two modules, two collections, two events of each parity. *)
EXTENDS RunControl

Tracks == <<"Track", "">>
Pixels == <<"Pixel", "dut">>
AllSlots == {Tracks, Pixels}
TracksOnly == {Tracks}

AllObjects == (0..1) \X (1..MaxCount)

NoLimit == [events |-> -1, tracks |-> -1, time |-> -1]
AllLimits ==
    {NoLimit, [NoLimit EXCEPT !.events = 0], [NoLimit EXCEPT !.events = 2],
     [NoLimit EXCEPT !.tracks = 1], [NoLimit EXCEPT !.time = 1]}
=============================================================================
