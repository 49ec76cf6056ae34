------------------------------ MODULE EventData ------------------------------
(***************************************************************************)
(* What the modules that define and fill events share.  A chain is one     *)
(* configuration: a module that defines the event, or "none", and the      *)
(* loader of one file.  The file is not fixed beforehand: every word read  *)
(* is any of the chain's data that its order in time allows, and the file  *)
(* ends anywhere.                                                          *)
(*                                                                         *)
(* Most loaders sort what they read: a priority queue, earliest first, is  *)
(* refilled to a given depth before its first element is looked at.  A     *)
(* measurement is known by its place in the file.                          *)
(***************************************************************************)
EXTENDS Event, Sequences, FiniteSets

CONSTANTS
    Chains,         \* the configurations, a sequence
    NoEvent,        \* the clipboard has no event
    MaxWords,       \* bound: words read from the loader's file
    MaxData,        \* bound: measurements in it
    MaxEvents       \* bound: events of a run (number_of_events)

Loaders == {"EUDAQ2", "Timestamp", "Timepix3", "ATLASpix", "MuPix"}

\* A measurement: a hit or trigger signal (begin = end), or a frame.
Measurements ==
    [kind : {"pixel", "signal", "frame", "other"},
     begin : Int, end : Int, trigger : Nat, tag : Nat]

\* A record of one of the files of EventDefinitionM26.
TriggerRecords == [trigger : Nat, time : Int]

ASSUME EventDataAssumption ==
    /\ NoEvent \notin EventType
    /\ MaxWords \in Nat /\ MaxData \in Nat /\ MaxEvents \in Nat
    /\ \A n \in DOMAIN Chains : LET c == Chains[n] IN
        /\ c.definer \in {"Metronome", "M26", "none"}
        /\ c.loader \in Loaders
        /\ c.buffer_depth \in Nat
        /\ c.data \subseteq Measurements
        /\ c.loader # "EUDAQ2" => \A m \in c.data : m.kind \in {"pixel", "signal"}
        /\ c.tlu_data \subseteq TriggerRecords /\ c.m26_data \subseteq TriggerRecords
        /\ c.event_length \in Nat /\ (c.loader = "MuPix" => c.event_length # 0 /\ c.buffer_depth # 0)
        /\ c.triggers \in Nat /\ c.tags \in Nat \ {0}
        /\ c.adjust_event_times \in Int \X Int
        /\ {c.skip_time, c.skip_triggers, c.time_shift, c.shift_triggers,
            c.add_begin, c.add_end} \subseteq Int

VARIABLES
    setup,          \* which configuration this run has
    event,          \* Clipboard::event_
    at,             \* where the main thread is
    status,         \* the status the loader returns
    asked,          \* has a module asked for the end of the run?
    words,          \* words read from the file
    file,           \* the measurements read, in order
    sorted,         \* the time-sorted buffer
    eof_reached,
    pixels,         \* the measurements collected for the clipboard in this run()
    \* History: the measurements in the order they left the buffer, the events
    \* of the run, where each measurement was stored or dropped, and the events
    \* in which a loader gave up on data it could not place.
    released, events, stored, dropped, unplaced

chain == Chains[setup]

inputVars == <<words, file, sorted, eof_reached>>
collectVars == <<pixels, released, dropped>>
historyVars == <<events, stored, unplaced>>
dataVars == <<setup, event, at, status, asked, inputVars, collectVars, historyVars>>

DataInit ==
    /\ setup \in DOMAIN Chains
    /\ event = NoEvent /\ at = "begin" /\ status = "none" /\ asked = FALSE
    /\ words = 0 /\ file = << >> /\ sorted = {} /\ eof_reached = FALSE
    /\ pixels = << >> /\ released = << >>
    /\ events = << >> /\ stored = {} /\ dropped = {} /\ unplaced = {}

\* The number of the event being processed.
Current == Len(events) + 1

Goto(from, to) == at = from /\ at' = to

Return(s) == at' = "return" /\ status' = s

-----------------------------------------------------------------------------
(* The file (external) and the buffer *)

\* A detector writes its data almost in order: fewer measurements are ahead of
\* an earlier one than the buffer can hold.
Later(m) == {i \in DOMAIN file : file[i].begin > m.begin}

Timed(m) == m.kind # "frame" \/ m.begin # 0 \/ m.end # 0

\* Data compared by its trigger is written in the order of its triggers.
InReach(m) ==
    /\ Timed(m) => Later(m) = {} \/ Cardinality(Later(m)) < chain.buffer_depth
    /\ ~Timed(m) \/ chain.sync_by_trigger =>
            \A i \in DOMAIN file : file[i].trigger <= m.trigger

\* The next word: the end of the file, nothing of interest, or a measurement.
NoWord == eof_reached' = TRUE /\ UNCHANGED <<words, file>>

OtherWord ==
    /\ words < MaxWords /\ words' = words + 1
    /\ UNCHANGED <<file, eof_reached>>

Word(m) ==
    /\ words < MaxWords /\ words' = words + 1
    /\ Len(file) < MaxData
    /\ m \in chain.data /\ InReach(m)
    /\ file' = Append(file, m)
    /\ UNCHANGED eof_reached

Newest == Len(file')

Earliest(buffer) ==
    {i \in buffer : \A j \in buffer : file[i].begin <= file[j].begin}

\* Mutation: one measurement too few.
RoomOffByOne(buffer) == Cardinality(buffer) < chain.buffer_depth - 1

Room(buffer) == Cardinality(buffer) < chain.buffer_depth

\* Taking element i from the buffer.
Release(i) ==
    /\ sorted' = sorted \ {i}
    /\ released' = Append(released, i)

Drop(i) == dropped' = dropped \cup {<<i, Current>>}

-----------------------------------------------------------------------------
(* putData, and the end of an event in the event loop *)

\* A measurement stored twice is stored under two numbers.
PutData(ps) ==
    stored' = stored \cup {<<ps[n], Current, n>> : n \in DOMAIN ps}
=============================================================================
