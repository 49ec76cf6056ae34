-------------------------- MODULE EventLoaderEUDAQ2 --------------------------
(***************************************************************************)
(* The loader of EUDAQ2 files.  Frames come out of a FIFO of decoded       *)
(* events, through the time-sorted buffer if it has a depth; each is       *)
(* compared with the event by time, or by trigger if it has no time.  The  *)
(* first frame defines the event if no module did.                         *)
(*                                                                         *)
(* The queue of undecoded sub-events only spreads the contents of a file   *)
(* event over several words.  The detector's time offset is part of the    *)
(* times; masks and the pixels of a plane are data.                        *)
(***************************************************************************)
EXTENDS EventData

VARIABLES
    events_decoded_,    \* the FIFO of decoded frames
    event_              \* the frame in hand, or 0

eudaqVars == <<events_decoded_, event_>>

EUDAQ2Init == events_decoded_ = << >> /\ event_ = 0

-----------------------------------------------------------------------------
(* get_next_std_event and get_next_sorted_std_event *)

\* Decoding one raw event gives nothing (a BORE, an event no converter knows),
\* a frame, or a frame with a sub-event, which goes first.
DecodeNothing == OtherWord /\ UNCHANGED events_decoded_

DecodeFrame(m) ==
    /\ Word(m)
    /\ events_decoded_' = Append(events_decoded_, Newest)

DecodeBoth(m, n) ==
    /\ words < MaxWords /\ words' = words + 1
    /\ Len(file) < MaxData - 1
    /\ m \in chain.data /\ n \in chain.data
    /\ InReach(m) /\ InReach(n) /\ m.begin <= n.begin /\ m.trigger <= n.trigger
    /\ file' = file \o <<m, n>>
    /\ events_decoded_' = events_decoded_ \o <<Newest - 1, Newest>>
    /\ UNCHANGED eof_reached

\* A frame is needed: from the FIFO, or from the buffer when that is full.
Wanted ==
    /\ at = "fetch" /\ event_ = 0
    /\ chain.buffer_depth = 0 \/ Room(sorted)

EudaqDecode ==
    /\ Wanted /\ events_decoded_ = << >>
    /\ \/ DecodeNothing
       \/ \E m \in chain.data : DecodeFrame(m)
       \/ \E m, n \in chain.data : DecodeBoth(m, n)
    /\ UNCHANGED <<sorted, event, at, status, event_, collectVars, historyVars>>

\* The end of the file ends the run, whatever was collected or is buffered.
EudaqEndOfFile ==
    /\ Wanted /\ events_decoded_ = << >>
    /\ NoWord
    /\ Return("EndRun")
    /\ UNCHANGED <<sorted, event, eudaqVars, collectVars, historyVars>>

EudaqSort ==
    /\ Wanted /\ chain.buffer_depth # 0 /\ events_decoded_ # << >>
    /\ sorted' = sorted \cup {Head(events_decoded_)}
    /\ events_decoded_' = Tail(events_decoded_)
    /\ UNCHANGED <<words, file, eof_reached, event, at, status, event_, collectVars, historyVars>>

EudaqNext ==
    /\ Wanted /\ chain.buffer_depth = 0 /\ events_decoded_ # << >>
    /\ event_' = Head(events_decoded_)
    /\ events_decoded_' = Tail(events_decoded_)
    /\ UNCHANGED <<inputVars, event, at, status, collectVars, historyVars>>

EudaqNextSorted ==
    /\ at = "fetch" /\ event_ = 0
    /\ chain.buffer_depth # 0 /\ ~Room(sorted)
    /\ \E i \in Earliest(sorted) : Release(i) /\ event_' = i
    /\ UNCHANGED <<words, file, eof_reached, event, at, status, events_decoded_,
                   pixels, dropped, historyVars>>

-----------------------------------------------------------------------------
(* is_within_event *)

Frame == file[event_]
ByTrigger == ~Timed(Frame) \/ chain.sync_by_trigger
Trigger == Frame.trigger + chain.shift_triggers

\* adjust_event_times moves the two ends of the frame, not of its pixels.
FrameStart == Frame.begin + chain.adjust_event_times[1]
FrameEnd == Frame.end + chain.adjust_event_times[2]

Skipped == ~ByTrigger /\ FrameStart < chain.skip_time

Defines == ~ByTrigger /\ ~Skipped /\ event = NoEvent

EventOfFrame == IF Defines THEN NewEvent(FrameStart, FrameEnd) ELSE event

FramePosition ==
    IF Skipped THEN "BEFORE"
    ELSE IF ~ByTrigger THEN
        getFramePosition(EventOfFrame, FrameStart, FrameEnd, chain.inclusive)
    ELSE IF event = NoEvent THEN "UNKNOWN" ELSE getTriggerPosition(event, Trigger)

\* A trigger that comes with a time is added to the event.
AddsTrigger ==
    /\ ~ByTrigger /\ Frame.trigger # 0
    /\ ~(chain.veto_triggers /\ TriggerIDs(EventOfFrame) # {})

-----------------------------------------------------------------------------
(* run() *)

EudaqRun ==
    /\ Goto("load", "fetch")
    /\ pixels' = << >>
    /\ UNCHANGED <<inputVars, event, status, eudaqVars, released, dropped, historyVars>>

InHand == at = "fetch" /\ event_ # 0

\* filter_detectors: a frame of another detector.
EudaqFilter ==
    /\ InHand /\ Frame.kind = "other"
    /\ event_' = 0
    /\ UNCHANGED <<inputVars, event, at, status, events_decoded_, collectVars, historyVars>>

Placed(position) ==
    /\ InHand /\ Frame.kind = "frame"
    /\ Defines => WellFormed(FrameStart, FrameEnd)
    /\ FramePosition = position

\* The constructor of the event throws.
EudaqThrow ==
    /\ InHand /\ Frame.kind = "frame" /\ Defines /\ ~WellFormed(FrameStart, FrameEnd)
    /\ at' = "exit" /\ status' = "exception"
    /\ UNCHANGED <<inputVars, event, eudaqVars, collectVars, historyVars>>

EudaqBefore ==
    /\ Placed("BEFORE")
    /\ Drop(event_)
    /\ event_' = 0
    /\ UNCHANGED <<inputVars, event, at, status, events_decoded_, pixels, released, historyVars>>

EudaqDuring ==
    /\ Placed("DURING")
    /\ event' = IF AddsTrigger THEN AddTrigger(EventOfFrame, Trigger, Frame.begin)
                ELSE EventOfFrame
    /\ pixels' = Append(pixels, event_)
    /\ event_' = 0
    /\ UNCHANGED <<inputVars, at, status, events_decoded_, released, dropped, historyVars>>

EudaqStored ==
    IF event = NoEvent THEN at' = "exit" /\ status' = "exception" /\ UNCHANGED stored
    ELSE Return("Success") /\ PutData(pixels)

\* Mutation: the frame is not kept.
EudaqAfterDropped ==
    /\ Placed("AFTER")
    /\ EudaqStored
    /\ Drop(event_)
    /\ event_' = 0
    /\ UNCHANGED <<inputVars, event, events_decoded_, pixels, released, events, unplaced>>

\* The frame is kept for the next event.
EudaqAfter ==
    /\ Placed("AFTER")
    /\ EudaqStored
    /\ UNCHANGED <<inputVars, event, eudaqVars, collectVars, events, unplaced>>

\* The frame is discarded, and the loader stops here.
EudaqUnknown ==
    /\ Placed("UNKNOWN")
    /\ EudaqStored
    /\ Drop(event_)
    /\ event_' = 0
    /\ unplaced' = unplaced \cup {Current}
    /\ UNCHANGED <<inputVars, event, events_decoded_, pixels, released, events>>

EUDAQ2Step ==
    /\ chain.loader = "EUDAQ2"
    /\ \/ EudaqRun \/ EudaqDecode \/ EudaqEndOfFile \/ EudaqSort \/ EudaqNext
       \/ EudaqNextSorted \/ EudaqFilter \/ EudaqThrow \/ EudaqBefore
       \/ EudaqDuring \/ EudaqAfter \/ EudaqUnknown
    /\ UNCHANGED <<setup, asked>>
=============================================================================
