-------------------------------- MODULE Event --------------------------------
(***************************************************************************)
(* The event on the clipboard: a window of time with the triggers in it,   *)
(* and where data lies with respect to it.                                 *)
(***************************************************************************)
EXTENDS Integers

Positions == {"BEFORE", "DURING", "AFTER", "UNKNOWN"}

\* The triggers of an event are pairs of a number and a time.
EventType == [start : Int, end : Int, trigger_list : SUBSET (Int \X Int)]

\* An event without triggers; the constructor throws unless WellFormed.
NewEvent(start, end) ==
    [start |-> start, end |-> end, trigger_list |-> {}]

WellFormed(start, end) == start <= end

TriggerIDs(e) == {trigger[1] : trigger \in e.trigger_list}

\* emplace: the first time stored for a trigger stays.
AddTrigger(e, trigger_id, trigger_ts) ==
    IF trigger_id \in TriggerIDs(e) THEN e
    ELSE [e EXCEPT !.trigger_list = @ \cup {<<trigger_id, trigger_ts>>}]

getTimestampPosition(e, timestamp) ==
    IF timestamp < e.start THEN "BEFORE"
    ELSE IF e.end < timestamp THEN "AFTER" ELSE "DURING"

\* Mutation: the meanings of inclusive and exclusive are exchanged.
getFramePositionSwapped(e, frame_start, frame_end, inclusive) ==
    LET first == IF inclusive THEN frame_start ELSE frame_end
        last == IF inclusive THEN frame_end ELSE frame_start
    IN  IF frame_end < frame_start THEN "UNKNOWN"
        ELSE IF first < e.start THEN "BEFORE"
        ELSE IF e.end < last THEN "AFTER" ELSE "DURING"

\* Inclusive: any overlap is DURING; exclusive: only a frame that is covered.
getFramePosition(e, frame_start, frame_end, inclusive) ==
    LET first == IF inclusive THEN frame_end ELSE frame_start
        last == IF inclusive THEN frame_start ELSE frame_end
    IN  IF frame_end < frame_start THEN "UNKNOWN"
        ELSE IF first < e.start THEN "BEFORE"
        ELSE IF e.end < last THEN "AFTER" ELSE "DURING"

\* The bounds of the map: nothing is at or before trigger_id, nothing is at or
\* after it.
getTriggerPosition(e, trigger_id) ==
    IF TriggerIDs(e) = {} THEN "UNKNOWN"
    ELSE IF trigger_id \in TriggerIDs(e) THEN "DURING"
    ELSE IF \A id \in TriggerIDs(e) : trigger_id < id THEN "BEFORE"
    ELSE IF \A id \in TriggerIDs(e) : id < trigger_id THEN "AFTER"
    ELSE "UNKNOWN"
=============================================================================
