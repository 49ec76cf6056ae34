---------------------------- MODULE SortedLoaders ----------------------------
(***************************************************************************)
(* The loaders that sort what they read by time, in a priority queue of a  *)
(* given depth: EventLoaderTimestamp, EventLoaderTimepix3 and              *)
(* EventLoaderATLASpix.                                                    *)
(***************************************************************************)
EXTENDS EventData

VARIABLES
    signals,    \* Timepix3: sorted_signals_
    t0_seen_    \* ATLASpix: the T0 words read so far

\* The queue is as deep as it gets.
BufferReady == ~Room(sorted) \/ eof_reached

-----------------------------------------------------------------------------
(* EventLoaderTimestamp: the triggers in Timepix3 data.  Without an event it *)
(* makes one around its first trigger.                                      *)

TimestampRun ==
    /\ Goto("load", "fill")
    /\ UNCHANGED <<inputVars, event, status, collectVars, historyVars>>

TimestampWord ==
    /\ at = "fill" /\ ~BufferReady
    /\ \/ (NoWord \/ OtherWord) /\ UNCHANGED sorted
       \/ \E m \in chain.data : Word(m) /\ sorted' = sorted \cup {Newest}
    /\ UNCHANGED <<event, at, status, collectVars, historyVars>>

TimestampDefine ==
    /\ at = "fill" /\ BufferReady /\ event = NoEvent
    /\ \E i \in Earliest(sorted) :
        LET half == chain.event_length \div 2
        IN  event' = NewEvent(file[i].begin - half, file[i].begin + half)
    /\ UNCHANGED <<inputVars, at, status, collectVars, historyVars>>

\* The first signal of the full buffer lies at this position.
FirstSignal(i, position) ==
    /\ at = "fill" /\ BufferReady /\ event # NoEvent
    /\ i \in Earliest(sorted)
    /\ getTimestampPosition(event, file[i].begin) = position

TimestampAfter ==
    /\ \E i \in sorted : FirstSignal(i, "AFTER")
    /\ Return("Success")
    /\ UNCHANGED <<inputVars, event, collectVars, historyVars>>

TimestampBefore ==
    /\ \E i \in sorted : FirstSignal(i, "BEFORE") /\ Release(i) /\ Drop(i)
    /\ UNCHANGED <<words, file, eof_reached, event, at, status, pixels, historyVars>>

TimestampDuring ==
    /\ \E i \in sorted :
        /\ FirstSignal(i, "DURING") /\ Release(i)
        /\ event' = AddTrigger(event, file[i].trigger, file[i].begin)
        /\ PutData(<<i>>)
    /\ UNCHANGED <<words, file, eof_reached, at, status, pixels, dropped, events, unplaced>>

TimestampEmpty ==
    /\ at = "fill" /\ BufferReady /\ sorted = {}
    /\ Return("EndRun")
    /\ UNCHANGED <<inputVars, event, collectVars, historyVars>>

TimestampStep ==
    /\ chain.loader = "Timestamp"
    /\ \/ TimestampRun \/ TimestampWord \/ TimestampDefine \/ TimestampAfter
       \/ TimestampBefore \/ TimestampDuring \/ TimestampEmpty
    /\ UNCHANGED <<setup, asked>>

-----------------------------------------------------------------------------
(* EventLoaderTimepix3: pixels and signals in two queues.  Only the pixels'  *)
(* has a depth; signals are read on the way.  Words that only carry time     *)
(* (heartbeats), words before the first heartbeat and masked pixels are      *)
(* words of no interest; the end of one file before the next is one too.     *)

Timepix3Init == signals = {}

\* getEvent() throws without an event; no file is left after the end of the last.
Timepix3Run ==
    /\ at = "load"
    /\ \/ event = NoEvent /\ at' = "exit" /\ status' = "exception"
       \/ event # NoEvent /\ eof_reached /\ Return("Failure")
       \/ event # NoEvent /\ ~eof_reached /\ at' = "fill" /\ UNCHANGED status
    /\ pixels' = << >>
    /\ UNCHANGED <<inputVars, event, signals, released, dropped, historyVars>>

\* fillBuffer and decodeNextWord.
Timepix3Word ==
    /\ at = "fill" /\ ~BufferReady
    /\ \/ (NoWord \/ OtherWord) /\ UNCHANGED <<sorted, signals>>
       \/ \E m \in chain.data :
            /\ Word(m)
            /\ \/ m.kind = "pixel" /\ sorted' = sorted \cup {Newest} /\ UNCHANGED signals
               \/ m.kind = "signal" /\ signals' = signals \cup {Newest} /\ UNCHANGED sorted
    /\ UNCHANGED <<event, at, status, collectVars, historyVars>>

\* Is i the first of its buffer, and does it lie there?
TopAt(buffer, i, position) ==
    /\ i \in Earliest(buffer)
    /\ getTimestampPosition(event, file[i].begin) = position

Stops(buffer) == \A i \in Earliest(buffer) : TopAt(buffer, i, "AFTER")

\* loadData, the pixels.
PixelBefore ==
    /\ at = "fill" /\ BufferReady
    /\ \E i \in sorted : TopAt(sorted, i, "BEFORE") /\ Release(i) /\ Drop(i)
    /\ UNCHANGED <<words, file, eof_reached, event, at, status, signals, pixels, historyVars>>

PixelDuring ==
    /\ at = "fill" /\ BufferReady
    /\ \E i \in sorted :
        TopAt(sorted, i, "DURING") /\ Release(i) /\ pixels' = Append(pixels, i)
    /\ UNCHANGED <<words, file, eof_reached, event, at, status, signals, dropped, historyVars>>

PixelStop ==
    /\ at = "fill" /\ BufferReady /\ Stops(sorted)
    /\ at' = "signals"
    /\ UNCHANGED <<inputVars, event, status, signals, collectVars, historyVars>>

\* loadData, the signals.
SignalBefore ==
    /\ at = "signals"
    /\ \E i \in signals :
        TopAt(signals, i, "BEFORE") /\ signals' = signals \ {i} /\ Drop(i)
    /\ UNCHANGED <<inputVars, event, at, status, pixels, released, historyVars>>

SignalDuring ==
    /\ at = "signals"
    /\ \E i \in signals :
        /\ TopAt(signals, i, "DURING") /\ signals' = signals \ {i}
        /\ pixels' = Append(pixels, i)
    /\ UNCHANGED <<inputVars, event, at, status, released, dropped, historyVars>>

SignalStop ==
    /\ at = "signals" /\ Stops(signals)
    /\ Return("Success") /\ PutData(pixels)
    /\ UNCHANGED <<inputVars, event, signals, collectVars, events, unplaced>>

Timepix3Step ==
    /\ chain.loader = "Timepix3"
    /\ \/ Timepix3Run \/ Timepix3Word \/ PixelBefore \/ PixelDuring \/ PixelStop
       \/ SignalBefore \/ SignalDuring \/ SignalStop
    /\ UNCHANGED <<setup, asked>>

-----------------------------------------------------------------------------
(* EventLoaderATLASpix.  The file is of use between the first and the second *)
(* T0; words that build up the time are words of no interest.  The order of  *)
(* the checks in the loop is the code's: the buffer is looked at for being   *)
(* empty before it is filled, and its first element is taken after.          *)

ATLASpixInit == t0_seen_ = 0

ATLASpixRun ==
    /\ at = "load"
    /\ IF event = NoEvent THEN Return("Failure") ELSE at' = "loop" /\ UNCHANGED status
    /\ pixels' = << >>
    /\ UNCHANGED <<inputVars, event, t0_seen_, released, dropped, historyVars>>

\* The head of the loop.
ATLASpixLoop ==
    /\ at = "loop"
    /\ at' = IF sorted = {} /\ eof_reached THEN "put" ELSE "fill"
    /\ UNCHANGED <<inputVars, event, status, t0_seen_, collectVars, historyVars>>

\* read_caribou_data: a pixel before the first T0 is a word of no interest, one
\* after the second is the end of the file.
ATLASpixWord ==
    /\ at = "fill" /\ ~BufferReady
    /\ \/ (NoWord \/ OtherWord) /\ UNCHANGED <<sorted, t0_seen_>>
       \/ OtherWord /\ t0_seen_' = t0_seen_ + 1 /\ UNCHANGED sorted
       \/ \E m \in chain.data :
            /\ t0_seen_ = 1 /\ Word(m)
            /\ sorted' = sorted \cup {Newest} /\ UNCHANGED t0_seen_
    /\ UNCHANGED <<event, at, status, collectVars, historyVars>>

\* top() of an empty queue is undefined.
ATLASpixTopOfNothing ==
    /\ at = "fill" /\ BufferReady /\ sorted = {}
    /\ at' = "undefined"
    /\ UNCHANGED <<inputVars, event, status, t0_seen_, collectVars, historyVars>>

TopPixel(i) == at = "fill" /\ BufferReady /\ i \in Earliest(sorted)

ATLASpixAfter ==
    /\ \E i \in sorted : TopPixel(i) /\ file[i].begin > event.end
    /\ at' = "put"
    /\ UNCHANGED <<inputVars, event, status, t0_seen_, collectVars, historyVars>>

ATLASpixBefore ==
    /\ \E i \in sorted :
        /\ TopPixel(i) /\ file[i].begin <= event.end /\ file[i].begin < event.start
        /\ Release(i) /\ Drop(i)
    /\ at' = "loop"
    /\ UNCHANGED <<words, file, eof_reached, event, status, t0_seen_, pixels, historyVars>>

ATLASpixDuring ==
    /\ \E i \in sorted :
        /\ TopPixel(i) /\ file[i].begin <= event.end /\ file[i].begin >= event.start
        /\ Release(i) /\ pixels' = Append(pixels, i)
    /\ at' = "loop"
    /\ UNCHANGED <<words, file, eof_reached, event, status, t0_seen_, dropped, historyVars>>

ATLASpixPut ==
    /\ at = "put"
    /\ PutData(pixels)
    /\ Return(IF sorted = {} /\ eof_reached THEN "EndRun"
              ELSE IF pixels = << >> THEN "NoData" ELSE "Success")
    /\ UNCHANGED <<inputVars, event, t0_seen_, collectVars, events, unplaced>>

ATLASpixStep ==
    /\ chain.loader = "ATLASpix"
    /\ \/ ATLASpixRun \/ ATLASpixLoop \/ ATLASpixWord \/ ATLASpixTopOfNothing
       \/ ATLASpixAfter \/ ATLASpixBefore \/ ATLASpixDuring \/ ATLASpixPut
    /\ UNCHANGED <<setup, asked>>
=============================================================================
