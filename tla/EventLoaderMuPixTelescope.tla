---------------------- MODULE EventLoaderMuPixTelescope ----------------------
(***************************************************************************)
(* The loader of unsorted MuPix telescope data: one time-sorted buffer per *)
(* detector (tag), all filled from one file.  The test that should keep    *)
(* full buffers from being filled has no effect: a call of fillBuffer      *)
(* reads at least once, then until every buffer has its depth, which is    *)
(* not 0: after a call no buffer is empty before the end of the file.      *)
(***************************************************************************)
EXTENDS EventData

VARIABLE tag    \* the detector at hand: tags are 1..chain.tags

MuPixInit == tag = 1

Tags == 1..chain.tags

Of(buffer, data, t) == {i \in buffer : data[i].tag = t}

buffers_full ==
    \A t \in Tags : Cardinality(Of(sorted', file', t)) >= chain.buffer_depth

MuPixRun ==
    /\ at = "load"
    /\ at' = IF eof_reached THEN "head" ELSE "fill"
    /\ tag' = 1 /\ pixels' = << >>
    /\ UNCHANGED <<inputVars, event, status, released, dropped, historyVars>>

\* fillBuffer reads a frame, here of one hit.
MuPixWord ==
    /\ at = "fill"
    /\ \/ NoWord /\ UNCHANGED sorted /\ at' = "head"
       \/ OtherWord /\ UNCHANGED <<sorted, at>>
       \/ \E m \in chain.data :
            /\ Word(m) /\ sorted' = sorted \cup {Newest}
            /\ at' = IF buffers_full THEN "head" ELSE "fill"
    /\ UNCHANGED <<event, status, tag, collectVars, historyVars>>

\* Without an event: the window of the earliest hit.  With no hit either, the
\* conversion of 1e40 to an integer is undefined.  (Times are whole numbers here, so
\* that the conversion loses nothing; the code cuts off fractions of a time, and its
\* int holds times up to 2 s.)
MuPixDefine ==
    /\ at = "head" /\ event = NoEvent
    /\ IF sorted = {} THEN at' = "undefined" /\ UNCHANGED event
       ELSE \E i \in Earliest(sorted) :
              LET minTS == file[i].begin - (file[i].begin % chain.event_length)
              IN  event' = NewEvent(minTS, minTS + chain.event_length) /\ UNCHANGED at
    /\ UNCHANGED <<inputVars, status, tag, collectVars, historyVars>>

Buffer == Of(sorted, file, tag)

TopHit(i) == at = "head" /\ event # NoEvent /\ i \in Earliest(Buffer)

Older(m) == m.begin < event.start

Within(m) == m.begin < event.end /\ m.begin > event.start

\* An empty buffer ends the run; what was collected is stored.
MuPixEmpty ==
    /\ at = "head" /\ event # NoEvent /\ Buffer = {}
    /\ Return("EndRun") /\ PutData(pixels)
    /\ UNCHANGED <<inputVars, event, tag, collectVars, events, unplaced>>

Refill == at' = IF eof_reached THEN "head" ELSE "fill"

\* An old hit is removed; the buffers are refilled only if this one is empty.
MuPixBefore ==
    /\ \E i \in sorted : TopHit(i) /\ Older(file[i]) /\ Release(i) /\ Drop(i)
    /\ at' = IF Of(sorted', file, tag) = {} /\ ~eof_reached THEN "fill" ELSE at
    /\ UNCHANGED <<words, file, eof_reached, event, status, tag, pixels, historyVars>>

MuPixDuring ==
    /\ \E i \in sorted :
        /\ TopHit(i) /\ Within(file[i]) /\ Release(i)
        /\ pixels' = Append(pixels, i)
    /\ Refill
    /\ UNCHANGED <<words, file, eof_reached, event, status, tag, dropped, historyVars>>

\* Any other hit ends the loop over this buffer.
MuPixOther(i) == TopHit(i) /\ ~Older(file[i]) /\ ~Within(file[i])

MuPixNextTag ==
    /\ tag < chain.tags
    /\ \E i \in sorted : MuPixOther(i)
    /\ tag' = tag + 1
    /\ UNCHANGED <<inputVars, event, at, status, collectVars, historyVars>>

MuPixLastTag ==
    /\ tag = chain.tags
    /\ \E i \in sorted : MuPixOther(i)
    /\ Return(IF pixels = << >> THEN "NoData" ELSE "Success")
    /\ PutData(pixels)
    /\ UNCHANGED <<inputVars, event, tag, collectVars, events, unplaced>>

MuPixStep ==
    /\ chain.loader = "MuPix"
    /\ \/ MuPixRun \/ MuPixWord \/ MuPixDefine \/ MuPixEmpty \/ MuPixBefore
       \/ MuPixDuring \/ MuPixNextTag \/ MuPixLastTag
    /\ UNCHANGED <<setup, asked>>
=============================================================================
