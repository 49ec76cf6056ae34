------------------------- MODULE EventBuildingProofs -------------------------
(***************************************************************************)
(* Theorems about event building, for every configuration of the modules,  *)
(* every file and any number of events: the types, that the events a       *)
(* module of its own defines follow each other in time, and that each      *)
(* event of EventDefinitionM26 is the window of one pair of records.       *)
(***************************************************************************)
EXTENDS EventBuilding, SequenceTheorems, FiniteSetTheorems, WellFoundedInduction, TLAPS

\* Where the definer is at work, and where the loader is.
Defining == {"define", "m26", "compare"}
Loading == {"load", "fetch", "fill", "loop", "put", "head", "signals", "return", "undefined"}

Statuses == {"none", "Success", "NoData", "EndRun", "Failure", "exception"}

LoopOK ==
    /\ setup \in DOMAIN Chains
    /\ at \in {"begin", "exit"} \cup Defining \cup Loading
    /\ status \in Statuses
    /\ asked \in BOOLEAN
    /\ events \in Seq(EventType \cup {NoEvent})

WindowOK(e) == e = NoEvent \/ (e \in EventType /\ e.start <= e.end)

FileOK ==
    /\ words \in 0..MaxWords
    /\ file \in Seq(Measurements)
    /\ sorted \subseteq 1..Len(file)

EudaqOK ==
    /\ events_decoded_ \in Seq(Nat)
    /\ \A n \in 1..Len(events_decoded_) : events_decoded_[n] \in 1..Len(file)
    /\ event_ \in 0..Len(file)

MetronomeOK ==
    /\ m_eventStart \in Int /\ m_eventEnd \in Int /\ m_triggers \in Int
    /\ m_eventEnd = m_eventStart + chain.event_length

M26OK ==
    /\ triggerTLU_ \in 0..(TriggerRange - 1) /\ triggerM26_ \in 0..(TriggerRange - 1)
    /\ time_trig_start_ \in Int /\ time_before_ \in Int /\ time_after_ \in Int
    /\ time_prev_ \in Int /\ time_trig_stop_prev_ \in Int

\* The inductive invariant behind TypeOK.
TypeInv ==
    /\ LoopOK /\ WindowOK(event)
    /\ FileOK /\ EudaqOK
    /\ MetronomeOK /\ M26OK

-----------------------------------------------------------------------------
(* The configuration and the file *)

\* The types of the configuration at hand.
LEMMA ChainType ==
    ASSUME setup \in DOMAIN Chains
    PROVE  /\ chain.definer \in {"Metronome", "M26", "none"}
           /\ chain.event_length \in Nat /\ chain.triggers \in Nat
           /\ chain.loader = "MuPix" => chain.event_length # 0
           /\ chain.adjust_event_times[1] \in Int
           /\ chain.adjust_event_times[2] \in Int
           /\ chain.skip_time \in Int /\ chain.skip_triggers \in Int
           /\ chain.time_shift \in Int /\ chain.shift_triggers \in Int
           /\ chain.add_begin \in Int /\ chain.add_end \in Int
           /\ chain.data \subseteq Measurements
           /\ chain.tlu_data \subseteq TriggerRecords
           /\ chain.m26_data \subseteq TriggerRecords
           /\ \A r \in chain.tlu_data : r.trigger \in 0..(TriggerRange - 1)
           /\ chain.layer \in {"timing", "all_hits", "pivot_hits"}
<1> DEFINE c == Chains[setup]
<1>1. {c.skip_time, c.skip_triggers, c.time_shift, c.shift_triggers,
       c.add_begin, c.add_end} \subseteq Int
  BY EventDataAssumption
<1>2. /\ c.definer \in {"Metronome", "M26", "none"}
      /\ c.event_length \in Nat /\ c.triggers \in Nat
      /\ c.loader = "MuPix" => c.event_length # 0
      /\ c.adjust_event_times \in Int \X Int
      /\ c.data \subseteq Measurements
      /\ c.tlu_data \subseteq TriggerRecords /\ c.m26_data \subseteq TriggerRecords
  BY EventDataAssumption
<1>3. /\ \A r \in c.tlu_data : r.trigger \in 0..(TriggerRange - 1)
      /\ c.layer \in {"timing", "all_hits", "pivot_hits"}
  BY M26Assumption
<1> QED
  BY <1>1, <1>2, <1>3 DEF chain

\* A word read adds at most one measurement.
LEMMA WordType ==
    ASSUME setup \in DOMAIN Chains, FileOK,
           NEW m \in chain.data, Word(m)
    PROVE  /\ words' \in 0..MaxWords
           /\ file' \in Seq(Measurements)
           /\ Len(file') = Len(file) + 1
           /\ Newest \in 1..Len(file')
           /\ 1..Len(file) \subseteq 1..Len(file')
<1>1. m \in Measurements
  BY ChainType
<1>2. file' = Append(file, m) /\ words < MaxWords /\ words' = words + 1
  BY DEF Word
<1>3. file' \in Seq(Measurements) /\ Len(file') = Len(file) + 1
  BY <1>1, <1>2, AppendProperties DEF FileOK
<1>4. Len(file) \in Nat
  BY DEF FileOK
<1> QED
  BY <1>2, <1>3, <1>4, EventDataAssumption DEF FileOK, Newest

\* An event is typed and well formed.
LEMMA NewEventType ==
    ASSUME NEW start \in Int, NEW end \in Int, start <= end
    PROVE  WindowOK(NewEvent(start, end))
BY DEF WindowOK, NewEvent, EventType

\* A trigger added to an event leaves its window as it is.
LEMMA AddTriggerType ==
    ASSUME NEW e \in EventType, NEW id \in Int, NEW time \in Int
    PROVE  /\ AddTrigger(e, id, time) \in EventType
           /\ AddTrigger(e, id, time).start = e.start
           /\ AddTrigger(e, id, time).end = e.end
BY DEF AddTrigger, EventType

\* The types that a step of the loader or of the definer has to restore.
LEMMA UnchangedType ==
    ASSUME TypeInv
    PROVE  /\ UNCHANGED <<words, file, sorted>> => FileOK'
           /\ UNCHANGED <<file, events_decoded_, event_>> => EudaqOK'
           /\ UNCHANGED <<setup, metronomeVars>> => MetronomeOK'
           /\ UNCHANGED m26Vars => M26OK'
           /\ UNCHANGED event => WindowOK(event)'
<1>1. FileOK /\ UNCHANGED <<words, file, sorted>> => FileOK'
  BY DEF FileOK
<1>2. EudaqOK /\ UNCHANGED <<file, events_decoded_, event_>> => EudaqOK'
  BY DEF EudaqOK
<1>3. MetronomeOK /\ UNCHANGED <<setup, metronomeVars>> => MetronomeOK'
  BY DEF MetronomeOK, metronomeVars, chain
<1>4. M26OK /\ UNCHANGED m26Vars => M26OK'
  BY DEF M26OK, m26Vars, triggerVars, timeVars, prevVars
<1>5. WindowOK(event) /\ UNCHANGED event => WindowOK(event)'
  BY DEF WindowOK
<1> QED
  BY <1>1, <1>2, <1>3, <1>4, <1>5 DEF TypeInv

-----------------------------------------------------------------------------
(* The modules that define events *)

\* An event of the Metronome: its triggers are typed, its end is not before its start.
LEMMA MetronomeType ==
    ASSUME TypeInv, MetronomeRun, UNCHANGED setup
    PROVE  /\ event' \in EventType /\ WindowOK(event)'
           /\ MetronomeOK' /\ at' = "load"
<1> DEFINE e == NewEvent(m_eventStart, m_eventEnd)
<1>1. /\ m_eventStart \in Int /\ m_eventEnd \in Int /\ m_triggers \in Int
      /\ m_eventEnd = m_eventStart + chain.event_length
      /\ chain.event_length \in Nat /\ chain.triggers \in Nat
  BY ChainType DEF TypeInv, LoopOK, MetronomeOK
<1>2. Beats(chain.triggers) \subseteq Int \X Int
  <2>1. (m_eventStart + m_eventEnd) \div 2 \in Int
    BY <1>1
  <2> QED
    BY <1>1, <2>1 DEF Beats
<1>3. event' = [e EXCEPT !.trigger_list = Beats(chain.triggers)] /\ at' = "load"
  BY DEF MetronomeRun, Goto
<1>4. event' \in EventType /\ event'.start <= event'.end
  BY <1>1, <1>2, <1>3 DEF NewEvent, EventType
<1>5. MetronomeOK'
  BY <1>1 DEF MetronomeRun, MetronomeOK, chain
<1> QED
  BY <1>3, <1>4, <1>5 DEF WindowOK

\* How an event is computed from the trigger and the frame.
LEMMA M26Window ==
    ASSUME TypeInv, M26Step, M26Accept
    PROVE  /\ evtBegin \in Int /\ evtEnd \in Int
           /\ event' \in EventType /\ event'.start = evtBegin /\ event'.end = evtEnd
<1>1. /\ triggerTLU_ \in 0..(TriggerRange - 1) /\ TriggerRange \in Nat \ {0}
      /\ time_trig_start_ \in Int /\ time_before_ \in Int /\ time_after_ \in Int
  BY M26Assumption DEF TypeInv, M26OK
<1>2. /\ chain.time_shift \in Int /\ chain.add_begin \in Int /\ chain.add_end \in Int
  BY ChainType DEF TypeInv, LoopOK
<1>3. Before \in Int /\ After \in Int
  BY <1>1, <1>2, M26Assumption DEF Before, After
<1>4. time_trig \in Int /\ evtBegin \in Int /\ evtEnd \in Int
  BY <1>1, <1>2, <1>3 DEF time_trig, evtBegin, evtEnd
<1> DEFINE e == NewEvent(evtBegin, evtEnd)
<1>5. e \in EventType /\ e.start = evtBegin /\ e.end = evtEnd
  BY <1>4 DEF NewEvent, EventType
<1>6. event' = IF chain.add_trigger THEN AddTrigger(e, triggerTLU_, time_trig) ELSE e
  BY DEF M26Accept
<1>7. triggerTLU_ \in Int
  BY <1>1
<1>8. event' \in EventType /\ event'.start = e.start /\ event'.end = e.end
  BY <1>4, <1>5, <1>6, <1>7, AddTriggerType
<1> QED
  BY <1>4, <1>5, <1>8

\* Every step of EventDefinitionM26 keeps the types; the numbers stay unsigned.
LEMMA M26Type ==
    ASSUME TypeInv, M26Step
    PROVE  /\ WindowOK(event)' /\ M26OK'
           /\ at' \in {"m26", "compare", "load", "exit"}
           /\ status' \in {status, "exception"} /\ asked' \in BOOLEAN
<1> USE DEF TypeInv, LoopOK, M26OK
<1>1. UNCHANGED event => WindowOK(event)'
  BY DEF WindowOK
<1>2. /\ chain.skip_time \in Int /\ chain.time_shift \in Int
      /\ chain.add_begin \in Int /\ chain.add_end \in Int /\ chain.shift_triggers \in Int
      /\ chain.tlu_data \subseteq TriggerRecords /\ chain.m26_data \subseteq TriggerRecords
      /\ \A r \in chain.tlu_data : r.trigger \in 0..(TriggerRange - 1)
      /\ chain.layer \in {"timing", "all_hits", "pivot_hits"}
  BY ChainType
<1>3. TriggerRange \in Nat \ {0} /\ framelength_ \in Nat
  BY M26Assumption
<1>4. ReadTLU => triggerTLU_' \in 0..(TriggerRange - 1) /\ time_trig_start_' \in Int
  BY <1>2 DEF ReadTLU, TriggerRecords
<1>5. ReadM26 => /\ triggerM26_' \in 0..(TriggerRange - 1)
                 /\ time_before_' \in Int /\ time_after_' \in Int
  BY <1>2, <1>3 DEF ReadM26, TriggerRecords
<1>6. Before \in Int /\ After \in Int
  BY <1>2, <1>3 DEF Before, After
<1>7. time_trig \in Int /\ evtBegin \in Int /\ evtEnd \in Int
  BY <1>2, <1>6 DEF time_trig, evtBegin, evtEnd
<1>0. status' \in {status, "exception"}
  BY DEF M26Step, M26Accept, M26Throw
<1>8. CASE M26EndOfFile
  BY <1>0, <1>1, <1>8 DEF M26EndOfFile, m26Vars, triggerVars, timeVars, prevVars
<1>9. CASE M26FirstTLU
  BY <1>0, <1>1, <1>4, <1>9 DEF M26FirstTLU, ReadTLU, Goto, prevVars
<1>10. CASE M26FirstM26
  BY <1>0, <1>1, <1>5, <1>10 DEF M26FirstM26, ReadM26, Goto, prevVars
<1>11. CASE M26Advance
  <2>1. CASE ReadTLU
    BY <1>0, <1>1, <1>4, <1>11, <2>1 DEF M26Advance, ReadTLU, prevVars
  <2>2. CASE ReadM26
    BY <1>0, <1>1, <1>5, <1>11, <2>2 DEF M26Advance, ReadM26, prevVars
  <2> QED
    BY <1>11, <2>1, <2>2 DEF M26Advance
<1>12. CASE M26Refuse
  <2>1. triggerTLU_' \in 0..(TriggerRange - 1)
    BY <1>3, <1>12 DEF M26Refuse
  <2> QED
    BY <1>0, <1>1, <1>6, <1>12, <2>1 DEF M26Refuse, Match, prevVars
<1>13. CASE M26Accept
  <2>1. event' \in EventType /\ event'.start = evtBegin /\ event'.end = evtEnd
    BY <1>13, M26Window
  <2>2. WindowOK(event)'
    BY <1>13, <2>1 DEF M26Accept, WellFormed, WindowOK
  <2> QED
    BY <1>0, <1>6, <1>7, <1>13, <2>2 DEF M26Accept, triggerVars
<1>14. CASE M26Throw
  BY <1>0, <1>1, <1>6, <1>7, <1>14 DEF M26Throw, triggerVars
<1> QED
  BY <1>0, <1>8, <1>9, <1>10, <1>11, <1>12, <1>13, <1>14 DEF M26Step

-----------------------------------------------------------------------------
(* The loaders *)

\* A loader only ever adds a trigger to an event that is there.
LoaderStep ==
    /\ at \in Loading /\ at' \in Loading \cup {"exit"}
    /\ status' \in Statuses
    /\ UNCHANGED <<setup, asked, events>>
    /\ event # NoEvent =>
        event' # NoEvent /\ event'.start = event.start /\ event'.end = event.end

\* The file only grows; what the buffers hold stays in it.
FileStep ==
    /\ FileOK'
    /\ Len(file') \in Nat /\ Len(file) \in Nat /\ Len(file) <= Len(file')

\* What a step of a loader may do to the file and the sorted buffer.
LEMMA FileStepType ==
    ASSUME setup \in DOMAIN Chains, FileOK
    PROVE  /\ UNCHANGED <<words, file>> /\ sorted' \subseteq sorted => FileStep
           /\ (NoWord \/ OtherWord) /\ UNCHANGED sorted => FileStep
           /\ \A m \in chain.data :
                /\ Word(m) /\ sorted' = sorted \cup {Newest} => FileStep
                /\ Word(m) /\ UNCHANGED sorted => FileStep
<1>1. Len(file) \in Nat /\ Len(file) <= Len(file)
  BY DEF FileOK
<1>2. ASSUME UNCHANGED <<words, file>>, sorted' \subseteq sorted PROVE FileStep
  BY <1>1, <1>2 DEF FileStep, FileOK
<1>3. ASSUME NoWord, UNCHANGED sorted PROVE FileStep
  BY <1>1, <1>3 DEF NoWord, FileStep, FileOK
<1>4. ASSUME OtherWord, UNCHANGED sorted PROVE FileStep
  BY <1>1, <1>4, EventDataAssumption DEF OtherWord, FileStep, FileOK
<1>5. ASSUME NEW m \in chain.data, Word(m), sorted' \subseteq sorted \cup {Newest}
      PROVE  FileStep
  <2>1. /\ words' \in 0..MaxWords /\ file' \in Seq(Measurements)
        /\ Len(file') = Len(file) + 1 /\ Newest \in 1..Len(file')
        /\ 1..Len(file) \subseteq 1..Len(file')
    BY <1>5, WordType
  <2> QED
    BY <1>1, <1>5, <2>1 DEF FileStep, FileOK
<1> QED
  BY <1>2, <1>3, <1>4, <1>5

\* The other loaders leave the frames of the EUDAQ2 loader alone.
LEMMA EudaqKept ==
    ASSUME TypeInv, FileStep, UNCHANGED eudaqVars
    PROVE  EudaqOK'
BY DEF TypeInv, EudaqOK, FileStep, eudaqVars

\* The steps of each loader.
LEMMA TimestampType ==
    ASSUME TypeInv, TimestampStep
    PROVE  WindowOK(event)' /\ FileStep /\ LoaderStep
<1> USE DEF TypeInv, LoopOK, Loading, Statuses, Goto, Return, LoaderStep, historyVars
<1>1. UNCHANGED event => WindowOK(event)'
  BY DEF WindowOK
<1>2. /\ UNCHANGED <<words, file>> /\ sorted' \subseteq sorted => FileStep
      /\ (NoWord \/ OtherWord) /\ UNCHANGED sorted => FileStep
      /\ \A m \in chain.data : Word(m) /\ sorted' = sorted \cup {Newest} => FileStep
  BY FileStepType
<1>3. UNCHANGED <<setup, asked>>
  BY DEF TimestampStep
<1>4. \A i \in sorted : file[i].begin \in Int /\ file[i].trigger \in Int
  <2>1. \A i \in sorted : file[i] \in Measurements
    BY DEF FileOK
  <2> QED
    BY <2>1 DEF Measurements
<1>5. CASE TimestampRun
  BY <1>1, <1>2, <1>3, <1>5 DEF TimestampRun, inputVars
<1>6. CASE TimestampWord
  BY <1>1, <1>2, <1>3, <1>6 DEF TimestampWord
<1>7. CASE TimestampDefine
  <2>1. PICK i \in sorted :
            event' = NewEvent(file[i].begin - (chain.event_length \div 2),
                              file[i].begin + (chain.event_length \div 2))
    BY <1>7 DEF TimestampDefine, Earliest
  <2>2. chain.event_length \div 2 \in Nat
    BY ChainType
  <2>3. WindowOK(event)'
    BY <1>4, <2>1, <2>2, NewEventType DEF WindowOK
  <2> QED
    BY <1>2, <1>3, <1>7, <2>3 DEF TimestampDefine, inputVars
<1>8. CASE TimestampAfter
  BY <1>1, <1>2, <1>3, <1>8 DEF TimestampAfter, FirstSignal, inputVars
<1>9. CASE TimestampBefore
  BY <1>1, <1>2, <1>3, <1>9 DEF TimestampBefore, FirstSignal, Release
<1>10. CASE TimestampDuring
  <2>1. PICK i \in sorted :
            /\ FirstSignal(i, "DURING") /\ Release(i)
            /\ event' = AddTrigger(event, file[i].trigger, file[i].begin)
    BY <1>10 DEF TimestampDuring
  <2>2. event \in EventType
    BY <2>1 DEF FirstSignal, WindowOK
  <2>3. event' \in EventType /\ event'.start = event.start /\ event'.end = event.end
    BY <1>4, <2>1, <2>2, AddTriggerType
  <2>4. WindowOK(event)' /\ event' # NoEvent
    BY <2>1, <2>2, <2>3, EventDataAssumption DEF WindowOK, FirstSignal
  <2> QED
    BY <1>2, <1>3, <1>10, <2>1, <2>3, <2>4 DEF TimestampDuring, FirstSignal, Release
<1>11. CASE TimestampEmpty
  BY <1>1, <1>2, <1>3, <1>11 DEF TimestampEmpty, inputVars
<1> QED
  BY <1>5, <1>6, <1>7, <1>8, <1>9, <1>10, <1>11 DEF TimestampStep

\* See TimestampType.
LEMMA Timepix3Type ==
    ASSUME TypeInv, Timepix3Step
    PROVE  WindowOK(event)' /\ FileStep /\ LoaderStep
<1> USE DEF TypeInv, LoopOK, Loading, Statuses, Goto, Return, LoaderStep, historyVars
<1>1. /\ UNCHANGED <<words, file>> /\ sorted' \subseteq sorted => FileStep
      /\ (NoWord \/ OtherWord) /\ UNCHANGED sorted => FileStep
      /\ \A m \in chain.data :
            /\ Word(m) /\ sorted' = sorted \cup {Newest} => FileStep
            /\ Word(m) /\ UNCHANGED sorted => FileStep
  BY FileStepType
<1>2. UNCHANGED <<setup, asked>>
  BY DEF Timepix3Step
<1>3. UNCHANGED event => WindowOK(event)'
  BY DEF WindowOK
<1>4. CASE Timepix3Run
  BY <1>1, <1>2, <1>3, <1>4 DEF Timepix3Run, inputVars
<1>5. CASE Timepix3Word
  BY <1>1, <1>2, <1>3, <1>5 DEF Timepix3Word
<1>6. CASE PixelBefore
  BY <1>1, <1>2, <1>3, <1>6 DEF PixelBefore, Release
<1>7. CASE PixelDuring
  BY <1>1, <1>2, <1>3, <1>7 DEF PixelDuring, Release
<1>8. CASE PixelStop
  BY <1>1, <1>2, <1>3, <1>8 DEF PixelStop, inputVars
<1>9. CASE SignalBefore
  BY <1>1, <1>2, <1>3, <1>9 DEF SignalBefore, inputVars
<1>10. CASE SignalDuring
  BY <1>1, <1>2, <1>3, <1>10 DEF SignalDuring, inputVars
<1>11. CASE SignalStop
  BY <1>1, <1>2, <1>3, <1>11 DEF SignalStop, inputVars
<1> QED
  BY <1>4, <1>5, <1>6, <1>7, <1>8, <1>9, <1>10, <1>11 DEF Timepix3Step

\* See TimestampType.
LEMMA ATLASpixType ==
    ASSUME TypeInv, ATLASpixStep
    PROVE  WindowOK(event)' /\ FileStep /\ LoaderStep
<1> USE DEF TypeInv, LoopOK, Loading, Statuses, Goto, Return, LoaderStep, historyVars
<1>1. /\ UNCHANGED <<words, file>> /\ sorted' \subseteq sorted => FileStep
      /\ (NoWord \/ OtherWord) /\ UNCHANGED sorted => FileStep
      /\ \A m \in chain.data : Word(m) /\ sorted' = sorted \cup {Newest} => FileStep
  BY FileStepType
<1>2. UNCHANGED <<setup, asked>>
  BY DEF ATLASpixStep
<1>3. UNCHANGED event => WindowOK(event)'
  BY DEF WindowOK
<1>4. CASE ATLASpixRun
  BY <1>1, <1>2, <1>3, <1>4 DEF ATLASpixRun, inputVars
<1>5. CASE ATLASpixLoop
  BY <1>1, <1>2, <1>3, <1>5 DEF ATLASpixLoop, inputVars
<1>6. CASE ATLASpixWord
  BY <1>1, <1>2, <1>3, <1>6 DEF ATLASpixWord
<1>7. CASE ATLASpixTopOfNothing
  BY <1>1, <1>2, <1>3, <1>7 DEF ATLASpixTopOfNothing, inputVars
<1>8. CASE ATLASpixAfter
  BY <1>1, <1>2, <1>3, <1>8 DEF ATLASpixAfter, TopPixel, inputVars
<1>9. CASE ATLASpixBefore
  BY <1>1, <1>2, <1>3, <1>9 DEF ATLASpixBefore, TopPixel, Release
<1>10. CASE ATLASpixDuring
  BY <1>1, <1>2, <1>3, <1>10 DEF ATLASpixDuring, TopPixel, Release
<1>11. CASE ATLASpixPut
  BY <1>1, <1>2, <1>3, <1>11 DEF ATLASpixPut, inputVars
<1> QED
  BY <1>4, <1>5, <1>6, <1>7, <1>8, <1>9, <1>10, <1>11 DEF ATLASpixStep

\* The window of the earliest hit is well formed.
LEMMA MuPixType ==
    ASSUME TypeInv, MuPixStep
    PROVE  WindowOK(event)' /\ FileStep /\ LoaderStep
<1> USE DEF TypeInv, LoopOK, Loading, Statuses, Goto, Return, LoaderStep, historyVars
<1>1. /\ UNCHANGED <<words, file>> /\ sorted' \subseteq sorted => FileStep
      /\ (NoWord \/ OtherWord) /\ UNCHANGED sorted => FileStep
      /\ \A m \in chain.data : Word(m) /\ sorted' = sorted \cup {Newest} => FileStep
  BY FileStepType
<1>2. UNCHANGED <<setup, asked>>
  BY DEF MuPixStep
<1>3. UNCHANGED event => WindowOK(event)'
  BY DEF WindowOK
<1>4. CASE MuPixRun
  BY <1>1, <1>2, <1>3, <1>4 DEF MuPixRun, inputVars
<1>5. CASE MuPixWord
  BY <1>1, <1>2, <1>3, <1>5 DEF MuPixWord
<1>6. CASE MuPixDefine
  <2>1. CASE sorted = {}
    BY <1>1, <1>2, <1>3, <1>6, <2>1 DEF MuPixDefine, inputVars
  <2>2. CASE sorted # {}
    <3> DEFINE len == chain.event_length
    <3>1. PICK i \in sorted :
              LET minTS == file[i].begin - (file[i].begin % len)
              IN  event' = NewEvent(minTS, minTS + len) /\ UNCHANGED at
      BY <1>6, <2>2 DEF MuPixDefine, Earliest
    <3>2. file[i].begin \in Int
      <4>1. file[i] \in Measurements
        BY DEF FileOK
      <4> QED
        BY <4>1 DEF Measurements
    <3>3. len \in Nat \ {0}
      BY ChainType DEF MuPixStep
    <3>4. file[i].begin % len \in Int
      BY <3>2, <3>3
    <3>5. WindowOK(event)'
      <4> DEFINE minTS == file[i].begin - (file[i].begin % len)
      <4>1. minTS \in Int /\ minTS + len \in Int /\ minTS <= minTS + len
        BY <3>2, <3>3, <3>4
      <4>2. event' = NewEvent(minTS, minTS + len)
        BY <3>1
      <4> HIDE DEF minTS
      <4> QED
        BY <4>1, <4>2, NewEventType DEF WindowOK
    <3> QED
      BY <1>1, <1>2, <1>6, <3>1, <3>5 DEF MuPixDefine, inputVars
  <2> QED
    BY <2>1, <2>2
<1>7. CASE MuPixEmpty
  BY <1>1, <1>2, <1>3, <1>7 DEF MuPixEmpty, inputVars
<1>8. CASE MuPixBefore
  BY <1>1, <1>2, <1>3, <1>8 DEF MuPixBefore, TopHit, Release
<1>9. CASE MuPixDuring
  BY <1>1, <1>2, <1>3, <1>9 DEF MuPixDuring, TopHit, Release, Refill
<1>10. CASE MuPixNextTag
  BY <1>1, <1>2, <1>3, <1>10 DEF MuPixNextTag, MuPixOther, TopHit, inputVars
<1>11. CASE MuPixLastTag
  BY <1>1, <1>2, <1>3, <1>11 DEF MuPixLastTag, MuPixOther, TopHit, inputVars
<1> QED
  BY <1>4, <1>5, <1>6, <1>7, <1>8, <1>9, <1>10, <1>11 DEF MuPixStep

\* The frames of a file event are at its end.
LEMMA DecodeType ==
    ASSUME setup \in DOMAIN Chains, FileOK, EudaqOK, UNCHANGED <<sorted, event_>>,
           \/ DecodeNothing
           \/ \E m \in chain.data : DecodeFrame(m)
           \/ \E m, n \in chain.data : DecodeBoth(m, n)
    PROVE  FileStep /\ EudaqOK'
<1>0. /\ events_decoded_ \in Seq(Nat) /\ Len(events_decoded_) \in Nat
      /\ \A n \in 1..Len(events_decoded_) : events_decoded_[n] \in 1..Len(file)
      /\ event_ \in 0..Len(file) /\ event_' = event_
      /\ sorted \subseteq 1..Len(file) /\ sorted' = sorted
      /\ words \in 0..MaxWords /\ Len(file) \in Nat
  BY DEF FileOK, EudaqOK
<1>1. CASE DecodeNothing
  <2>1. FileStep /\ UNCHANGED file
    BY <1>1, FileStepType DEF DecodeNothing, OtherWord
  <2> QED
    BY <1>1, <2>1 DEF DecodeNothing, EudaqOK
<1>2. ASSUME NEW m \in chain.data, DecodeFrame(m)
      PROVE  FileStep /\ EudaqOK'
  <2>1. /\ words' \in 0..MaxWords /\ file' \in Seq(Measurements)
        /\ Len(file') = Len(file) + 1 /\ Newest \in 1..Len(file')
        /\ 1..Len(file) \subseteq 1..Len(file')
    BY <1>2, WordType DEF DecodeFrame
  <2>2. Newest \in Nat /\ Len(file) \in Nat
    BY <2>1 DEF Newest, FileOK
  <2>3. events_decoded_' = Append(events_decoded_, Newest)
    BY <1>2 DEF DecodeFrame
  <2>4. /\ events_decoded_' \in Seq(Nat)
        /\ Len(events_decoded_') = Len(events_decoded_) + 1
        /\ \A i \in 1..Len(events_decoded_) : events_decoded_'[i] = events_decoded_[i]
        /\ events_decoded_'[Len(events_decoded_) + 1] = Newest
    BY <1>0, <2>2, <2>3, AppendProperties
  <2>5. \A n \in 1..Len(events_decoded_') : events_decoded_'[n] \in 1..Len(file')
    <3> SUFFICES ASSUME NEW n \in 1..Len(events_decoded_')
                 PROVE  events_decoded_'[n] \in 1..Len(file')
      OBVIOUS
    <3>1. CASE n = Len(events_decoded_) + 1
      BY <2>1, <2>4, <3>1
    <3>2. CASE n \in 1..Len(events_decoded_)
      <4>1. events_decoded_[n] \in 1..Len(file)
        BY <1>0, <3>2
      <4> QED
        BY <2>1, <2>4, <3>2, <4>1
    <3> QED
      BY <1>0, <2>4, <3>1, <3>2
  <2>6. event_' \in 0..Len(file') /\ sorted' \subseteq 1..Len(file')
    BY <1>0, <2>1
  <2> QED
    BY <1>0, <2>1, <2>4, <2>5, <2>6 DEF FileStep, FileOK, EudaqOK
<1>3. ASSUME NEW m \in chain.data, NEW n \in chain.data, DecodeBoth(m, n)
      PROVE  FileStep /\ EudaqOK'
  <2>1. m \in Measurements /\ n \in Measurements
    BY ChainType
  <2>2. /\ words < MaxWords /\ words' = words + 1
        /\ file' = file \o <<m, n>>
        /\ events_decoded_' = events_decoded_ \o <<Newest - 1, Newest>>
    BY <1>3 DEF DecodeBoth
  <2>3. file' \in Seq(Measurements) /\ Len(file') = Len(file) + 2 /\ Len(file) \in Nat
    <3>1. <<m, n>> \in Seq(Measurements) /\ Len(<<m, n>>) = 2
      BY <2>1
    <3> QED
      BY <2>2, <3>1, ConcatProperties DEF FileOK
  <2>4. Newest = Len(file) + 2
    BY <2>3 DEF Newest
  <2>5. /\ events_decoded_' \in Seq(Nat)
        /\ Len(events_decoded_') = Len(events_decoded_) + 2
        /\ \A i \in 1..Len(events_decoded_') :
             events_decoded_'[i] = IF i <= Len(events_decoded_) THEN events_decoded_[i]
                                   ELSE <<Newest - 1, Newest>>[i - Len(events_decoded_)]
    <3> DEFINE two == <<Newest - 1, Newest>>
    <3>1. two \in Seq(Nat) /\ Len(two) = 2
      BY <2>3, <2>4
    <3>2. events_decoded_ \in Seq(Nat) /\ events_decoded_' = events_decoded_ \o two
      BY <1>0, <2>2
    <3> HIDE DEF two
    <3>3. /\ events_decoded_' \in Seq(Nat)
          /\ Len(events_decoded_') = Len(events_decoded_) + Len(two)
          /\ \A i \in 1 .. Len(events_decoded_) + Len(two) :
                events_decoded_'[i] = IF i <= Len(events_decoded_) THEN events_decoded_[i]
                                      ELSE two[i - Len(events_decoded_)]
      BY <3>1, <3>2, ConcatProperties
    <3> QED
      BY <3>1, <3>3 DEF two
  <2>6. \A i \in 1..Len(events_decoded_') : events_decoded_'[i] \in 1..Len(file')
    <3> SUFFICES ASSUME NEW i \in 1..Len(events_decoded_')
                 PROVE  events_decoded_'[i] \in 1..Len(file')
      OBVIOUS
    <3>1. CASE i <= Len(events_decoded_)
      <4>1. i \in 1..Len(events_decoded_)
        BY <1>0, <2>5, <3>1
      <4>2. events_decoded_[i] \in 1..Len(file)
        BY <1>0, <4>1
      <4> QED
        BY <2>3, <2>5, <3>1, <4>2
    <3>2. CASE i > Len(events_decoded_)
      <4>1. i - Len(events_decoded_) \in 1..2
        BY <1>0, <2>5, <3>2, SMTT(30)
      <4>2. events_decoded_'[i] \in {Newest - 1, Newest}
        BY <1>0, <2>5, <3>2, <4>1
      <4> QED
        BY <2>3, <2>4, <4>2
    <3> QED
      BY <1>0, <2>5, <3>1, <3>2
  <2>7. event_' \in 0..Len(file') /\ sorted' \subseteq 1..Len(file')
    BY <1>0, <2>3
  <2>8. words' \in 0..MaxWords
    BY <1>0, <2>2, EventDataAssumption
  <2> QED
    BY <2>3, <2>5, <2>6, <2>7, <2>8 DEF FileStep, FileOK, EudaqOK
<1> QED
  BY <1>1, <1>2, <1>3

\* A trigger is added only to an event that is there or that its frame defines.
LEMMA EUDAQ2Type ==
    ASSUME TypeInv, EUDAQ2Step
    PROVE  WindowOK(event)' /\ FileStep /\ EudaqOK' /\ LoaderStep
<1> USE DEF TypeInv, LoopOK, Loading, Statuses, Goto, Return, LoaderStep, historyVars
<1>1. UNCHANGED <<words, file>> /\ sorted' \subseteq sorted => FileStep
  BY FileStepType
<1>2. /\ UNCHANGED <<setup, asked>>
      /\ UNCHANGED event => WindowOK(event)'
      /\ UNCHANGED inputVars => FileStep
  BY <1>1 DEF EUDAQ2Step, WindowOK, inputVars
<1>3. /\ UNCHANGED <<file, events_decoded_, event_>> => EudaqOK'
      /\ UNCHANGED <<file, events_decoded_>> /\ event_' = 0 => EudaqOK'
  BY DEF EudaqOK, FileOK
<1>4. \A i \in 1..Len(file) : file[i].begin \in Int /\ file[i].end \in Int /\ file[i].trigger \in Int
  <2>1. \A i \in 1..Len(file) : file[i] \in Measurements
    BY DEF FileOK
  <2> QED
    BY <2>1 DEF Measurements
<1>5. events_decoded_ # << >> =>
        /\ Head(events_decoded_) \in 1..Len(file)
        /\ Tail(events_decoded_) \in Seq(Nat)
        /\ \A n \in 1..Len(Tail(events_decoded_)) :
                Tail(events_decoded_)[n] \in 1..Len(file)
  <2> SUFFICES ASSUME events_decoded_ # << >>
               PROVE  /\ Head(events_decoded_) \in 1..Len(file)
                      /\ Tail(events_decoded_) \in Seq(Nat)
                      /\ \A n \in 1..Len(Tail(events_decoded_)) :
                            Tail(events_decoded_)[n] \in 1..Len(file)
    OBVIOUS
  <2>1. /\ events_decoded_ \in Seq(Nat) /\ Len(events_decoded_) \in Nat \ {0}
        /\ \A n \in 1..Len(events_decoded_) : events_decoded_[n] \in 1..Len(file)
    BY DEF EudaqOK
  <2>2. /\ Tail(events_decoded_) \in Seq(Nat)
        /\ Len(Tail(events_decoded_)) = Len(events_decoded_) - 1
        /\ \A n \in 1..Len(Tail(events_decoded_)) :
                Tail(events_decoded_)[n] = events_decoded_[n + 1]
    BY <2>1, HeadTailProperties
  <2>3. Head(events_decoded_) = events_decoded_[1]
    BY <2>1
  <2>4. \A n \in 1..Len(Tail(events_decoded_)) : n + 1 \in 1..Len(events_decoded_)
    BY <2>1, <2>2
  <2> QED
    BY <2>1, <2>2, <2>3, <2>4
<1>6. CASE EudaqRun
  BY <1>2, <1>3, <1>6 DEF EudaqRun, inputVars, eudaqVars
<1>7. CASE EudaqDecode
  <2>1. FileStep /\ EudaqOK'
    BY <1>7, DecodeType DEF EudaqDecode
  <2> QED
    BY <1>2, <1>7, <2>1 DEF EudaqDecode, Wanted
<1>8. CASE EudaqEndOfFile
  <2>1. FileStep
    BY <1>8, FileStepType DEF EudaqEndOfFile
  <2> QED
    BY <1>2, <1>3, <1>8, <2>1 DEF EudaqEndOfFile, Wanted, NoWord, eudaqVars
<1>9. CASE EudaqSort
  <2>1. sorted' \subseteq 1..Len(file) /\ UNCHANGED <<words, file>>
    BY <1>5, <1>9 DEF EudaqSort, FileOK
  <2>2. FileStep
    BY <2>1 DEF FileStep, FileOK
  <2>3. EudaqOK'
    BY <1>5, <1>9 DEF EudaqSort, EudaqOK
  <2> QED
    BY <1>2, <1>9, <2>2, <2>3 DEF EudaqSort, Wanted
<1>10. CASE EudaqNext
  <2>1. EudaqOK'
    BY <1>5, <1>10 DEF EudaqNext, EudaqOK, inputVars, FileOK
  <2> QED
    BY <1>2, <1>10, <2>1 DEF EudaqNext, Wanted
<1>11. CASE EudaqNextSorted
  <2>1. PICK i \in sorted : Release(i) /\ event_' = i
    BY <1>11 DEF EudaqNextSorted, Earliest
  <2>2. FileStep
    BY <1>1, <1>11, <2>1 DEF EudaqNextSorted, Release
  <2>3. EudaqOK'
    BY <1>11, <2>1 DEF EudaqNextSorted, EudaqOK, FileOK
  <2> QED
    BY <1>2, <1>11, <2>2, <2>3 DEF EudaqNextSorted
<1>12. CASE EudaqFilter
  BY <1>2, <1>3, <1>12 DEF EudaqFilter, InHand, inputVars
<1>13. CASE EudaqThrow
  BY <1>2, <1>3, <1>13 DEF EudaqThrow, InHand, inputVars, eudaqVars
<1>14. CASE EudaqBefore
  BY <1>2, <1>3, <1>14 DEF EudaqBefore, Placed, InHand, inputVars
<1>15. CASE EudaqDuring
  <2>1. event_ \in 1..Len(file)
    BY <1>15 DEF EudaqDuring, Placed, InHand, EudaqOK, FileOK
  <2>2. /\ Trigger \in Int /\ Frame.begin \in Int
        /\ FrameStart \in Int /\ FrameEnd \in Int
    <3>1. /\ chain.shift_triggers \in Int
          /\ chain.adjust_event_times[1] \in Int
          /\ chain.adjust_event_times[2] \in Int
      BY ChainType
    <3>2. Frame.begin \in Int /\ Frame.end \in Int /\ Frame.trigger \in Int
      BY <1>4, <2>1 DEF Frame
    <3> QED
      BY <3>1, <3>2 DEF Trigger, FrameStart, FrameEnd
  <2>3. WindowOK(EventOfFrame)
    BY <1>15, <2>2, NewEventType DEF EudaqDuring, Placed, EventOfFrame, WellFormed
  <2>4. event # NoEvent => EventOfFrame = event
    BY DEF EventOfFrame, Defines
  <2>5. AddsTrigger => EventOfFrame \in EventType
    <3>1. ASSUME AddsTrigger PROVE ~ByTrigger /\ ~Skipped
      BY <1>15, <3>1 DEF AddsTrigger, EudaqDuring, Placed, FramePosition
    <3>2. ASSUME AddsTrigger, event = NoEvent PROVE Defines
      BY <3>1, <3>2 DEF Defines
    <3>3. ASSUME Defines PROVE EventOfFrame \in EventType
      BY <2>2, <3>3 DEF EventOfFrame, NewEvent, EventType
    <3> QED
      BY <2>3, <2>4, <3>2, <3>3 DEF WindowOK
  <2>6. event' = IF AddsTrigger THEN AddTrigger(EventOfFrame, Trigger, Frame.begin)
                 ELSE EventOfFrame
    BY <1>15 DEF EudaqDuring
  <2>7. AddsTrigger => /\ event' \in EventType
                       /\ event'.start = EventOfFrame.start
                       /\ event'.end = EventOfFrame.end
    BY <2>2, <2>5, <2>6, AddTriggerType
  <2>8. WindowOK(event)'
    <3>1. CASE AddsTrigger
      <4>1. EventOfFrame.start <= EventOfFrame.end
        BY <2>3, <2>5, <3>1, EventDataAssumption DEF WindowOK
      <4> QED
        BY <2>7, <3>1, <4>1 DEF WindowOK
    <3>2. CASE ~AddsTrigger
      BY <2>3, <2>6, <3>2 DEF WindowOK
    <3> QED
      BY <3>1, <3>2
  <2>9. event # NoEvent =>
            event' # NoEvent /\ event'.start = event.start /\ event'.end = event.end
    BY <2>4, <2>6, <2>7, EventDataAssumption
  <2> QED
    BY <1>2, <1>3, <1>15, <2>8, <2>9 DEF EudaqDuring, Placed, InHand, inputVars
<1>16. CASE EudaqAfter
  BY <1>2, <1>3, <1>16 DEF EudaqAfter, EudaqStored, Placed, InHand, inputVars, eudaqVars
<1>17. CASE EudaqUnknown
  BY <1>2, <1>3, <1>17 DEF EudaqUnknown, EudaqStored, Placed, InHand, inputVars
<1> QED
  BY <1>6, <1>7, <1>8, <1>9, <1>10, <1>11, <1>12, <1>13, <1>14, <1>15, <1>16, <1>17
     DEF EUDAQ2Step

-----------------------------------------------------------------------------
(* The whole *)

\* Whatever the loader.
LEMMA LoadType ==
    ASSUME TypeInv, Load
    PROVE  TypeInv' /\ LoaderStep
<1>1. WindowOK(event)' /\ FileStep /\ EudaqOK' /\ LoaderStep
  <2>1. CASE EUDAQ2Step
    BY <2>1, EUDAQ2Type
  <2>2. CASE TimestampStep /\ UNCHANGED loaderVars
    BY <2>2, TimestampType, EudaqKept DEF loaderVars
  <2>3. CASE Timepix3Step /\ UNCHANGED <<eudaqVars, t0_seen_, tag>>
    BY <2>3, Timepix3Type, EudaqKept
  <2>4. CASE ATLASpixStep /\ UNCHANGED <<eudaqVars, signals, tag>>
    BY <2>4, ATLASpixType, EudaqKept
  <2>5. CASE MuPixStep /\ UNCHANGED <<eudaqVars, signals, t0_seen_>>
    BY <2>5, MuPixType, EudaqKept
  <2> QED
    BY <2>1, <2>2, <2>3, <2>4, <2>5 DEF Load
<1>2. UNCHANGED <<metronomeVars, m26Vars>>
  BY DEF Load, definerVars
<1>3. LoopOK'
  BY <1>1 DEF TypeInv, LoopOK, LoaderStep
<1>4. MetronomeOK' /\ M26OK'
  BY <1>1, <1>2, UnchangedType DEF LoaderStep
<1> QED
  BY <1>1, <1>3, <1>4 DEF TypeInv, FileStep

\* Whatever the definer.
LEMMA DefineType ==
    ASSUME TypeInv, Define
    PROVE  TypeInv'
<1> USE DEF TypeInv, LoopOK, Loading, Defining, Statuses
<1>1. /\ UNCHANGED <<setup, events, inputVars, eudaqVars>>
  BY DEF Define, M26Step, historyVars, loaderVars
<1>2. FileOK' /\ EudaqOK'
  BY <1>1, UnchangedType DEF inputVars, eudaqVars
<1>3. CASE MetronomeRun /\ UNCHANGED <<setup, status, asked, m26Vars>>
  <2>1. WindowOK(event)' /\ MetronomeOK' /\ at' = "load"
    BY <1>3, MetronomeType
  <2>2. M26OK'
    BY <1>3, UnchangedType
  <2> QED
    BY <1>1, <1>2, <1>3, <2>1, <2>2
<1>4. CASE M26Step /\ UNCHANGED metronomeVars
  <2>1. /\ WindowOK(event)' /\ M26OK'
        /\ at' \in {"m26", "compare", "load", "exit"}
        /\ status' \in {status, "exception"} /\ asked' \in BOOLEAN
    BY <1>4, M26Type
  <2>2. MetronomeOK'
    BY <1>1, <1>4, UnchangedType
  <2> QED
    BY <1>1, <1>2, <2>1, <2>2
<1> QED
  BY <1>3, <1>4 DEF Define

\* The begin and the end of an event in the event loop.
LEMMA LoopType ==
    ASSUME TypeInv, BeginEvent \/ EndEvent
    PROVE  TypeInv'
<1> USE DEF LoopOK, Loading, Defining
<1>1. UNCHANGED <<setup, inputVars, definerVars, loaderVars>>
  BY DEF BeginEvent, EndEvent
<1>2. FileOK' /\ EudaqOK' /\ MetronomeOK' /\ M26OK'
  BY <1>1, UnchangedType DEF inputVars, loaderVars, eudaqVars, definerVars
<1>3. CASE BeginEvent
  BY <1>2, <1>3 DEF BeginEvent, historyVars, WindowOK, TypeInv
<1>4. CASE EndEvent
  <2>1. event \in EventType \cup {NoEvent}
    BY DEF TypeInv, WindowOK
  <2>2. events' \in Seq(EventType \cup {NoEvent})
    BY <1>4, <2>1, AppendProperties DEF EndEvent, TypeInv
  <2>3. asked' \in BOOLEAN /\ at' \in {"exit", "begin"} /\ UNCHANGED <<setup, status, event>>
    BY <1>4 DEF EndEvent, TypeInv
  <2> QED
    BY <1>2, <2>2, <2>3 DEF WindowOK, TypeInv
<1> QED
  BY <1>3, <1>4

\* The first and the later states have the types.
LEMMA InitType == Init => TypeInv
<1> SUFFICES ASSUME Init PROVE TypeInv
  OBVIOUS
<1>1. setup \in DOMAIN Chains
  BY DEF Init, DataInit
<1>2. LoopOK /\ WindowOK(event)
  <2>1. /\ at = "begin" /\ status = "none" /\ asked = FALSE
        /\ event = NoEvent /\ events = << >>
    BY DEF Init, DataInit
  <2>2. events \in Seq(EventType \cup {NoEvent})
    BY <2>1
  <2>3. asked \in BOOLEAN
    BY <2>1
  <2> QED
    BY <1>1, <2>1, <2>2, <2>3 DEF LoopOK, WindowOK, Statuses
<1>3. FileOK
  BY EventDataAssumption DEF Init, DataInit, FileOK
<1>4. EudaqOK
  BY DEF Init, DataInit, EUDAQ2Init, EudaqOK
<1>5. MetronomeOK
  BY <1>1, ChainType DEF Init, MetronomeInit, MetronomeOK
<1>6. M26OK
  BY M26Assumption DEF Init, M26Init, M26OK
<1> QED
  BY <1>2, <1>3, <1>4, <1>5, <1>6 DEF TypeInv

\* See InitType.
LEMMA NextType == TypeInv /\ [Next]_vars => TypeInv'
<1> SUFFICES ASSUME TypeInv, [Next]_vars PROVE TypeInv'
  OBVIOUS
<1>1. CASE UNCHANGED vars
  <2>1. LoopOK'
    BY <1>1 DEF TypeInv, LoopOK, vars, dataVars, historyVars
  <2>2. /\ UNCHANGED <<words, file, sorted>> /\ UNCHANGED <<file, events_decoded_, event_>>
        /\ UNCHANGED <<setup, metronomeVars>> /\ UNCHANGED m26Vars /\ UNCHANGED event
    BY <1>1 DEF vars, dataVars, inputVars, definerVars, loaderVars, eudaqVars
  <2> QED
    BY <2>1, <2>2, UnchangedType DEF TypeInv
<1>2. CASE Next
  BY <1>2, LoadType, DefineType, LoopType DEF Next
<1> QED
  BY <1>1, <1>2

\* The inductive type invariant holds in every run.
THEOREM TypeInvariant == Spec => []TypeInv
BY InitType, NextType, PTL DEF Spec

\* Type correctness, for every configuration: in particular every event of a
\* module or a loader is well formed, and the trigger numbers stay unsigned.
THEOREM TypeCorrect == Spec => []TypeOK
<1>1. TypeInv => TypeOK
  <2> SUFFICES ASSUME TypeInv PROVE TypeOK
    OBVIOUS
  <2>1. DOMAIN file = 1..Len(file) /\ Len(file) \in Nat
    BY DEF TypeInv, FileOK
  <2>2. sorted \subseteq DOMAIN file /\ event_ \in {0} \cup DOMAIN file
    BY <2>1 DEF TypeInv, FileOK, EudaqOK
  <2> QED
    BY <2>2 DEF TypeInv, TypeOK, LoopOK, WindowOK, FileOK, M26OK, Statuses
<1> QED
  BY <1>1, TypeInvariant, PTL

-----------------------------------------------------------------------------
(* The events of a definer follow each other *)

\* The definer will define no event that begins before this time.
Ahead == IF chain.definer = "M26" THEN time_trig_stop_prev_ ELSE m_eventStart

\* All events so far are over at this time.
OverAt(time) == \A i \in DOMAIN events : events[i] # NoEvent /\ events[i].end <= time

InLine ==
    /\ OverAt(Ahead)
    /\ at \in Loading => event # NoEvent /\ event.end <= Ahead /\ OverAt(event.start)

\* The inductive invariant behind EventsDisjoint: it compares each event with
\* what the definer remembers, not with the events after it.
InLineInv ==
    /\ at \in Defining => event = NoEvent /\ chain.definer # "none"
    /\ chain.definer # "none" /\ ~asked /\ at # "exit" => InLine

\* A loader does not move the window of an event that a definer made.
LEMMA LoadOrder ==
    ASSUME TypeInv, InLineInv, Load
    PROVE  InLineInv'
<1>1. LoaderStep
  BY LoadType
<1>2. UNCHANGED <<setup, asked, events, time_trig_stop_prev_, m_eventStart>>
  BY <1>1 DEF LoaderStep, Load, definerVars, m26Vars, prevVars, metronomeVars
<1>3. at \in Loading /\ at # "exit" /\ at' \notin Defining
  BY <1>1 DEF LoaderStep, Loading, Defining
<1>4. ASSUME InLine PROVE InLine'
  BY <1>1, <1>2, <1>3, <1>4 DEF InLine, OverAt, Ahead, LoaderStep, chain
<1> QED
  BY <1>2, <1>3, <1>4 DEF InLineInv, chain

\* At the end of an event it joins those that are over before what is ahead.
LEMMA LoopOrder ==
    ASSUME TypeInv, InLineInv, BeginEvent \/ EndEvent
    PROVE  InLineInv'
<1>1. UNCHANGED <<setup, time_trig_stop_prev_, m_eventStart>>
  BY DEF BeginEvent, EndEvent, definerVars, m26Vars, prevVars, metronomeVars
<1>2. CASE BeginEvent
  <2>1. /\ event' = NoEvent /\ UNCHANGED <<asked, events>> /\ at = "begin"
        /\ at' = IF chain.definer = "none" THEN "load" ELSE "define"
    BY <1>2 DEF BeginEvent, historyVars
  <2>2. chain.definer # "none" => at' \notin Loading
    BY <2>1 DEF Loading
  <2>3. chain.definer = "none" => at' \notin Defining
    BY <2>1 DEF Defining
  <2> QED
    BY <1>1, <2>1, <2>2, <2>3 DEF InLineInv, InLine, OverAt, Ahead, chain
<1>3. CASE EndEvent
  <2>1. /\ at = "return" /\ at' \in {"exit", "begin"}
        /\ events' = Append(events, event) /\ UNCHANGED event
        /\ asked => asked'
    BY <1>3 DEF EndEvent
  <2>2. at \in Loading /\ at' \notin Loading /\ at' \notin Defining
    BY <2>1 DEF Loading, Defining
  <2>3. ASSUME InLine PROVE OverAt(Ahead)'
    <3>1. event # NoEvent /\ event.end <= Ahead /\ OverAt(Ahead)
      BY <2>2, <2>3 DEF InLine
    <3>2. events \in Seq(EventType \cup {NoEvent}) /\ event \in EventType \cup {NoEvent}
      BY DEF TypeInv, LoopOK, WindowOK
    <3>3. \A i \in DOMAIN events' : (events'[i] = event) \/ (i \in DOMAIN events /\ events'[i] = events[i])
      BY <2>1, <3>2, AppendProperties
    <3>4. Ahead' = Ahead
      BY <1>1 DEF Ahead, chain
    <3> QED
      BY <3>1, <3>3, <3>4 DEF OverAt
  <2> QED
    BY <1>1, <2>1, <2>2, <2>3 DEF InLineInv, InLine, chain
<1> QED
  BY <1>2, <1>3

\* A new event begins where, or after where, the last one ended.
LEMMA DefineOrder ==
    ASSUME TypeInv, InLineInv, Define
    PROVE  InLineInv'
<1>1. UNCHANGED <<setup, events>>
  BY DEF Define, M26Step, historyVars
<1>2. /\ m_eventStart \in Int /\ m_eventEnd \in Int /\ m_eventStart <= m_eventEnd
      /\ \A i \in DOMAIN events : events[i] # NoEvent => events[i].end \in Int
  BY ChainType, SMTT(30) DEF TypeInv, LoopOK, MetronomeOK, EventType
<1>3. CASE MetronomeRun /\ UNCHANGED <<setup, status, asked, m26Vars>>
  <2>1. /\ chain.definer = "Metronome" /\ at = "define" /\ at' = "load"
        /\ m_eventStart' = m_eventEnd /\ UNCHANGED asked
        /\ event' = [NewEvent(m_eventStart, m_eventEnd)
                        EXCEPT !.trigger_list = Beats(chain.triggers)]
    BY <1>3 DEF MetronomeRun, Goto
  <2>2. event'.start = m_eventStart /\ event'.end = m_eventEnd
    BY <2>1 DEF NewEvent
  <2>3. event' # NoEvent
    BY <1>3, MetronomeType, EventDataAssumption
  <2>4. Ahead = m_eventStart /\ Ahead' = m_eventEnd
    BY <1>1, <2>1 DEF Ahead, chain
  <2>5. ASSUME OverAt(m_eventStart) PROVE InLine'
    BY <1>1, <1>2, <2>2, <2>3, <2>4, <2>5 DEF InLine, OverAt
  <2> QED
    BY <1>1, <2>1, <2>4, <2>5 DEF InLineInv, InLine, Defining, chain
<1>4. CASE M26Step /\ UNCHANGED metronomeVars
  <2>1. CASE M26EndOfFile
    BY <1>1, <2>1 DEF M26EndOfFile, InLineInv, Defining, chain
  <2>2. CASE M26FirstTLU \/ M26FirstM26 \/ M26Advance \/ M26Refuse
    <3>1. /\ at \in Defining /\ at' \in {"m26", "compare"}
          /\ UNCHANGED <<event, asked, prevVars>>
      BY <2>2 DEF M26FirstTLU, M26FirstM26, M26Advance, M26Refuse, Match, Goto, Defining
    <3> QED
      BY <1>1, <1>4, <3>1
         DEF InLineInv, InLine, OverAt, Ahead, prevVars, metronomeVars, Defining, Loading, chain
  <2>3. CASE M26Accept
    <3>1. /\ chain.definer = "M26" /\ at = "compare" /\ at' = "load"
          /\ time_trig_stop_prev_' = evtEnd /\ UNCHANGED asked
          /\ ~(evtBegin < time_trig_stop_prev_) /\ evtBegin <= evtEnd
      BY <1>4, <2>3 DEF M26Step, M26Accept, Match, Refused, WellFormed
    <3>2. event' \in EventType /\ event'.start = evtBegin /\ event'.end = evtEnd
      BY <1>4, <2>3, M26Window
    <3>3. Ahead = time_trig_stop_prev_ /\ Ahead' = evtEnd
      BY <1>1, <3>1 DEF Ahead, chain
    <3>4. ASSUME OverAt(time_trig_stop_prev_) PROVE InLine'
      <4>1. time_trig_stop_prev_ \in Int /\ evtBegin \in Int /\ evtEnd \in Int
        BY <1>4, <2>3, M26Window DEF TypeInv, M26OK
      <4> QED
        BY <1>1, <1>2, <3>1, <3>2, <3>3, <3>4, <4>1, EventDataAssumption DEF InLine, OverAt
    <3> QED
      BY <1>1, <3>1, <3>3, <3>4 DEF InLineInv, InLine, Defining, chain
  <2>4. CASE M26Throw
    BY <2>4 DEF M26Throw, InLineInv, Defining
  <2> QED
    BY <1>4, <2>1, <2>2, <2>3, <2>4 DEF M26Step
<1> QED
  BY <1>3, <1>4 DEF Define

\* The events are in line with what the definer remembers.
THEOREM InLineInvariant == Spec => [](TypeInv /\ InLineInv)
<1>1. Init => TypeInv /\ InLineInv
  <2> SUFFICES ASSUME Init PROVE TypeInv /\ InLineInv
    OBVIOUS
  <2>1. at = "begin" /\ events = << >>
    BY DEF Init, DataInit
  <2>2. InLineInv
    BY <2>1 DEF InLineInv, InLine, OverAt, Defining, Loading
  <2> QED
    BY <2>2, InitType
<1>2. TypeInv /\ InLineInv /\ [Next]_vars => (TypeInv /\ InLineInv)'
  <2> SUFFICES ASSUME TypeInv, InLineInv, [Next]_vars PROVE (TypeInv /\ InLineInv)'
    OBVIOUS
  <2>1. TypeInv'
    BY NextType
  <2>2. CASE UNCHANGED vars
    <3>1. UNCHANGED <<setup, at, event, asked, events, time_trig_stop_prev_, m_eventStart>>
      BY <2>2 DEF vars, dataVars, historyVars, definerVars, m26Vars, prevVars, metronomeVars
    <3> QED
      BY <2>1, <3>1 DEF InLineInv, InLine, OverAt, Ahead, chain
  <2>3. CASE Next
    BY <2>1, <2>3, LoadOrder, DefineOrder, LoopOrder DEF Next
  <2> QED
    BY <2>2, <2>3
<1> QED
  BY <1>1, <1>2, PTL DEF Spec

\* The events that the Metronome or EventDefinitionM26 defines do not overlap and
\* follow each other in time, whatever pairs of triggers are refused on the way
\* and whatever the loaders do to the event.
THEOREM EventsDisjointCorrect == Spec => []EventsDisjoint
<1>1. TypeInv /\ InLineInv => EventsDisjoint
  <2> SUFFICES ASSUME TypeInv, InLineInv, chain.definer # "none", ~asked, event # NoEvent,
                      at \notin {"begin", "exit"}
               PROVE  OverAt(event.start)
    BY DEF EventsDisjoint, OverAt
  <2>1. at \in {"begin", "exit"} \cup Defining \cup Loading
    BY DEF TypeInv, LoopOK
  <2>2. at \notin Defining /\ at # "exit"
    BY DEF InLineInv
  <2>3. at \in Loading
    BY <2>1, <2>2
  <2> QED
    BY <2>2, <2>3 DEF InLineInv, InLine
<1> QED
  BY <1>1, InLineInvariant, PTL

-----------------------------------------------------------------------------
(* The event of EventDefinitionM26 is the window of one pair of records *)

\* No shifted trigger number of a frame leaves the range of trigger numbers by
\* more than its size, nor is the largest of them.  Refusing the pair of trigger 0
\* wraps triggerTLU_ around to that number: with a frame that has it, the code
\* would take the two for a pair.
TriggersInRange ==
    \A n \in DOMAIN Chains : \A r \in Chains[n].m26_data :
        r.trigger + Chains[n].shift_triggers \in (1 - TriggerRange)..(TriggerRange - 2)

\* The trigger of the last frame read, before it is made unsigned.
Shifted == m26.trigger + chain.shift_triggers

RecordOK ==
    /\ tlu \in TriggerRecords \cup {NoRecord} /\ m26 \in TriggerRecords \cup {NoRecord}
    /\ at \in {"m26", "compare"} =>
        tlu \in TriggerRecords /\ tlu.trigger \in 0..(TriggerRange - 1)
    /\ at = "compare" =>
        m26 \in TriggerRecords /\ Shifted \in (1 - TriggerRange)..(TriggerRange - 2)

\* The two numbers compared are those of the last records: nothing is refused yet.
Fresh ==
    /\ triggerTLU_ = tlu.trigger /\ triggerM26_ = Shifted % TriggerRange
    /\ time_before_ = m26.time

\* The pair is refused: its trigger is behind, a trigger is read next.
Behind == triggerTLU_ = tlu.trigger - 1 /\ triggerM26_ = tlu.trigger

\* A trigger was read after a refusal: it is ahead, a frame is read next.
Passed == triggerTLU_ = tlu.trigger /\ triggerM26_ < tlu.trigger

\* Trigger 0 is refused: its number is now the largest, and frames are read to the
\* end of their file.
Wrapped ==
    /\ tlu.trigger = 0 /\ triggerTLU_ = TriggerRange - 1
    /\ Shifted \in 0..(TriggerRange - 2) /\ triggerM26_ = Shifted

\* The beginning of a window around the two records, as WindowOfMatch has it.
Reach ==
    CASE chain.layer = "timing" -> m26.time + chain.add_begin
      [] chain.layer = "all_hits" -> m26.time + framelength_
      [] OTHER -> framelength_

OfOnePair ==
    /\ tlu.trigger = Shifted % TriggerRange
    /\ event.start = tlu.time - chain.time_shift - Reach

\* The inductive invariant behind WindowOfMatch: what the comparison has of the
\* two records, at every place of the loop that looks for a pair.
PairInv ==
    chain.definer = "M26" =>
        /\ RecordOK
        /\ at \in {"m26", "compare"} => time_trig_start_ = tlu.time
        /\ at = "m26" => triggerTLU_ = tlu.trigger
        /\ at = "compare" => Fresh \/ Behind \/ Passed \/ Wrapped
        /\ event # NoEvent /\ ~asked => OfOnePair

\* Numbers are taken modulo the range: within it nothing changes, and 0 stands
\* for itself only.
LEMMA RangeOfTriggers ==
    ASSUME NEW s \in (1 - TriggerRange)..(TriggerRange - 2)
    PROVE  /\ s % TriggerRange \in 0..(TriggerRange - 1)
           /\ s >= 0 => s % TriggerRange = s
           /\ s % TriggerRange = 0 => s = 0
<1>1. TriggerRange \in Nat \ {0}
  BY M26Assumption
<1>2. s >= 0 => s % TriggerRange = s
  BY <1>1
<1>3. s < 0 => s % TriggerRange = s + TriggerRange
  BY <1>1
<1> QED
  BY <1>1, <1>2, <1>3

\* A record read from the file of triggers, and one from the file of frames.
LEMMA RecordsRead ==
    ASSUME TypeInv, PairInv, TriggersInRange, chain.definer = "M26", UNCHANGED setup
    PROVE  /\ ReadTLU => /\ tlu' \in TriggerRecords /\ tlu'.trigger \in 0..(TriggerRange - 1)
                         /\ tlu'.trigger > tlu.trigger
                         /\ triggerTLU_' = tlu'.trigger /\ time_trig_start_' = tlu'.time
                         /\ UNCHANGED <<triggerM26_, time_before_, m26>>
           /\ ReadM26 => /\ m26' \in TriggerRecords
                         /\ Shifted' \in (1 - TriggerRange)..(TriggerRange - 2)
                         /\ m26'.trigger > m26.trigger
                         /\ triggerM26_' = Shifted' % TriggerRange
                         /\ time_before_' = m26'.time
                         /\ UNCHANGED <<triggerTLU_, time_trig_start_, tlu>>
<1>1. /\ setup \in DOMAIN Chains /\ chain' = chain
      /\ chain.tlu_data \subseteq TriggerRecords /\ chain.m26_data \subseteq TriggerRecords
      /\ \A r \in chain.tlu_data : r.trigger \in 0..(TriggerRange - 1)
  BY ChainType DEF TypeInv, LoopOK, chain
<1>2. \A r \in chain.m26_data :
        r.trigger + chain.shift_triggers \in (1 - TriggerRange)..(TriggerRange - 2)
  BY <1>1 DEF TriggersInRange, chain
<1> QED
  BY <1>1, <1>2 DEF ReadTLU, ReadM26, Shifted

\* Every step of EventDefinitionM26: a pair is accepted only with the two numbers
\* fresh, whatever was refused before.
LEMMA M26Pair ==
    ASSUME TypeInv, InLineInv, PairInv, TriggersInRange, M26Step
    PROVE  PairInv'
<1> USE DEF PairInv, RecordOK
<1>0. at \in Defining => event = NoEvent
  BY DEF InLineInv
<1>1. /\ chain.definer = "M26" /\ UNCHANGED setup /\ chain' = chain
  BY DEF M26Step, chain
<1>2. TriggerRange \in Nat \ {0}
  BY M26Assumption
<1>3. CASE M26EndOfFile
  BY <1>1, <1>3 DEF M26EndOfFile, m26Vars, triggerVars, timeVars, Shifted
<1>4. CASE M26FirstTLU
  BY <1>0, <1>1, <1>4, RecordsRead DEF Defining, M26FirstTLU, Goto
<1>5. CASE M26FirstM26
  BY <1>0, <1>1, <1>5, RecordsRead DEF Defining, M26FirstM26, Goto, Fresh
<1>6. CASE M26Advance /\ triggerTLU_ < triggerM26_ /\ ReadTLU
  <2>1. /\ tlu' \in TriggerRecords /\ tlu'.trigger \in 0..(TriggerRange - 1)
        /\ tlu'.trigger > tlu.trigger
        /\ triggerTLU_' = tlu'.trigger /\ time_trig_start_' = tlu'.time
        /\ UNCHANGED <<triggerM26_, time_before_, m26>>
    BY <1>1, <1>6, RecordsRead
  <2>2. at = "compare" /\ UNCHANGED <<at, event, asked>> /\ event = NoEvent
    BY <1>0, <1>1, <1>6 DEF M26Advance, Defining
  <2>3. Shifted' = Shifted
    BY <1>1, <2>1 DEF Shifted
  <2>4. (Fresh \/ Behind \/ Passed \/ Wrapped)'
    <3>1. Fresh => Fresh'
      BY <2>1, <2>3 DEF Fresh
    <3>2. Behind => Passed'
      BY <2>1 DEF Behind, Passed
    <3>3. ~Passed
      BY <1>2, <1>6 DEF Passed, TypeInv, M26OK
    <3>4. ~Wrapped
      BY <1>1, <1>2, <1>6, <2>2 DEF Wrapped
    <3> QED
      BY <1>1, <2>2, <3>1, <3>2, <3>3, <3>4
  <2> QED
    BY <1>1, <2>1, <2>2, <2>3, <2>4
<1>7. CASE M26Advance /\ triggerTLU_ > triggerM26_ /\ ReadM26
  <2>1. /\ m26' \in TriggerRecords
        /\ Shifted' \in (1 - TriggerRange)..(TriggerRange - 2)
        /\ m26'.trigger > m26.trigger
        /\ triggerM26_' = Shifted' % TriggerRange
        /\ time_before_' = m26'.time
        /\ UNCHANGED <<triggerTLU_, time_trig_start_, tlu>>
    BY <1>1, <1>7, RecordsRead
  <2>2. at = "compare" /\ UNCHANGED <<at, event, asked>> /\ event = NoEvent
    BY <1>0, <1>1, <1>7 DEF M26Advance, Defining
  <2>3. (Fresh \/ Behind \/ Passed \/ Wrapped)'
    <3>1. Fresh \/ Passed => Fresh'
      BY <2>1 DEF Fresh, Passed
    <3>2. ~Behind
      BY <1>1, <1>7, <2>2 DEF Behind
    <3>3. Wrapped => Wrapped'
      <4>1. m26.trigger \in Nat /\ m26'.trigger \in Nat /\ chain.shift_triggers \in Int
        BY <1>1, <2>1, <2>2, ChainType DEF TypeInv, LoopOK, TriggerRecords
      <4>2. Shifted' > Shifted
        BY <1>1, <2>1, <4>1 DEF Shifted
      <4>3. Wrapped => Shifted' \in 0..(TriggerRange - 2)
        BY <1>2, <2>1, <4>2 DEF Wrapped
      <4>4. Wrapped => triggerM26_' = Shifted'
        BY <2>1, <4>3, RangeOfTriggers
      <4> QED
        BY <2>1, <4>3, <4>4 DEF Wrapped
    <3> QED
      BY <1>1, <2>2, <3>1, <3>2, <3>3
  <2> QED
    BY <1>1, <2>1, <2>2, <2>3
<1>8. CASE M26Refuse
  <2>1. /\ at = "compare" /\ event = NoEvent /\ triggerTLU_ = triggerM26_
        /\ UNCHANGED <<at, event, asked, triggerM26_, time_trig_start_, tlu, m26>>
        /\ triggerTLU_' = (triggerTLU_ - 1) % TriggerRange
    BY <1>0, <1>1, <1>8 DEF M26Refuse, Match, Defining
  <2>2. Fresh
    BY <1>1, <1>2, <2>1 DEF Behind, Passed, Wrapped
  <2>3. Shifted' = Shifted
    BY <1>1, <2>1 DEF Shifted
  <2>4. CASE tlu.trigger = 0
    <3>1. Shifted = 0
      BY <1>1, <2>1, <2>2, <2>4, RangeOfTriggers DEF Fresh
    <3>2. triggerTLU_' = TriggerRange - 1
      BY <1>2, <2>1, <2>2, <2>4 DEF Fresh
    <3>3. triggerM26_' = 0 /\ tlu'.trigger = 0 /\ Shifted' \in 0..(TriggerRange - 2)
      BY <1>1, <2>1, <2>2, <2>3, <2>4, <3>1 DEF Fresh
    <3>4. Wrapped'
      BY <2>3, <3>1, <3>2, <3>3 DEF Wrapped
    <3> QED
      BY <1>1, <2>1, <2>3, <3>4
  <2>5. CASE tlu.trigger # 0
    <3>1. tlu.trigger \in 1..(TriggerRange - 1)
      BY <1>1, <1>2, <2>1, <2>5
    <3>2. (tlu.trigger - 1) % TriggerRange = tlu.trigger - 1
      BY <1>2, <3>1, RangeOfTriggers
    <3>3. Behind'
      BY <2>1, <2>2, <3>2 DEF Behind, Fresh
    <3> QED
      BY <1>1, <2>1, <2>3, <3>3
  <2> QED
    BY <2>4, <2>5
<1>9. CASE M26Accept
  <2>1. /\ at = "compare" /\ triggerTLU_ = triggerM26_ /\ at' = "load"
        /\ UNCHANGED <<tlu, m26>>
    BY <1>9 DEF M26Accept, Match
  <2>2. Fresh /\ time_trig_start_ = tlu.time
    BY <1>1, <1>2, <2>1 DEF Behind, Passed, Wrapped
  <2>3. event'.start = evtBegin
    BY <1>9, M26Window
  <2>4. evtBegin = tlu.time - chain.time_shift - Reach
    BY <1>1, <2>2, ChainType DEF evtBegin, time_trig, Before, Reach, Fresh, TypeInv, LoopOK
  <2>5. Shifted' = Shifted /\ Reach' = Reach
    BY <1>1, <2>1 DEF Shifted, Reach
  <2>6. OfOnePair'
    BY <1>1, <2>1, <2>2, <2>3, <2>4, <2>5 DEF OfOnePair, Fresh
  <2> QED
    BY <1>1, <2>1, <2>5, <2>6
<1>10. CASE M26Throw
  <2>1. at = "compare" /\ at' = "exit" /\ UNCHANGED <<event, asked, tlu, m26>>
    BY <1>10 DEF M26Throw, Match
  <2>2. event = NoEvent /\ Shifted' = Shifted
    BY <1>0, <1>1, <2>1 DEF Shifted, Defining
  <2> QED
    BY <1>1, <2>1, <2>2
<1> QED
  BY <1>3, <1>4, <1>5, <1>6, <1>7, <1>8, <1>9, <1>10 DEF M26Step, M26Advance

\* The other steps leave the records alone, and the window of the event.
LEMMA OtherPair ==
    ASSUME TypeInv, InLineInv, PairInv,
           BeginEvent \/ EndEvent \/ Load \/ UNCHANGED vars
           \/ (MetronomeRun /\ UNCHANGED setup)
    PROVE  PairInv'
<1> USE DEF PairInv, RecordOK
<1> SUFFICES ASSUME chain'.definer = "M26" PROVE PairInv'
  OBVIOUS
<1>1. CASE BeginEvent
  <2>1. /\ at = "begin" /\ at' \in {"load", "define"} /\ event' = NoEvent
        /\ UNCHANGED <<setup, tlu, m26>>
    BY <1>1 DEF BeginEvent, definerVars, m26Vars
  <2> QED
    BY <2>1 DEF chain
<1>2. CASE EndEvent
  <2>1. /\ at' \in {"exit", "begin"} /\ asked' \in BOOLEAN /\ (asked => asked')
        /\ UNCHANGED <<setup, event, tlu, m26>>
    BY <1>2 DEF EndEvent, definerVars, m26Vars, TypeInv, LoopOK
  <2>2. OfOnePair => OfOnePair'
    BY <2>1 DEF OfOnePair, Shifted, Reach, chain
  <2> QED
    BY <2>1, <2>2 DEF Defining, chain
<1>3. CASE Load
  <2>1. LoaderStep /\ at' \notin Defining
    BY <1>3, LoadType DEF LoaderStep, Loading, Defining
  <2>2. UNCHANGED <<setup, asked, tlu, m26>>
    BY <1>3, <2>1 DEF LoaderStep, Load, definerVars, m26Vars
  <2>3. event # NoEvent /\ OfOnePair => OfOnePair'
    BY <2>1, <2>2 DEF OfOnePair, Shifted, Reach, LoaderStep, chain
  <2>4. ~asked => event # NoEvent
    BY <2>1, <2>2 DEF InLineInv, InLine, LoaderStep, Loading, chain
  <2> QED
    BY <2>1, <2>2, <2>3, <2>4 DEF Defining, chain
<1>4. CASE UNCHANGED vars
  <2>1. UNCHANGED <<setup, at, event, asked, tlu, m26, triggerTLU_, triggerM26_,
                    time_trig_start_, time_before_>>
    BY <1>4 DEF vars, dataVars, definerVars, m26Vars, triggerVars, timeVars
  <2> QED
    BY <2>1 DEF OfOnePair, Fresh, Behind, Passed, Wrapped, Shifted, Reach, chain
<1>5. CASE MetronomeRun /\ UNCHANGED setup
  BY <1>5 DEF MetronomeRun, chain
<1> QED
  BY <1>1, <1>2, <1>3, <1>4, <1>5

\* The two records and the numbers compared, in every reachable state.
LEMMA PairInvariant ==
    ASSUME TriggersInRange
    PROVE  Spec => [](TypeInv /\ InLineInv /\ PairInv)
<1>1. Init => PairInv
  BY DEF Init, DataInit, M26Init, PairInv, RecordOK
<1>2. TypeInv /\ InLineInv /\ PairInv /\ [Next]_vars => PairInv'
  <2> SUFFICES ASSUME TypeInv, InLineInv, PairInv, [Next]_vars PROVE PairInv'
    OBVIOUS
  <2>1. CASE Define
    <3>1. CASE MetronomeRun /\ UNCHANGED setup
      BY <3>1, OtherPair
    <3>2. CASE M26Step
      BY <3>2, M26Pair
    <3> QED
      BY <2>1, <3>1, <3>2 DEF Define
  <2>2. CASE BeginEvent \/ EndEvent \/ Load \/ UNCHANGED vars
    BY <2>2, OtherPair
  <2> QED
    BY <2>1, <2>2 DEF Next
<1> QED
  BY <1>1, <1>2, InLineInvariant, PTL DEF Spec

\* An event of EventDefinitionM26 is the window of one frame around the trigger
\* of the same number, whatever pairs were refused before, for every pair of files
\* whose trigger numbers are in range.
THEOREM PairsMatch ==
    ASSUME TriggersInRange
    PROVE  Spec => []WindowOfMatch
<1>1. TypeInv /\ InLineInv /\ PairInv => WindowOfMatch
  BY DEF PairInv, WindowOfMatch, OfOnePair, Shifted, Reach
<1> QED
  BY <1>1, PairInvariant, PTL

-----------------------------------------------------------------------------
(* What the loaders do with the data of a file *)

Fifo == {events_decoded_[n] : n \in DOMAIN events_decoded_}

\* What is read and neither collected, stored nor discarded yet.
Held == sorted \cup signals \cup Fifo \cup ({event_} \ {0})

\* A measurement waits at one place at most.  The frames of the FIFO come after
\* all others in the file.
PlacesInv ==
    /\ signals \subseteq 1..Len(file) /\ sorted \cap signals = {}
    /\ chain.loader # "Timepix3" => signals = {}
    /\ chain.loader # "EUDAQ2" => events_decoded_ = << >> /\ event_ = 0
    /\ event_ \notin sorted
    /\ \A n \in DOMAIN events_decoded_ :
        /\ \A i \in sorted : i < events_decoded_[n]
        /\ event_ < events_decoded_[n]
        /\ \A m \in 1..(n - 1) : events_decoded_[m] < events_decoded_[n]

\* Where measurements are collected in pixels for the clipboard.
Collecting == {"fetch", "fill", "loop", "put", "head", "signals"}

CollectedInv ==
    /\ pixels \in Seq(Nat)
    /\ chain.loader = "Timestamp" => pixels = << >>
    /\ at \in Collecting => \A n \in DOMAIN pixels :
        /\ pixels[n] \in 1..Len(file) /\ pixels[n] \notin Held
        /\ event # NoEvent /\ BelongsTo(chain, file[pixels[n]], event)
        /\ \A m \in DOMAIN pixels : pixels[m] = pixels[n] => m = n
        /\ \A x \in stored : x[1] # pixels[n]

\* The event that x is stored with.
InItsEvent(x) ==
    \/ x[2] \in DOMAIN events /\ BelongsTo(chain, file[x[1]], events[x[2]])
    \/ /\ x[2] = Current /\ event # NoEvent /\ at \notin {"begin"} \cup Defining
       /\ BelongsTo(chain, file[x[1]], event)

StoredInv ==
    \A x \in stored :
        /\ x[1] \in 1..Len(file) /\ x[1] \notin Held
        /\ InItsEvent(x)
        /\ \A y \in stored : x[1] = y[1] => x = y

\* The inductive invariant behind StoredRight.
StoreInv == CollectedInv /\ StoredInv

-----------------------------------------------------------------------------
(* What a step of a loader does with the data *)

FileGrows ==
    /\ Len(file) \in Nat /\ Len(file') \in Nat /\ Len(file) <= Len(file')
    /\ \A i \in 1..Len(file) : file'[i] = file[i]

EventGrows ==
    event # NoEvent => event' # NoEvent /\ TriggerIDs(event) \subseteq TriggerIDs(event')

\* Nothing is collected or stored; what was collected may be forgotten.
Keeps ==
    /\ FileGrows /\ Held' \subseteq Held \cup ((Len(file) + 1)..Len(file'))
    /\ UNCHANGED stored
    /\ \/ pixels' = << >>
       \/ UNCHANGED pixels /\ (at' \in Collecting => at \in Collecting)

Collects(i) ==
    /\ at \in Collecting /\ chain.loader # "Timestamp"
    /\ Held' \subseteq Held \ {i} /\ UNCHANGED <<file, stored>>
    /\ event' # NoEvent /\ BelongsTo(chain, file[i], event')
    /\ pixels' = Append(pixels, i)

Puts ==
    /\ at \in Collecting /\ at' = "return"
    /\ Held' \subseteq Held /\ UNCHANGED <<file, event, pixels>>
    /\ PutData(pixels)

PutsAtOnce(i) ==
    /\ chain.loader = "Timestamp" /\ UNCHANGED <<file, pixels>>
    /\ Held' \subseteq Held \ {i}
    /\ event' # NoEvent /\ BelongsTo(chain, file[i], event')
    /\ PutData(<<i>>)

Moves ==
    Keeps \/ (\E i \in Held : Collects(i)) \/ Puts \/ (\E i \in Held : PutsAtOnce(i))

\* What belongs to an event belongs to it when it has more triggers.
LEMMA BelongsLonger ==
    ASSUME NEW c, NEW m, NEW e, NEW f,
           f.start = e.start, f.end = e.end, TriggerIDs(e) \subseteq TriggerIDs(f),
           BelongsTo(c, m, e)
    PROVE  BelongsTo(c, m, f)
<1>1. CASE m.kind \in {"pixel", "signal"}
  BY <1>1 DEF BelongsTo
<1>2. CASE m.kind = "frame" /\ (~Timed(m) \/ c.sync_by_trigger)
  BY <1>2 DEF BelongsTo
<1>3. CASE m.kind = "frame" /\ Timed(m) /\ ~c.sync_by_trigger
  BY <1>3 DEF BelongsTo
<1> QED
  BY <1>1, <1>2, <1>3 DEF BelongsTo

\* What is held is in the file.
LEMMA HeldInFile == TypeInv /\ PlacesInv => Held \subseteq 1..Len(file)
<1> SUFFICES ASSUME TypeInv, PlacesInv PROVE Held \subseteq 1..Len(file)
  OBVIOUS
<1>1. sorted \subseteq 1..Len(file) /\ signals \subseteq 1..Len(file)
  BY DEF TypeInv, FileOK, PlacesInv
<1>2. Fifo \subseteq 1..Len(file)
  <2>1. DOMAIN events_decoded_ = 1..Len(events_decoded_)
    BY DEF TypeInv, EudaqOK
  <2> QED
    BY <2>1 DEF TypeInv, EudaqOK, Fifo
<1>3. {event_} \ {0} \subseteq 1..Len(file)
  <2>1. event_ \in 0..Len(file) /\ Len(file) \in Nat
    BY DEF TypeInv, FileOK, EudaqOK
  <2> QED
    BY <2>1
<1> QED
  BY <1>1, <1>2, <1>3 DEF Held

\* A step of a loader leaves what was stored and collected where it belongs.
LEMMA MovesKeep ==
    ASSUME TypeInv, PlacesInv, StoreInv, LoaderStep, EventGrows, Moves,
           FileGrows, Held' \subseteq 1..Len(file')
    PROVE  StoreInv'
<1> USE DEF Loading, Defining
<1>1. /\ UNCHANGED <<setup, events>> /\ chain' = chain /\ Current' = Current
      /\ at \in Loading /\ at' \in Loading \cup {"exit"}
  BY DEF LoaderStep, chain, Current
<1>2. ASSUME NEW m, event # NoEvent, BelongsTo(chain, m, event)
      PROVE  event' # NoEvent /\ BelongsTo(chain, m, event')
  BY <1>2, BelongsLonger DEF EventGrows, LoaderStep
<1>3. ASSUME NEW x \in stored PROVE InItsEvent(x)'
  <2>1. x[1] \in 1..Len(file) /\ InItsEvent(x)
    BY DEF StoreInv, StoredInv
  <2>2. file'[x[1]] = file[x[1]]
    BY <2>1 DEF FileGrows
  <2> QED
    BY <1>1, <1>2, <2>1, <2>2 DEF InItsEvent
<1>4. /\ Held \subseteq 1..Len(file) /\ Len(file) \in Nat /\ Len(file') \in Nat
      /\ 1..Len(file) \subseteq 1..Len(file')
  BY HeldInFile DEF FileGrows
<1>5. pixels \in Seq(Nat) /\ (chain.loader = "Timestamp" => pixels = << >>)
  BY DEF StoreInv, CollectedInv
<1>6. CASE Keeps
  <2>1. \A i \in 1..Len(file) : i \notin Held => i \notin Held'
    BY <1>4, <1>6 DEF Keeps
  <2>2. StoredInv'
    <3>1. stored' = stored
      BY <1>6 DEF Keeps
    <3> QED
      BY <1>3, <1>4, <2>1, <3>1 DEF StoreInv, StoredInv
  <2>3. CollectedInv'
    <3>1. CASE pixels' = << >>
      BY <3>1 DEF CollectedInv
    <3>2. CASE UNCHANGED pixels /\ (at' \in Collecting => at \in Collecting)
      <4>1. at' \in Collecting => \A n \in DOMAIN pixels : file'[pixels[n]] = file[pixels[n]]
        BY <3>2 DEF StoreInv, CollectedInv, FileGrows
      <4>2. stored' = stored
        BY <1>6 DEF Keeps
      <4> QED
        BY <1>1, <1>2, <1>4, <2>1, <3>2, <4>1, <4>2 DEF StoreInv, CollectedInv
    <3> QED
      BY <1>6, <3>1, <3>2 DEF Keeps
  <2> QED
    BY <2>2, <2>3 DEF StoreInv
<1>7. CASE \E i \in Held : Collects(i)
  <2>1. PICK i \in Held : Collects(i)
    BY <1>7
  <2>2. /\ Held' \subseteq Held \ {i} /\ UNCHANGED <<file, stored>>
        /\ event' # NoEvent /\ BelongsTo(chain, file[i], event')
        /\ pixels' = Append(pixels, i) /\ at \in Collecting /\ chain.loader # "Timestamp"
    BY <2>1 DEF Collects
  <2>3. i \in 1..Len(file) /\ i \in Nat
    BY <1>4
  <2>4. StoredInv'
    BY <1>3, <2>2 DEF StoreInv, StoredInv
  <2>5. CollectedInv'
    <3>1. /\ pixels' \in Seq(Nat) /\ Len(pixels') = Len(pixels) + 1
          /\ \A n \in 1..Len(pixels) : pixels'[n] = pixels[n]
          /\ pixels'[Len(pixels) + 1] = i /\ Len(pixels) \in Nat
      BY <1>5, <2>2, <2>3, AppendProperties
    <3>2. DOMAIN pixels = 1..Len(pixels) /\ DOMAIN pixels' = 1..(Len(pixels) + 1)
      BY <1>5, <3>1
    <3>3. \A n \in DOMAIN pixels : pixels[n] # i /\ pixels[n] \notin Held'
      BY <2>1, <2>2 DEF StoreInv, CollectedInv
    <3>4. \A x \in stored : x[1] # i
      BY <2>1 DEF StoreInv, StoredInv
    <3>5. i \notin Held'
      BY <2>2
    <3> SUFFICES ASSUME NEW n \in 1..(Len(pixels) + 1)
                 PROVE  /\ pixels'[n] \in 1..Len(file) /\ pixels'[n] \notin Held'
                        /\ BelongsTo(chain, file[pixels'[n]], event')
                        /\ \A m \in 1..(Len(pixels) + 1) : pixels'[m] = pixels'[n] => m = n
                        /\ \A x \in stored : x[1] # pixels'[n]
      BY <1>1, <2>2, <3>1, <3>2 DEF CollectedInv
    <3>6. CASE n = Len(pixels) + 1
      BY <2>2, <2>3, <3>1, <3>2, <3>3, <3>4, <3>5, <3>6
    <3>7. CASE n \in 1..Len(pixels)
      <4>1. /\ pixels[n] \in 1..Len(file) /\ event # NoEvent
            /\ BelongsTo(chain, file[pixels[n]], event)
            /\ \A m \in 1..Len(pixels) : pixels[m] = pixels[n] => m = n
            /\ \A x \in stored : x[1] # pixels[n]
        BY <2>2, <3>2, <3>7 DEF StoreInv, CollectedInv
      <4>2. BelongsTo(chain, file[pixels[n]], event')
        BY <1>2, <4>1
      <4>3. ASSUME NEW m \in 1..(Len(pixels) + 1), pixels'[m] = pixels'[n]
            PROVE  m = n
        <5>1. m # Len(pixels) + 1
          BY <3>1, <3>2, <3>3, <3>7, <4>3
        <5>2. m \in 1..Len(pixels)
          BY <3>1, <5>1
        <5> QED
          BY <3>1, <3>7, <4>1, <4>3, <5>2
      <4> QED
        BY <3>1, <3>2, <3>3, <3>7, <4>1, <4>2, <4>3
    <3> QED
      BY <3>1, <3>6, <3>7
  <2> QED
    BY <2>4, <2>5 DEF StoreInv
<1>8. CASE Puts
  <2>1. /\ at \in Collecting /\ at' = "return" /\ Held' \subseteq Held
        /\ UNCHANGED <<file, event, pixels>>
        /\ stored' = stored \cup {<<pixels[n], Current, n>> : n \in DOMAIN pixels}
    BY <1>8 DEF Puts, PutData
  <2>2. CollectedInv'
    BY <1>1, <1>5, <2>1 DEF CollectedInv, Collecting
  <2>3. ASSUME NEW n \in DOMAIN pixels
        PROVE  /\ pixels[n] \in 1..Len(file) /\ pixels[n] \notin Held'
               /\ event # NoEvent /\ BelongsTo(chain, file[pixels[n]], event)
               /\ \A m \in DOMAIN pixels : pixels[m] = pixels[n] => m = n
               /\ \A x \in stored : x[1] # pixels[n]
    BY <2>1, <2>3 DEF StoreInv, CollectedInv
  <2>4. ASSUME NEW x \in stored', x \notin stored
        PROVE  \E n \in DOMAIN pixels :
                    x = <<pixels[n], Current, n>> /\ x[1] = pixels[n] /\ x[2] = Current
    BY <2>1, <2>4
  <2>5. ASSUME NEW x \in stored'
        PROVE  x[1] \in 1..Len(file) /\ x[1] \notin Held' /\ InItsEvent(x)'
    <3>1. CASE x \in stored
      BY <1>3, <2>1, <3>1 DEF StoreInv, StoredInv
    <3>2. CASE x \notin stored
      <4>1. PICK n \in DOMAIN pixels : x[1] = pixels[n] /\ x[2] = Current
        BY <2>4, <3>2
      <4> QED
        BY <1>1, <2>1, <2>3, <4>1 DEF InItsEvent
    <3> QED
      BY <3>1, <3>2
  <2>6. ASSUME NEW x \in stored', NEW y \in stored', x[1] = y[1]
        PROVE  x = y
    <3>1. CASE x \in stored /\ y \in stored
      BY <2>6, <3>1 DEF StoreInv, StoredInv
    <3>2. CASE x \notin stored /\ y \notin stored
      <4>1. PICK n \in DOMAIN pixels : x = <<pixels[n], Current, n>> /\ x[1] = pixels[n]
        BY <2>4, <3>2
      <4>2. PICK m \in DOMAIN pixels : y = <<pixels[m], Current, m>> /\ y[1] = pixels[m]
        BY <2>4, <3>2
      <4>3. m = n
        BY <2>3, <2>6, <4>1, <4>2
      <4> QED
        BY <4>1, <4>2, <4>3
    <3>3. CASE x \in stored /\ y \notin stored
      BY <2>3, <2>4, <2>6, <3>3
    <3>4. CASE x \notin stored /\ y \in stored
      BY <2>3, <2>4, <2>6, <3>4
    <3> QED
      BY <3>1, <3>2, <3>3, <3>4
  <2>7. StoredInv'
    BY <2>1, <2>5, <2>6 DEF StoredInv
  <2> QED
    BY <2>2, <2>7 DEF StoreInv
<1>9. CASE \E i \in Held : PutsAtOnce(i)
  <2>1. PICK i \in Held : PutsAtOnce(i)
    BY <1>9
  <2>2. /\ chain.loader = "Timestamp" /\ Held' \subseteq Held \ {i}
        /\ UNCHANGED <<file, pixels>>
        /\ event' # NoEvent /\ BelongsTo(chain, file[i], event')
        /\ stored' = stored \cup {<<i, Current, 1>>}
    BY <2>1 DEF PutsAtOnce, PutData
  <2>3. CollectedInv'
    BY <1>1, <1>5, <2>2 DEF CollectedInv
  <2>4. i \in 1..Len(file) /\ i \notin Held' /\ \A x \in stored : x[1] # i
    BY <1>4, <2>1, <2>2 DEF StoreInv, StoredInv
  <2>5. ASSUME NEW x \in stored'
        PROVE  x[1] \in 1..Len(file) /\ x[1] \notin Held' /\ InItsEvent(x)'
    <3>1. CASE x \in stored
      BY <1>3, <2>2, <3>1 DEF StoreInv, StoredInv
    <3>2. CASE x = <<i, Current, 1>>
      BY <1>1, <2>2, <2>4, <3>2 DEF InItsEvent
    <3> QED
      BY <2>2, <3>1, <3>2
  <2>6. \A x, y \in stored' : x[1] = y[1] => x = y
    BY <2>2, <2>4 DEF StoreInv, StoredInv
  <2>7. StoredInv'
    BY <2>2, <2>5, <2>6 DEF StoredInv
  <2> QED
    BY <2>3, <2>7 DEF StoreInv
<1> QED
  BY <1>6, <1>7, <1>8, <1>9 DEF Moves

-----------------------------------------------------------------------------
(* The loaders without a FIFO *)

\* Only a file of the EUDAQ2 loader has frames.
KindsInv ==
    chain.loader # "EUDAQ2" =>
        \A i \in 1..Len(file) : file[i].kind \in {"pixel", "signal"}

\* Two of the loaders stop at once without an event.
WindowInv ==
    chain.loader \in {"Timepix3", "ATLASpix"} /\ at \in Collecting => event # NoEvent

\* What a step of a loader is shown to do.
LoaderMoves ==
    FileGrows /\ PlacesInv' /\ KindsInv' /\ WindowInv' /\ EventGrows /\ Moves

\* A step that reads nothing.
LEMMA NothingRead ==
    ASSUME TypeInv, PlacesInv, KindsInv, chain.loader # "EUDAQ2",
           UNCHANGED <<setup, file, eudaqVars>>,
           sorted' \subseteq sorted, signals' \subseteq signals
    PROVE  /\ FileGrows /\ PlacesInv' /\ KindsInv' /\ Held' \subseteq Held
           /\ \A i \in sorted : sorted' = sorted \ {i} => Held' \subseteq Held \ {i}
           /\ \A i \in signals : signals' = signals \ {i} => Held' \subseteq Held \ {i}
           /\ sorted \cup signals \subseteq Held
<1>1. /\ chain' = chain /\ Len(file) \in Nat
      /\ events_decoded_ = << >> /\ event_ = 0
      /\ events_decoded_' = << >> /\ event_' = 0
      /\ sorted \cap signals = {}
  BY DEF TypeInv, FileOK, PlacesInv, eudaqVars, chain
<1>2. Held = sorted \cup signals /\ Held' = sorted' \cup signals'
  BY <1>1 DEF Held, Fifo
<1>3. PlacesInv'
  BY <1>1 DEF PlacesInv, TypeInv, FileOK
<1>4. KindsInv'
  BY <1>1 DEF KindsInv
<1> QED
  BY <1>1, <1>2, <1>3, <1>4 DEF FileGrows

\* A step that reads one measurement into a buffer.
LEMMA OneRead ==
    ASSUME TypeInv, PlacesInv, KindsInv, chain.loader # "EUDAQ2",
           UNCHANGED <<setup, eudaqVars>>,
           NEW m \in chain.data, Word(m),
           \/ sorted' = sorted \cup {Newest} /\ UNCHANGED signals
           \/ /\ signals' = signals \cup {Newest} /\ UNCHANGED sorted
              /\ chain.loader = "Timepix3"
    PROVE  /\ FileGrows /\ PlacesInv' /\ KindsInv'
           /\ Held' \subseteq Held \cup ((Len(file) + 1)..Len(file'))
<1>1. /\ chain' = chain /\ Len(file) \in Nat
      /\ events_decoded_ = << >> /\ event_ = 0
      /\ events_decoded_' = << >> /\ event_' = 0
      /\ sorted \cap signals = {} /\ signals \subseteq 1..Len(file)
      /\ sorted \subseteq 1..Len(file)
      /\ chain.loader # "Timepix3" => signals = {}
  BY DEF TypeInv, FileOK, PlacesInv, eudaqVars, chain
<1>2. Held = sorted \cup signals /\ Held' = sorted' \cup signals'
  BY <1>1 DEF Held, Fifo
<1>3. /\ m \in Measurements /\ file' = Append(file, m) /\ file \in Seq(Measurements)
  BY ChainType DEF Word, TypeInv, LoopOK, FileOK
<1>4. /\ Len(file') = Len(file) + 1
      /\ \A i \in 1..Len(file) : file'[i] = file[i]
      /\ file'[Len(file) + 1] = m
  BY <1>3, AppendProperties
<1>5. Newest = Len(file) + 1
  BY <1>4 DEF Newest
<1>6. FileGrows
  BY <1>1, <1>4 DEF FileGrows
<1>7. PlacesInv'
  <2>1. signals' \subseteq 1..Len(file') /\ sorted' \cap signals' = {}
    <3>1. Newest \notin sorted /\ Newest \notin signals /\ Newest \in 1..Len(file')
      BY <1>1, <1>4, <1>5
    <3>2. 1..Len(file) \subseteq 1..Len(file')
      BY <1>1, <1>4
    <3> QED
      BY <1>1, <3>1, <3>2
  <2>2. event_' \notin sorted'
    BY <1>1, <1>5
  <2> QED
    BY <1>1, <2>1, <2>2 DEF PlacesInv
<1>8. KindsInv'
  <2>1. m.kind \in {"pixel", "signal"}
    BY EventDataAssumption DEF TypeInv, LoopOK, chain
  <2> QED
    BY <1>1, <1>4, <2>1 DEF KindsInv
<1> QED
  BY <1>1, <1>2, <1>4, <1>5, <1>6, <1>7, <1>8

\* A measurement at a time in the event belongs to it.
LEMMA HitBelongs ==
    ASSUME TypeInv, KindsInv, chain.loader # "EUDAQ2", NEW i \in 1..Len(file),
           NEW e \in EventType, e.start <= file[i].begin, file[i].begin <= e.end
    PROVE  BelongsTo(chain, file[i], e)
BY DEF KindsInv, BelongsTo

\* The time of a measurement in a buffer, and the position of a time.
LEMMA PositionOfTime ==
    ASSUME TypeInv, event # NoEvent
    PROVE  /\ event \in EventType /\ event.start \in Int /\ event.end \in Int
           /\ \A i \in 1..Len(file) : file[i].begin \in Int
           /\ \A i \in 1..Len(file) :
                getTimestampPosition(event, file[i].begin) = "DURING" =>
                    event.start <= file[i].begin /\ file[i].begin <= event.end
<1>1. event \in EventType /\ event.start \in Int /\ event.end \in Int
  BY DEF TypeInv, WindowOK, EventType
<1>2. \A i \in 1..Len(file) : file[i].begin \in Int
  <2>1. \A i \in 1..Len(file) : file[i] \in Measurements
    BY DEF TypeInv, FileOK
  <2> QED
    BY <2>1 DEF Measurements
<1> QED
  BY <1>1, <1>2 DEF getTimestampPosition

\* A trigger added to an event leaves the others in it.
LEMMA AddTriggerGrows ==
    ASSUME NEW e \in EventType, NEW id \in Int, NEW time \in Int
    PROVE  TriggerIDs(e) \subseteq TriggerIDs(AddTrigger(e, id, time))
BY DEF AddTrigger, TriggerIDs, EventType

\* A trigger signal is stored when it leaves the buffer.
LEMMA TimestampMoves ==
    ASSUME TypeInv, PlacesInv, KindsInv, WindowInv, CollectedInv, TimestampStep,
           UNCHANGED loaderVars
    PROVE  LoaderMoves
<1> USE DEF LoaderMoves, Moves, Collecting, Goto, Return, historyVars
<1>1. /\ chain.loader = "Timestamp" /\ chain.loader # "EUDAQ2" /\ pixels = << >>
      /\ UNCHANGED <<setup, eudaqVars, signals>>
  BY DEF TimestampStep, CollectedInv, loaderVars
<1>0. WindowInv'
  BY <1>1 DEF WindowInv, chain
<1>2. UNCHANGED event => EventGrows
  BY DEF EventGrows
<1>3. UNCHANGED <<file, sorted, pixels, stored>> /\ EventGrows => LoaderMoves
  BY <1>0, <1>1, NothingRead DEF Keeps
<1>4. CASE TimestampRun
  BY <1>2, <1>3, <1>4 DEF TimestampRun, inputVars, collectVars
<1>5. CASE TimestampWord
  <2>1. CASE (NoWord \/ OtherWord) /\ UNCHANGED sorted
    BY <1>2, <1>3, <1>5, <2>1 DEF TimestampWord, NoWord, OtherWord, collectVars
  <2>2. CASE \E m \in chain.data : Word(m) /\ sorted' = sorted \cup {Newest}
    <3>1. /\ FileGrows /\ PlacesInv' /\ KindsInv'
          /\ Held' \subseteq Held \cup ((Len(file) + 1)..Len(file'))
      BY <1>1, <2>2, OneRead
    <3> QED
      BY <1>0, <1>1, <1>2, <1>5, <3>1 DEF TimestampWord, collectVars, Keeps
  <2> QED
    BY <1>5, <2>1, <2>2 DEF TimestampWord
<1>6. CASE TimestampDefine
  BY <1>3, <1>6 DEF TimestampDefine, inputVars, collectVars, EventGrows
<1>7. CASE TimestampAfter
  BY <1>2, <1>3, <1>7 DEF TimestampAfter, inputVars, collectVars
<1>8. CASE TimestampBefore
  <2>1. /\ UNCHANGED <<file, event, pixels, stored>> /\ sorted' \subseteq sorted
    BY <1>8 DEF TimestampBefore, Release
  <2> QED
    BY <1>0, <1>1, <1>2, <2>1, NothingRead DEF Keeps
<1>9. CASE TimestampDuring
  <2>1. PICK i \in sorted :
            /\ FirstSignal(i, "DURING") /\ Release(i)
            /\ event' = AddTrigger(event, file[i].trigger, file[i].begin)
            /\ PutData(<<i>>)
    BY <1>9 DEF TimestampDuring
  <2>2. /\ UNCHANGED <<file, pixels>> /\ sorted' = sorted \ {i}
    BY <1>9, <2>1 DEF TimestampDuring, Release
  <2>3. /\ FileGrows /\ PlacesInv' /\ KindsInv' /\ i \in Held
        /\ Held' \subseteq Held \ {i}
    BY <1>1, <2>2, NothingRead
  <2>4. i \in 1..Len(file) /\ event # NoEvent
    BY <2>1 DEF TypeInv, FileOK, FirstSignal
  <2>5. /\ event \in EventType
        /\ event.start <= file[i].begin /\ file[i].begin <= event.end
    BY <2>1, <2>4, PositionOfTime DEF FirstSignal
  <2>6. file[i].trigger \in Int /\ file[i].begin \in Int
    <3>1. file[i] \in Measurements
      BY <2>4 DEF TypeInv, FileOK
    <3> QED
      BY <3>1 DEF Measurements
  <2>7. /\ event' \in EventType /\ event'.start = event.start /\ event'.end = event.end
        /\ TriggerIDs(event) \subseteq TriggerIDs(event')
    BY <2>1, <2>5, <2>6, AddTriggerType, AddTriggerGrows
  <2>8. event' # NoEvent /\ EventGrows
    BY <2>7, EventDataAssumption DEF EventGrows
  <2>9. BelongsTo(chain, file[i], event')
    BY <1>1, <2>4, <2>5, <2>7, HitBelongs
  <2>10. PutsAtOnce(i)
    BY <1>1, <2>1, <2>2, <2>3, <2>8, <2>9 DEF PutsAtOnce
  <2> QED
    BY <1>0, <2>3, <2>8, <2>10
<1>10. CASE TimestampEmpty
  BY <1>2, <1>3, <1>10 DEF TimestampEmpty, inputVars, collectVars
<1> QED
  BY <1>4, <1>5, <1>6, <1>7, <1>8, <1>9, <1>10 DEF TimestampStep

\* Pixels and signals are collected in turn, then stored together.
LEMMA Timepix3Moves ==
    ASSUME TypeInv, PlacesInv, KindsInv, WindowInv, CollectedInv, Timepix3Step,
           UNCHANGED eudaqVars
    PROVE  LoaderMoves
<1> USE DEF LoaderMoves, Moves, Collecting, Return, historyVars
<1>1. /\ chain.loader = "Timepix3" /\ chain.loader # "EUDAQ2"
      /\ chain.loader # "Timestamp" /\ UNCHANGED <<setup, eudaqVars>>
  BY DEF Timepix3Step
<1>2. UNCHANGED event => EventGrows
  BY DEF EventGrows
<1>3. UNCHANGED event /\ (at' \in Collecting => at \in Collecting) => WindowInv'
  BY <1>1 DEF WindowInv, chain
<1>4. CASE Timepix3Run
  <2>1. WindowInv'
    BY <1>4 DEF Timepix3Run, WindowInv
  <2> QED
    BY <1>1, <1>2, <1>4, <2>1, NothingRead DEF Timepix3Run, inputVars, Keeps
<1>5. CASE Timepix3Word
  <2>1. UNCHANGED <<event, at, pixels, stored>>
    BY <1>5 DEF Timepix3Word, collectVars
  <2>2. CASE (NoWord \/ OtherWord) /\ UNCHANGED <<sorted, signals>>
    BY <1>1, <1>2, <1>3, <2>1, <2>2, NothingRead DEF NoWord, OtherWord, Keeps
  <2>3. CASE \E m \in chain.data :
                /\ Word(m)
                /\ \/ m.kind = "pixel" /\ sorted' = sorted \cup {Newest} /\ UNCHANGED signals
                   \/ m.kind = "signal" /\ signals' = signals \cup {Newest} /\ UNCHANGED sorted
    <3>1. /\ FileGrows /\ PlacesInv' /\ KindsInv'
          /\ Held' \subseteq Held \cup ((Len(file) + 1)..Len(file'))
      BY <1>1, <2>3, OneRead
    <3> QED
      BY <1>2, <1>3, <2>1, <3>1 DEF Keeps
  <2> QED
    BY <1>5, <2>2, <2>3 DEF Timepix3Word
<1>6. CASE PixelBefore \/ SignalBefore
  <2>1. /\ UNCHANGED <<file, event, at, pixels, stored>>
        /\ sorted' \subseteq sorted /\ signals' \subseteq signals
    BY <1>6 DEF PixelBefore, SignalBefore, Release, inputVars
  <2> QED
    BY <1>1, <1>2, <1>3, <2>1, NothingRead DEF Keeps
<1>7. CASE PixelDuring \/ SignalDuring
  <2>1. PICK i \in sorted \cup signals :
            /\ getTimestampPosition(event, file[i].begin) = "DURING"
            /\ pixels' = Append(pixels, i)
            /\ \/ i \in sorted /\ sorted' = sorted \ {i} /\ UNCHANGED signals
               \/ i \in signals /\ signals' = signals \ {i} /\ UNCHANGED sorted
    BY <1>7 DEF PixelDuring, SignalDuring, TopAt, Release, inputVars
  <2>2. /\ UNCHANGED <<file, event, at, stored>> /\ at \in {"fill", "signals"}
    BY <1>7 DEF PixelDuring, SignalDuring, Release, inputVars
  <2>3. /\ FileGrows /\ PlacesInv' /\ KindsInv' /\ i \in Held
        /\ Held' \subseteq Held \ {i}
    BY <1>1, <2>1, <2>2, NothingRead
  <2>4. i \in 1..Len(file)
    BY DEF TypeInv, FileOK, PlacesInv
  <2>5. event # NoEvent
    BY <1>1, <2>2 DEF WindowInv
  <2>6. BelongsTo(chain, file[i], event)
    BY <1>1, <2>1, <2>4, <2>5, PositionOfTime, HitBelongs
  <2>7. Collects(i)
    BY <1>1, <2>1, <2>2, <2>3, <2>5, <2>6 DEF Collects
  <2> QED
    BY <1>2, <1>3, <2>2, <2>3, <2>7
<1>8. CASE PixelStop
  BY <1>1, <1>2, <1>3, <1>8, NothingRead DEF PixelStop, inputVars, collectVars, Keeps
<1>9. CASE SignalStop
  <2>1. /\ at = "signals" /\ at' = "return" /\ PutData(pixels)
        /\ UNCHANGED <<file, sorted, signals, event, pixels>>
    BY <1>9 DEF SignalStop, inputVars, collectVars
  <2> QED
    BY <1>1, <1>2, <1>3, <2>1, NothingRead DEF Puts
<1> QED
  BY <1>4, <1>5, <1>6, <1>7, <1>8, <1>9 DEF Timepix3Step

\* Pixels are collected one by one, and stored at the end of the loop.
LEMMA ATLASpixMoves ==
    ASSUME TypeInv, PlacesInv, KindsInv, WindowInv, CollectedInv, ATLASpixStep,
           UNCHANGED <<eudaqVars, signals>>
    PROVE  LoaderMoves
<1> USE DEF LoaderMoves, Moves, Collecting, Return, historyVars
<1>1. /\ chain.loader = "ATLASpix" /\ chain.loader # "EUDAQ2"
      /\ chain.loader # "Timestamp" /\ UNCHANGED <<setup, eudaqVars, signals>>
  BY DEF ATLASpixStep
<1>2. UNCHANGED event => EventGrows
  BY DEF EventGrows
<1>3. UNCHANGED event /\ (at' \in Collecting => at \in Collecting) => WindowInv'
  BY <1>1 DEF WindowInv, chain
<1>4. CASE ATLASpixRun
  <2>1. WindowInv'
    BY <1>4 DEF ATLASpixRun, WindowInv
  <2> QED
    BY <1>1, <1>2, <1>4, <2>1, NothingRead DEF ATLASpixRun, inputVars, Keeps
<1>5. CASE ATLASpixLoop \/ ATLASpixTopOfNothing \/ ATLASpixAfter
  <2>1. /\ at \in Collecting
        /\ UNCHANGED <<file, sorted, event, pixels, stored>>
    BY <1>5 DEF ATLASpixLoop, ATLASpixTopOfNothing, ATLASpixAfter, TopPixel, inputVars, collectVars
  <2> QED
    BY <1>1, <1>2, <1>3, <2>1, NothingRead DEF Keeps
<1>6. CASE ATLASpixWord
  <2>1. UNCHANGED <<event, at, pixels, stored>>
    BY <1>6 DEF ATLASpixWord, collectVars
  <2>2. CASE UNCHANGED <<file, sorted>>
    BY <1>1, <1>2, <1>3, <2>1, <2>2, NothingRead DEF Keeps
  <2>3. CASE \E m \in chain.data : Word(m) /\ sorted' = sorted \cup {Newest}
    <3>1. /\ FileGrows /\ PlacesInv' /\ KindsInv'
          /\ Held' \subseteq Held \cup ((Len(file) + 1)..Len(file'))
      BY <1>1, <2>3, OneRead
    <3> QED
      BY <1>2, <1>3, <2>1, <3>1 DEF Keeps
  <2> QED
    BY <1>6, <2>2, <2>3 DEF ATLASpixWord, NoWord, OtherWord
<1>7. CASE ATLASpixBefore
  <2>1. /\ UNCHANGED <<file, event, pixels, stored>> /\ at \in Collecting
        /\ sorted' \subseteq sorted
    BY <1>7 DEF ATLASpixBefore, TopPixel, Release
  <2> QED
    BY <1>1, <1>2, <1>3, <2>1, NothingRead DEF Keeps
<1>8. CASE ATLASpixDuring
  <2>1. PICK i \in sorted :
            /\ file[i].begin <= event.end /\ file[i].begin >= event.start
            /\ sorted' = sorted \ {i} /\ pixels' = Append(pixels, i)
    BY <1>8 DEF ATLASpixDuring, TopPixel, Release
  <2>2. UNCHANGED <<file, event, stored>> /\ at \in Collecting
    BY <1>8 DEF ATLASpixDuring, TopPixel
  <2>3. /\ FileGrows /\ PlacesInv' /\ KindsInv' /\ i \in Held
        /\ Held' \subseteq Held \ {i}
    BY <1>1, <2>1, <2>2, NothingRead
  <2>4. i \in 1..Len(file) /\ event # NoEvent
    BY <1>1, <2>2 DEF TypeInv, FileOK, WindowInv
  <2>5. event.start <= file[i].begin
    BY <2>1, <2>4, PositionOfTime
  <2>6. BelongsTo(chain, file[i], event)
    BY <1>1, <2>1, <2>4, <2>5, PositionOfTime, HitBelongs
  <2>7. Collects(i)
    BY <1>1, <2>1, <2>2, <2>3, <2>4, <2>6 DEF Collects
  <2> QED
    BY <1>2, <1>3, <2>2, <2>3, <2>7
<1>9. CASE ATLASpixPut
  <2>1. /\ at = "put" /\ at' = "return" /\ PutData(pixels)
        /\ UNCHANGED <<file, sorted, event, pixels>>
    BY <1>9 DEF ATLASpixPut, inputVars, collectVars
  <2> QED
    BY <1>1, <1>2, <1>3, <2>1, NothingRead DEF Puts
<1> QED
  BY <1>4, <1>5, <1>6, <1>7, <1>8, <1>9 DEF ATLASpixStep

\* The hits of one detector after the other are collected, then stored together.
LEMMA MuPixMoves ==
    ASSUME TypeInv, PlacesInv, KindsInv, WindowInv, CollectedInv, MuPixStep,
           UNCHANGED <<eudaqVars, signals>>
    PROVE  LoaderMoves
<1> USE DEF LoaderMoves, Moves, Collecting, Return, historyVars
<1>1. /\ chain.loader = "MuPix" /\ chain.loader # "EUDAQ2"
      /\ chain.loader # "Timestamp" /\ UNCHANGED <<setup, eudaqVars, signals>>
  BY DEF MuPixStep
<1>2. UNCHANGED event => EventGrows
  BY DEF EventGrows
<1>3. WindowInv'
  BY <1>1 DEF WindowInv, chain
<1>4. CASE MuPixRun
  BY <1>1, <1>2, <1>3, <1>4, NothingRead DEF MuPixRun, inputVars, Keeps
<1>5. CASE MuPixWord
  <2>1. UNCHANGED <<event, pixels, stored>> /\ at \in Collecting
    BY <1>5 DEF MuPixWord, collectVars
  <2>2. CASE UNCHANGED <<file, sorted>>
    BY <1>1, <1>2, <1>3, <2>1, <2>2, NothingRead DEF Keeps
  <2>3. CASE \E m \in chain.data : Word(m) /\ sorted' = sorted \cup {Newest}
    <3>1. /\ FileGrows /\ PlacesInv' /\ KindsInv'
          /\ Held' \subseteq Held \cup ((Len(file) + 1)..Len(file'))
      BY <1>1, <2>3, OneRead
    <3> QED
      BY <1>2, <1>3, <2>1, <3>1 DEF Keeps
  <2> QED
    BY <1>5, <2>2, <2>3 DEF MuPixWord, NoWord, OtherWord
<1>6. CASE MuPixDefine
  <2>1. /\ at \in Collecting /\ event = NoEvent
        /\ UNCHANGED <<file, sorted, pixels, stored>>
    BY <1>6 DEF MuPixDefine, inputVars, collectVars
  <2> QED
    BY <1>1, <1>3, <2>1, NothingRead DEF Keeps, EventGrows
<1>7. CASE MuPixEmpty \/ MuPixLastTag
  <2>1. /\ at = "head" /\ at' = "return" /\ PutData(pixels)
        /\ UNCHANGED <<file, sorted, event, pixels>>
    BY <1>7 DEF MuPixEmpty, MuPixLastTag, MuPixOther, TopHit, inputVars, collectVars
  <2> QED
    BY <1>1, <1>2, <1>3, <2>1, NothingRead DEF Puts
<1>8. CASE MuPixBefore
  <2>1. /\ UNCHANGED <<file, event, pixels, stored>> /\ at \in Collecting
        /\ sorted' \subseteq sorted
    BY <1>8 DEF MuPixBefore, TopHit, Release
  <2> QED
    BY <1>1, <1>2, <1>3, <2>1, NothingRead DEF Keeps
<1>9. CASE MuPixDuring
  <2>1. PICK i \in sorted :
            /\ event # NoEvent /\ Within(file[i])
            /\ sorted' = sorted \ {i} /\ pixels' = Append(pixels, i)
    BY <1>9 DEF MuPixDuring, TopHit, Release
  <2>2. UNCHANGED <<file, event, stored>> /\ at \in Collecting
    BY <1>9 DEF MuPixDuring, TopHit
  <2>3. /\ FileGrows /\ PlacesInv' /\ KindsInv' /\ i \in Held
        /\ Held' \subseteq Held \ {i}
    BY <1>1, <2>1, <2>2, NothingRead
  <2>4. i \in 1..Len(file)
    BY DEF TypeInv, FileOK
  <2>5. event.start <= file[i].begin /\ file[i].begin <= event.end
    BY <2>1, <2>4, PositionOfTime DEF Within
  <2>6. BelongsTo(chain, file[i], event)
    BY <1>1, <2>1, <2>4, <2>5, PositionOfTime, HitBelongs
  <2>7. Collects(i)
    BY <1>1, <2>1, <2>2, <2>3, <2>6 DEF Collects
  <2> QED
    BY <1>2, <1>3, <2>2, <2>3, <2>7
<1>10. CASE MuPixNextTag
  BY <1>1, <1>2, <1>3, <1>10, NothingRead
     DEF MuPixNextTag, MuPixOther, TopHit, inputVars, collectVars, Keeps
<1> QED
  BY <1>4, <1>5, <1>6, <1>7, <1>8, <1>9, <1>10 DEF MuPixStep

-----------------------------------------------------------------------------
(* The loader of EUDAQ2 files *)

\* The frame at the head of the FIFO, and those behind it.
LEMMA HeadOfFifo ==
    ASSUME TypeInv, PlacesInv, events_decoded_ # << >>
    PROVE  LET h == Head(events_decoded_)
               t == Tail(events_decoded_)
           IN  /\ h \in Fifo /\ h \in 1..Len(file)
               /\ \A i \in sorted \cup {event_} : i < h
               /\ DOMAIN t = 1..(Len(events_decoded_) - 1)
               /\ \A n \in DOMAIN t :
                    /\ t[n] = events_decoded_[n + 1] /\ n + 1 \in DOMAIN events_decoded_
                    /\ t[n] \in Fifo /\ h < t[n]
                    /\ \A i \in sorted \cup {event_} : i < t[n]
                    /\ \A m \in 1..(n - 1) : t[m] < t[n]
<1> DEFINE s == events_decoded_
           h == Head(s)
           t == Tail(s)
<1>1. /\ s \in Seq(Nat) /\ Len(s) \in Nat \ {0} /\ DOMAIN s = 1..Len(s)
      /\ \A n \in 1..Len(s) : s[n] \in 1..Len(file)
      /\ h = s[1] /\ t \in Seq(Nat) /\ Len(t) = Len(s) - 1
      /\ \A n \in 1..Len(t) : t[n] = s[n + 1]
  BY HeadTailProperties DEF TypeInv, EudaqOK
<1>2. /\ \A n \in 1..Len(s) : \A i \in sorted \cup {event_} : i < s[n]
      /\ \A n \in 1..Len(s) : \A m \in 1..(n - 1) : s[m] < s[n]
  BY <1>1 DEF PlacesInv
<1>3. 1 \in 1..Len(s) /\ \A n \in 1..Len(t) : n + 1 \in 1..Len(s) /\ 1 \in 1..((n + 1) - 1)
  BY <1>1
<1>4. \A n \in 1..Len(s) : s[n] \in Fifo
  BY <1>1 DEF Fifo
<1>5. h \in Fifo /\ h \in 1..Len(file) /\ \A i \in sorted \cup {event_} : i < h
  BY <1>1, <1>2, <1>3, <1>4
<1>6. DOMAIN t = 1..Len(t)
  BY <1>1
<1>7. ASSUME NEW n \in 1..Len(t)
      PROVE  /\ t[n] = s[n + 1] /\ n + 1 \in DOMAIN s /\ t[n] \in Fifo /\ h < t[n]
             /\ \A i \in sorted \cup {event_} : i < t[n]
             /\ \A m \in 1..(n - 1) : t[m] < t[n]
  <2>1. t[n] = s[n + 1] /\ n + 1 \in 1..Len(s) /\ t[n] \in Fifo
    BY <1>1, <1>3, <1>4
  <2>2. h < t[n] /\ \A i \in sorted \cup {event_} : i < t[n]
    BY <1>1, <1>2, <1>3, <2>1
  <2>3. ASSUME NEW m \in 1..(n - 1) PROVE t[m] < t[n]
    <3>1. m \in 1..Len(t) /\ m + 1 \in 1..((n + 1) - 1)
      BY <1>1
    <3> QED
      BY <1>1, <1>2, <2>1, <3>1
  <2> QED
    BY <1>1, <2>1, <2>2, <2>3
<1> QED
  BY <1>1, <1>5, <1>6, <1>7

\* Frames decoded into an empty FIFO.
LEMMA DecodeMoves ==
    ASSUME TypeInv, PlacesInv, chain.loader = "EUDAQ2", events_decoded_ = << >>,
           UNCHANGED <<setup, sorted, signals, event_>>,
           \/ DecodeNothing
           \/ \E m \in chain.data : DecodeFrame(m)
           \/ \E m, n \in chain.data : DecodeBoth(m, n)
    PROVE  /\ FileGrows /\ PlacesInv'
           /\ Held' \subseteq Held \cup ((Len(file) + 1)..Len(file'))
           /\ \A n \in DOMAIN events_decoded_' :
                events_decoded_'[n] \in (Len(file) + 1)..Len(file')
<1>1. /\ file \in Seq(Measurements) /\ Len(file) \in Nat
      /\ sorted \subseteq 1..Len(file) /\ event_ \in 0..Len(file) /\ event_ \notin sorted
      /\ signals = {} /\ chain' = chain
  BY DEF TypeInv, FileOK, EudaqOK, PlacesInv, chain
<1> DEFINE NewInOrder ==
             \A n \in DOMAIN events_decoded_' :
                /\ events_decoded_'[n] \in (Len(file) + 1)..Len(file')
                /\ \A m \in 1..(n - 1) : events_decoded_'[m] < events_decoded_'[n]
<1>2. FileGrows /\ NewInOrder
  <2>1. CASE DecodeNothing
    BY <1>1, <2>1 DEF DecodeNothing, OtherWord, FileGrows
  <2>2. ASSUME NEW m \in chain.data, DecodeFrame(m)
        PROVE  FileGrows /\ NewInOrder
    <3>1. m \in Measurements /\ file' = Append(file, m)
      BY <2>2, ChainType DEF DecodeFrame, Word, TypeInv, LoopOK
    <3>2. Len(file') = Len(file) + 1 /\ \A i \in 1..Len(file) : file'[i] = file[i]
      BY <1>1, <3>1, AppendProperties
    <3>3. events_decoded_' = <<Len(file) + 1>>
      BY <2>2, <3>2 DEF DecodeFrame, Newest
    <3> QED
      BY <1>1, <3>2, <3>3 DEF FileGrows
  <2>3. ASSUME NEW m \in chain.data, NEW n \in chain.data, DecodeBoth(m, n)
        PROVE  FileGrows /\ NewInOrder
    <3>1. m \in Measurements /\ n \in Measurements
      BY ChainType DEF TypeInv, LoopOK
    <3>2. <<m, n>> \in Seq(Measurements) /\ Len(<<m, n>>) = 2 /\ file' = file \o <<m, n>>
      BY <2>3, <3>1 DEF DecodeBoth
    <3>3. Len(file') = Len(file) + 2 /\ \A i \in 1..Len(file) : file'[i] = file[i]
      BY <1>1, <3>2, ConcatProperties
    <3>4. events_decoded_' = <<Len(file) + 1, Len(file) + 2>>
      BY <1>1, <2>3, <3>3 DEF DecodeBoth, Newest
    <3>5. /\ DOMAIN events_decoded_' = {1, 2}
          /\ events_decoded_'[1] = Len(file) + 1 /\ events_decoded_'[2] = Len(file) + 2
      BY <3>4
    <3>6. NewInOrder
      BY <1>1, <3>3, <3>5
    <3> QED
      BY <1>1, <3>3, <3>6 DEF FileGrows
  <2> QED
    BY <2>1, <2>2, <2>3
<1>3. PlacesInv'
  <2>1. ASSUME NEW n \in DOMAIN events_decoded_'
        PROVE  /\ \A i \in sorted' : i < events_decoded_'[n]
               /\ event_' < events_decoded_'[n]
    BY <1>1, <1>2
  <2> QED
    BY <1>1, <1>2, <2>1 DEF PlacesInv
<1>4. Held' \subseteq Held \cup ((Len(file) + 1)..Len(file'))
  BY <1>2 DEF Held, Fifo
<1> QED
  BY <1>2, <1>3, <1>4

\* A frame that lies in the event belongs to it, and to the event it defines.
LEMMA FrameBelongs ==
    ASSUME TypeInv, event_ # 0, Frame.kind = "frame",
           Defines => WellFormed(FrameStart, FrameEnd), FramePosition = "DURING",
           event' = IF AddsTrigger THEN AddTrigger(EventOfFrame, Trigger, Frame.begin)
                    ELSE EventOfFrame
    PROVE  /\ event' # NoEvent /\ EventGrows
           /\ BelongsTo(chain, Frame, event')
<1>1. event_ \in 1..Len(file)
  BY DEF TypeInv, FileOK, EudaqOK
<1>2. /\ chain.shift_triggers \in Int
      /\ chain.adjust_event_times[1] \in Int /\ chain.adjust_event_times[2] \in Int
  BY ChainType DEF TypeInv, LoopOK
<1>3. Frame.begin \in Int /\ Frame.end \in Int /\ Frame.trigger \in Int
  <2>1. Frame \in Measurements
    BY <1>1 DEF TypeInv, FileOK, Frame
  <2> QED
    BY <2>1 DEF Measurements
<1>4. Trigger \in Int /\ FrameStart \in Int /\ FrameEnd \in Int
  BY <1>2, <1>3 DEF Trigger, FrameStart, FrameEnd
<1>5. CASE ByTrigger
  <2>1. ~Skipped /\ ~Defines /\ ~AddsTrigger
    BY <1>5 DEF Skipped, Defines, AddsTrigger
  <2>2. event' = event /\ event # NoEvent
    BY <1>5, <2>1 DEF EventOfFrame, FramePosition
  <2>3. getTriggerPosition(event, Trigger) = "DURING"
    BY <1>5, <2>1, <2>2 DEF FramePosition
  <2>4. Trigger \in TriggerIDs(event)
    BY <2>3 DEF getTriggerPosition
  <2>5. ~Timed(Frame) \/ chain.sync_by_trigger
    BY <1>5 DEF ByTrigger
  <2>6. BelongsTo(chain, Frame, event)
    BY <2>4, <2>5 DEF BelongsTo, Trigger
  <2> QED
    BY <2>2, <2>6 DEF EventGrows
<1>6. CASE ~ByTrigger
  <2>1. ~Skipped
    BY DEF FramePosition
  <2>2. getFramePosition(EventOfFrame, FrameStart, FrameEnd, chain.inclusive) = "DURING"
    BY <1>6, <2>1 DEF FramePosition
  <2>3. /\ EventOfFrame \in EventType /\ EventOfFrame.start <= EventOfFrame.end
        /\ event # NoEvent => EventOfFrame = event
    <3>1. CASE Defines
      BY <1>4, <3>1 DEF Defines, EventOfFrame, NewEvent, EventType, WellFormed
    <3>2. CASE ~Defines
      BY <1>6, <2>1, <3>2 DEF Defines, EventOfFrame, TypeInv, WindowOK
    <3> QED
      BY <3>1, <3>2
  <2>4. EventOfFrame.start \in Int /\ EventOfFrame.end \in Int
    BY <2>3 DEF EventType
  <2>5. /\ event' \in EventType
        /\ event'.start = EventOfFrame.start /\ event'.end = EventOfFrame.end
        /\ TriggerIDs(EventOfFrame) \subseteq TriggerIDs(event')
    BY <1>3, <1>4, <2>3, AddTriggerType, AddTriggerGrows
  <2>6. event' # NoEvent /\ EventGrows
    BY <2>3, <2>5, EventDataAssumption DEF EventGrows
  <2>7. /\ FrameStart <= FrameEnd
        /\ FrameStart <= event'.end /\ event'.start <= FrameEnd
        /\ ~chain.inclusive => event'.start <= FrameStart /\ FrameEnd <= event'.end
    <3>1. CASE chain.inclusive
      BY <1>4, <2>2, <2>4, <2>5, <3>1 DEF getFramePosition
    <3>2. CASE ~chain.inclusive
      BY <1>4, <2>2, <2>3, <2>4, <2>5, <3>2 DEF getFramePosition
    <3> QED
      BY <3>1, <3>2
  <2>8. \E x \in FrameStart..FrameEnd : event'.start <= x /\ x <= event'.end
    <3>1. CASE FrameStart <= event'.start
      <4>1. event'.start \in FrameStart..FrameEnd /\ event'.start <= event'.end
        BY <1>4, <2>3, <2>4, <2>5, <2>7, <3>1
      <4> QED
        BY <2>4, <2>5, <4>1
    <3>2. CASE event'.start <= FrameStart
      <4>1. FrameStart \in FrameStart..FrameEnd
        BY <1>4, <2>7
      <4> QED
        BY <2>7, <3>2, <4>1
    <3> QED
      BY <1>4, <2>4, <2>5, <3>1, <3>2
  <2>9. Timed(Frame) /\ ~chain.sync_by_trigger
    BY <1>6 DEF ByTrigger
  <2>10. BelongsTo(chain, Frame, event')
    BY <2>7, <2>8, <2>9 DEF BelongsTo, FrameStart, FrameEnd
  <2> QED
    BY <2>6, <2>10
<1> QED
  BY <1>5, <1>6

\* A frame passes from the FIFO through the buffer to the hand, one at a time, and
\* is collected from there.
LEMMA EUDAQ2Moves ==
    ASSUME TypeInv, PlacesInv, KindsInv, WindowInv, CollectedInv, EUDAQ2Step,
           UNCHANGED signals
    PROVE  LoaderMoves
<1> USE DEF LoaderMoves, Moves, Collecting, Goto, Return, historyVars
<1>1. /\ chain.loader = "EUDAQ2" /\ chain.loader # "Timestamp" /\ chain' = chain
      /\ signals = {} /\ signals' = {}
  BY DEF EUDAQ2Step, PlacesInv, chain
<1>2. /\ sorted \subseteq 1..Len(file) /\ Len(file) \in Nat
      /\ event_ \in 0..Len(file) /\ event_ \notin sorted
      /\ \A n \in DOMAIN events_decoded_ :
            /\ events_decoded_[n] \in 1..Len(file)
            /\ \A i \in sorted \cup {event_} : i < events_decoded_[n]
            /\ \A m \in 1..(n - 1) : events_decoded_[m] < events_decoded_[n]
  BY DEF TypeInv, FileOK, EudaqOK, PlacesInv
<1>3. /\ KindsInv' /\ WindowInv'
      /\ UNCHANGED file => FileGrows
      /\ UNCHANGED event => EventGrows
  BY <1>1, <1>2 DEF KindsInv, WindowInv, FileGrows, EventGrows
<1>4. /\ Held = sorted \cup Fifo \cup ({event_} \ {0})
      /\ Held' = sorted' \cup Fifo' \cup ({event_'} \ {0})
  BY <1>1 DEF Held
\* The frame in hand is let go of.
<1>5. ASSUME UNCHANGED <<file, sorted, events_decoded_>>, event_' \in {0, event_}
      PROVE  /\ PlacesInv' /\ Held' \subseteq Held
             /\ event_ # 0 => event_ \in Held
             /\ event_ # 0 /\ event_' = 0 => Held' \subseteq Held \ {event_}
  <2>1. Fifo' = Fifo /\ \A i \in Fifo : event_ < i
    BY <1>2, <1>5 DEF Fifo
  <2>2. event_ \notin Fifo
    BY <1>2, <2>1
  <2>3. PlacesInv'
    BY <1>1, <1>2, <1>5 DEF PlacesInv
  <2> QED
    BY <1>2, <1>4, <1>5, <2>1, <2>2, <2>3
<1>6. CASE EudaqRun
  BY <1>3, <1>5, <1>6 DEF EudaqRun, inputVars, eudaqVars, Keeps
<1>7. CASE EudaqDecode
  <2>1. /\ FileGrows /\ PlacesInv'
        /\ Held' \subseteq Held \cup ((Len(file) + 1)..Len(file'))
    BY <1>1, <1>7, DecodeMoves DEF EudaqDecode, EUDAQ2Step
  <2> QED
    BY <1>3, <1>7, <2>1 DEF EudaqDecode, collectVars, Keeps
<1>8. CASE EudaqEndOfFile
  BY <1>3, <1>5, <1>8 DEF EudaqEndOfFile, NoWord, eudaqVars, collectVars, Keeps
<1>9. CASE EudaqSort
  <2>1. /\ UNCHANGED <<file, event, event_, at, pixels, stored>>
        /\ events_decoded_ # << >> /\ sorted' = sorted \cup {Head(events_decoded_)}
        /\ events_decoded_' = Tail(events_decoded_)
    BY <1>9 DEF EudaqSort, Wanted, collectVars
  <2>2. PlacesInv'
    BY <1>1, <1>2, <2>1, HeadOfFifo DEF PlacesInv
  <2>3. Held' \subseteq Held
    BY <1>4, <2>1, HeadOfFifo DEF Fifo
  <2> QED
    BY <1>3, <2>1, <2>2, <2>3 DEF Keeps
<1>10. CASE EudaqNext
  <2>1. /\ UNCHANGED <<file, sorted, event, at, pixels, stored>> /\ event_ = 0
        /\ events_decoded_ # << >> /\ event_' = Head(events_decoded_)
        /\ events_decoded_' = Tail(events_decoded_)
    BY <1>10 DEF EudaqNext, Wanted, inputVars, collectVars
  <2>2. PlacesInv'
    BY <1>1, <1>2, <2>1, HeadOfFifo DEF PlacesInv
  <2>3. Held' \subseteq Held
    BY <1>4, <2>1, HeadOfFifo DEF Fifo
  <2> QED
    BY <1>3, <2>1, <2>2, <2>3 DEF Keeps
<1>11. CASE EudaqNextSorted
  <2>1. PICK i \in sorted :
            /\ UNCHANGED <<file, event, events_decoded_, at, pixels, stored>>
            /\ sorted' = sorted \ {i} /\ event_' = i /\ event_ = 0
    BY <1>11 DEF EudaqNextSorted, Earliest, Release
  <2>2. PlacesInv'
    BY <1>1, <1>2, <2>1 DEF PlacesInv
  <2>3. Held' \subseteq Held
    BY <1>4, <2>1 DEF Fifo
  <2> QED
    BY <1>3, <2>1, <2>2, <2>3 DEF Keeps
<1>12. CASE EudaqFilter \/ EudaqBefore
  <2>1. /\ UNCHANGED <<file, sorted, events_decoded_, event, at, pixels, stored>>
        /\ event_' = 0
    BY <1>12 DEF EudaqFilter, EudaqBefore, inputVars, collectVars
  <2> QED
    BY <1>3, <1>5, <2>1 DEF Keeps
<1>13. CASE EudaqThrow
  BY <1>3, <1>5, <1>13 DEF EudaqThrow, InHand, inputVars, eudaqVars, collectVars, Keeps
<1>14. CASE EudaqDuring
  <2>1. /\ UNCHANGED <<file, sorted, events_decoded_, at, stored>>
        /\ event_' = 0 /\ event_ # 0 /\ at = "fetch"
        /\ pixels' = Append(pixels, event_)
    BY <1>14 DEF EudaqDuring, Placed, InHand, inputVars
  <2>2. /\ event' # NoEvent /\ EventGrows
        /\ BelongsTo(chain, file[event_], event')
    BY <1>14, FrameBelongs DEF EudaqDuring, Placed, InHand, Frame
  <2>3. Collects(event_)
    BY <1>1, <1>5, <2>1, <2>2 DEF Collects
  <2> QED
    BY <1>3, <1>5, <2>1, <2>2, <2>3
<1>15. CASE EudaqAfter \/ EudaqUnknown
  <2>1. /\ UNCHANGED <<file, sorted, events_decoded_, event, pixels>>
        /\ event_' \in {0, event_} /\ at = "fetch" /\ EudaqStored
    BY <1>15 DEF EudaqAfter, EudaqUnknown, Placed, InHand, inputVars, eudaqVars, collectVars
  <2>2. CASE at' = "exit" /\ UNCHANGED stored
    BY <1>3, <1>5, <2>1, <2>2 DEF Keeps
  <2>3. CASE at' = "return" /\ PutData(pixels)
    <3>1. Puts
      BY <1>5, <2>1, <2>3 DEF Puts
    <3> QED
      BY <1>3, <1>5, <2>1, <3>1
  <2> QED
    BY <2>1, <2>2, <2>3 DEF EudaqStored
<1> QED
  BY <1>6, <1>7, <1>8, <1>9, <1>10, <1>11, <1>12, <1>13, <1>14, <1>15 DEF EUDAQ2Step

-----------------------------------------------------------------------------
(* Data is stored once, and with an event it belongs to *)

DataInv == PlacesInv /\ KindsInv /\ WindowInv /\ StoreInv

\* Whatever the loader.
LEMMA LoadMoves ==
    ASSUME TypeInv, DataInv, Load
    PROVE  LoaderMoves /\ DataInv' /\ TypeInv' /\ LoaderStep
<1> USE DEF DataInv, StoreInv
<1>1. LoaderMoves
  <2>1. CASE EUDAQ2Step /\ UNCHANGED <<signals, t0_seen_, tag>>
    BY <2>1, EUDAQ2Moves
  <2>2. CASE TimestampStep /\ UNCHANGED loaderVars
    BY <2>2, TimestampMoves
  <2>3. CASE Timepix3Step /\ UNCHANGED <<eudaqVars, t0_seen_, tag>>
    BY <2>3, Timepix3Moves
  <2>4. CASE ATLASpixStep /\ UNCHANGED <<eudaqVars, signals, tag>>
    BY <2>4, ATLASpixMoves
  <2>5. CASE MuPixStep /\ UNCHANGED <<eudaqVars, signals, t0_seen_>>
    BY <2>5, MuPixMoves
  <2> QED
    BY <2>1, <2>2, <2>3, <2>4, <2>5 DEF Load
<1>2. TypeInv' /\ LoaderStep
  BY LoadType
<1>3. Held' \subseteq 1..Len(file')
  <2>1. (TypeInv /\ PlacesInv)' => (Held \subseteq 1..Len(file))'
    BY HeldInFile, PTL
  <2> QED
    BY <1>1, <1>2, <2>1 DEF LoaderMoves
<1>4. StoreInv'
  BY <1>1, <1>2, <1>3, MovesKeep DEF LoaderMoves
<1> QED
  BY <1>1, <1>2, <1>4 DEF LoaderMoves

\* Between the loaders nothing moves; at its end the event takes its place among
\* the events of the run.
LEMMA OthersMove ==
    ASSUME TypeInv, DataInv, Define \/ BeginEvent \/ EndEvent \/ UNCHANGED vars
    PROVE  DataInv'
<1>1. UNCHANGED <<setup, file, sorted, signals, events_decoded_, event_, pixels, stored>>
  BY DEF Define, M26Step, BeginEvent, EndEvent, vars, dataVars, inputVars, collectVars,
         historyVars, loaderVars, eudaqVars
<1>2. chain' = chain /\ Held' = Held
  BY <1>1 DEF chain, Held, Fifo
<1>3. PlacesInv' /\ KindsInv'
  BY <1>1, <1>2 DEF DataInv, PlacesInv, KindsInv
<1>4. CASE UNCHANGED vars
  <2>1. UNCHANGED <<at, event, events>>
    BY <1>4 DEF vars, dataVars, historyVars
  <2> QED
    BY <1>1, <1>2, <1>3, <2>1
       DEF DataInv, WindowInv, StoreInv, CollectedInv, StoredInv, InItsEvent, Current
<1>5. CASE Define \/ BeginEvent
  <2>1. /\ at \in {"begin"} \cup Defining /\ at' \notin Collecting /\ UNCHANGED events
    <3>1. CASE BeginEvent
      BY <3>1 DEF BeginEvent, Collecting, historyVars
    <3>2. CASE MetronomeRun /\ UNCHANGED historyVars
      BY <3>2 DEF MetronomeRun, Goto, Collecting, Defining, historyVars
    <3>3. CASE M26Step
      BY <3>3 DEF M26Step, M26EndOfFile, M26FirstTLU, M26FirstM26, M26Advance, M26Refuse,
                  M26Accept, M26Throw, Match, Goto, Collecting, Defining, historyVars
    <3> QED
      BY <1>5, <3>1, <3>2, <3>3 DEF Define
  <2>2. CollectedInv' /\ WindowInv'
    BY <1>1, <1>2, <2>1 DEF DataInv, StoreInv, CollectedInv, WindowInv
  <2>3. StoredInv'
    BY <1>1, <1>2, <2>1 DEF DataInv, StoreInv, StoredInv, InItsEvent
  <2> QED
    BY <1>3, <2>2, <2>3 DEF DataInv, StoreInv
<1>6. CASE EndEvent
  <2>1. at = "return" /\ at' \notin Collecting /\ events' = Append(events, event)
    BY <1>6 DEF EndEvent, Collecting
  <2>2. CollectedInv' /\ WindowInv'
    BY <1>1, <1>2, <2>1 DEF DataInv, StoreInv, CollectedInv, WindowInv
  <2>3. /\ events \in Seq(EventType \cup {NoEvent}) /\ event \in EventType \cup {NoEvent}
        /\ DOMAIN events = 1..Len(events) /\ Len(events) \in Nat
    BY DEF TypeInv, LoopOK, WindowOK
  <2>4. /\ DOMAIN events' = 1..(Len(events) + 1)
        /\ \A n \in 1..Len(events) : events'[n] = events[n]
        /\ events'[Len(events) + 1] = event
    BY <2>1, <2>3, AppendProperties
  <2>5. ASSUME NEW x \in stored PROVE InItsEvent(x)'
    <3>1. InItsEvent(x)
      BY DEF DataInv, StoreInv, StoredInv
    <3> QED
      BY <1>1, <1>2, <2>3, <2>4, <3>1 DEF InItsEvent, Current
  <2>6. StoredInv'
    BY <1>1, <1>2, <2>5 DEF DataInv, StoreInv, StoredInv
  <2> QED
    BY <1>3, <2>2, <2>6 DEF DataInv, StoreInv
<1> QED
  BY <1>4, <1>5, <1>6

\* The data of a file, in every reachable state.
THEOREM DataInvariant == Spec => [](TypeInv /\ DataInv)
<1>1. Init => DataInv
  BY DEF Init, DataInit, EUDAQ2Init, Timepix3Init, DataInv, PlacesInv, KindsInv,
         WindowInv, Collecting, StoreInv, CollectedInv, StoredInv
<1>2. TypeInv /\ DataInv /\ [Next]_vars => DataInv'
  <2> SUFFICES ASSUME TypeInv, DataInv, [Next]_vars PROVE DataInv'
    OBVIOUS
  <2> QED
    BY LoadMoves, OthersMove DEF Next
<1> QED
  BY <1>1, <1>2, TypeInvariant, PTL DEF Spec

\* Data is stored once, and with an event it belongs to, for every loader and
\* every file, whichever module defines the event.
THEOREM StoredRightCorrect == Spec => []StoredRight
<1>1. TypeInv /\ DataInv => StoredRight
  <2> SUFFICES ASSUME TypeInv, DataInv, NEW x \in stored, NEW y \in stored
               PROVE  /\ BelongsTo(chain, file[x[1]], Events[x[2]])
                      /\ x[1] = y[1] => x = y
    BY DEF StoredRight
  <2>1. InItsEvent(x) /\ (x[1] = y[1] => x = y)
    BY DEF DataInv, StoreInv, StoredInv
  <2>2. /\ events \in Seq(EventType \cup {NoEvent}) /\ event \in EventType \cup {NoEvent}
        /\ DOMAIN events = 1..Len(events) /\ Len(events) \in Nat
    BY DEF TypeInv, LoopOK, WindowOK
  <2>3. CASE event = NoEvent
    BY <2>1, <2>3 DEF InItsEvent, Events
  <2>4. CASE event # NoEvent
    <3>1. Events = Append(events, event)
      BY <2>2, <2>4 DEF Events
    <3>2. /\ \A n \in 1..Len(events) : Events[n] = events[n]
          /\ Events[Len(events) + 1] = event
      BY <2>2, <3>1, AppendProperties
    <3> QED
      BY <2>1, <2>2, <3>2 DEF InItsEvent, Current
  <2> QED
    BY <2>1, <2>3, <2>4
<1> QED
  BY <1>1, DataInvariant, PTL

-----------------------------------------------------------------------------
(* Data leaves the sorted buffer in order.  f is a file, c a configuration. *)

Buffered == sorted \cup Fifo

Earlier(f, j) == {l \in 1..(j - 1) : f[l].begin > f[j].begin}

NotBefore(f, i) == {l \in 1..Len(f) : f[l].begin >= f[i].begin}

\* If j is earlier than i, it comes too late in the file for the buffer.
InOrder(c, f, i, j) ==
    f[j].begin < f[i].begin => Cardinality(Earlier(f, j)) >= c.buffer_depth

\* As much data as the buffer takes is not before i.
Full(c, f, i) == Cardinality(NotBefore(f, i)) >= c.buffer_depth

\* The inductive invariant behind ReleasedInOrder.  What was released is also in
\* order with what is still buffered and, as long as the file does not end, with
\* whatever is read.
ReleaseInv ==
    chain.loader # "MuPix" =>
        /\ released \in Seq(Nat)
        /\ \A n \in DOMAIN released :
            /\ released[n] \in 1..Len(file)
            /\ \A m \in 1..(n - 1) : InOrder(chain, file, released[m], released[n])
            /\ \A j \in Buffered : InOrder(chain, file, released[n], j)
            /\ ~eof_reached => Full(chain, file, released[n])

\* Nothing is read by the EUDAQ2 loader after the end of its file: the run ends.
EofInv ==
    chain.loader = "EUDAQ2" /\ eof_reached =>
        at \in {"return", "exit"} /\ (at = "return" => status = "EndRun")

\* A step of a loader that releases nothing, and one that releases i.
Reads ==
    /\ FileGrows /\ UNCHANGED released
    /\ Buffered' \subseteq Buffered \cup ((Len(file) + 1)..Len(file'))
    /\ file' = file \/ ~eof_reached
    /\ eof_reached => eof_reached'

Releases(i) ==
    /\ i \in sorted /\ i \in Earliest(sorted) /\ released' = Append(released, i)
    /\ ~Room(sorted) \/ (eof_reached /\ Fifo = {})
    /\ UNCHANGED <<file, eof_reached>> /\ Buffered' \subseteq Buffered

\* A set of places in a file is finite, and none of its parts has more elements.
LEMMA Counts ==
    ASSUME NEW n \in Int, NEW S \in SUBSET (1..n)
    PROVE  /\ Cardinality(S) \in Nat
           /\ \A T \in SUBSET S : Cardinality(T) \in Nat /\ Cardinality(T) <= Cardinality(S)
<1>1. IsFiniteSet(1..n)
  BY FS_Interval
<1>2. IsFiniteSet(S)
  BY <1>1, FS_Subset
<1>3. \A T \in SUBSET S : IsFiniteSet(T) /\ Cardinality(T) <= Cardinality(S)
  BY <1>2, FS_Subset
<1> QED
  BY <1>2, <1>3, FS_CardinalityType

\* When a file grows, what was in order stays so, and data that is read comes
\* after as much as the buffer takes.
LEMMA OrderKept ==
    ASSUME NEW c, c.buffer_depth \in Nat,
           NEW f, NEW g, Len(f) \in Nat, Len(g) \in Nat, Len(f) <= Len(g),
           \A l \in 1..Len(g) : g[l].begin \in Int,
           \A l \in 1..Len(f) : g[l] = f[l],
           NEW i \in 1..Len(f)
    PROVE  /\ \A j \in 1..Len(f) : InOrder(c, f, i, j) => InOrder(c, g, i, j)
           /\ Full(c, f, i) =>
                /\ Full(c, g, i)
                /\ \A j \in (Len(f) + 1)..Len(g) : InOrder(c, g, i, j)
<1>1. ASSUME NEW j \in 1..Len(f), InOrder(c, f, i, j)
      PROVE  InOrder(c, g, i, j)
  <2>1. \A l \in 1..(j - 1) : l \in 1..Len(f)
    OBVIOUS
  <2>2. Earlier(g, j) = Earlier(f, j)
    BY <2>1 DEF Earlier
  <2> QED
    BY <1>1, <2>2 DEF InOrder
<1>2. NotBefore(f, i) \subseteq NotBefore(g, i) /\ NotBefore(g, i) \in SUBSET (1..Len(g))
  BY DEF NotBefore
<1>3. Full(c, f, i) => Full(c, g, i)
  <2>1. /\ Cardinality(NotBefore(f, i)) <= Cardinality(NotBefore(g, i))
        /\ Cardinality(NotBefore(f, i)) \in Nat /\ Cardinality(NotBefore(g, i)) \in Nat
    <3>1. Len(g) \in Int
      OBVIOUS
    <3> QED
      BY <1>2, <3>1, Counts
  <2> QED
    BY <2>1 DEF Full
<1>4. ASSUME Full(c, f, i), NEW j \in (Len(f) + 1)..Len(g), g[j].begin < g[i].begin
      PROVE  Cardinality(Earlier(g, j)) >= c.buffer_depth
  <2>1. NotBefore(f, i) \subseteq Earlier(g, j)
    <3> SUFFICES ASSUME NEW l \in NotBefore(f, i) PROVE l \in Earlier(g, j)
      OBVIOUS
    <3>1. l \in 1..Len(f) /\ f[l].begin >= f[i].begin
      BY DEF NotBefore
    <3>2. l \in 1..(j - 1) /\ g[l] = f[l] /\ g[i] = f[i] /\ j \in 1..Len(g) /\ l \in 1..Len(g)
      BY <3>1
    <3>3. g[l].begin > g[j].begin
      BY <1>4, <3>1, <3>2, SMTT(30)
    <3> QED
      BY <3>2, <3>3 DEF Earlier
  <2>2. j - 1 \in Int /\ Earlier(g, j) \in SUBSET (1..(j - 1))
    BY DEF Earlier
  <2>3. /\ Cardinality(NotBefore(f, i)) <= Cardinality(Earlier(g, j))
        /\ Cardinality(NotBefore(f, i)) \in Nat /\ Cardinality(Earlier(g, j)) \in Nat
    BY <2>1, <2>2, Counts
  <2> QED
    BY <1>4, <2>3 DEF Full
<1> QED
  BY <1>1, <1>3, <1>4 DEF InOrder

\* What is buffered is in the file.
LEMMA BufferedInFile == TypeInv => Buffered \subseteq 1..Len(file)
<1> SUFFICES ASSUME TypeInv PROVE Buffered \subseteq 1..Len(file)
  OBVIOUS
<1>1. DOMAIN events_decoded_ = 1..Len(events_decoded_)
  BY DEF TypeInv, EudaqOK
<1> QED
  BY <1>1 DEF TypeInv, FileOK, EudaqOK, Buffered, Fifo

\* The types that the order of the data depends on.
LEMMA OrderTypes ==
    TypeInv => /\ Len(file) \in Nat /\ chain.buffer_depth \in Nat
               /\ \A l \in 1..Len(file) : file[l].begin \in Int
<1> SUFFICES ASSUME TypeInv
             PROVE  /\ Len(file) \in Nat /\ chain.buffer_depth \in Nat
                    /\ \A l \in 1..Len(file) : file[l].begin \in Int
  OBVIOUS
<1>1. \A l \in 1..Len(file) : file[l] \in Measurements
  BY DEF TypeInv, FileOK
<1>2. chain.buffer_depth \in Nat
  BY EventDataAssumption DEF TypeInv, LoopOK, chain
<1> QED
  BY <1>1, <1>2 DEF TypeInv, FileOK, Measurements

\* What is read is in order with everything that was released.
LEMMA ReadsInOrder ==
    ASSUME TypeInv, TypeInv', ReleaseInv, UNCHANGED setup, Reads
    PROVE  ReleaseInv'
<1> SUFFICES ASSUME chain.loader # "MuPix", chain' = chain PROVE ReleaseInv'
  BY DEF ReleaseInv, chain
<1>1. /\ Len(file) \in Nat /\ Len(file') \in Nat /\ Len(file) <= Len(file')
      /\ \A i \in 1..Len(file) : file'[i] = file[i]
      /\ released' = released /\ (file' = file \/ ~eof_reached)
      /\ Buffered' \subseteq Buffered \cup ((Len(file) + 1)..Len(file'))
      /\ eof_reached => eof_reached'
  BY DEF Reads, FileGrows
<1>2. /\ chain.buffer_depth \in Nat /\ Buffered \subseteq 1..Len(file)
  BY OrderTypes, BufferedInFile
<1>3. \A l \in 1..Len(file') : file'[l].begin \in Int
  <2>1. (TypeInv => \A l \in 1..Len(file) : file[l].begin \in Int)'
    BY OrderTypes, PTL
  <2> QED
    BY <2>1
<1>4. released \in Seq(Nat)
  BY DEF ReleaseInv
<1>5. ASSUME NEW n \in DOMAIN released
      PROVE  /\ released[n] \in 1..Len(file')
             /\ \A m \in 1..(n - 1) : InOrder(chain, file', released[m], released[n])
             /\ \A j \in Buffered' : InOrder(chain, file', released[n], j)
             /\ ~eof_reached' => Full(chain, file', released[n])
  <2>1. /\ released[n] \in 1..Len(file)
        /\ \A m \in 1..(n - 1) :
            released[m] \in 1..Len(file) /\ InOrder(chain, file, released[m], released[n])
        /\ \A j \in Buffered : InOrder(chain, file, released[n], j)
        /\ ~eof_reached => Full(chain, file, released[n])
    <3>1. \A m \in 1..(n - 1) : m \in DOMAIN released
      BY <1>4
    <3> QED
      BY <3>1 DEF ReleaseInv
  <2>2. \A i, j \in 1..Len(file) : InOrder(chain, file, i, j) => InOrder(chain, file', i, j)
    BY <1>1, <1>2, <1>3, OrderKept
  <2>3. Full(chain, file, released[n]) =>
            /\ Full(chain, file', released[n])
            /\ \A j \in (Len(file) + 1)..Len(file') : InOrder(chain, file', released[n], j)
    BY <1>1, <1>2, <1>3, <2>1, OrderKept
  <2>4. file' # file => \A j \in Buffered' : InOrder(chain, file', released[n], j)
    BY <1>1, <1>2, <2>1, <2>2, <2>3
  <2>5. file' = file => \A j \in Buffered' : j \in Buffered
    BY <1>1
  <2> QED
    BY <1>1, <1>2, <2>1, <2>2, <2>3, <2>4, <2>5
<1> QED
  BY <1>1, <1>4, <1>5 DEF ReleaseInv

\* What is released is the earliest of a full buffer, or of all that is left.
LEMMA ReleasesInOrder ==
    ASSUME TypeInv, PlacesInv, ReleaseInv, UNCHANGED setup, NEW i, Releases(i)
    PROVE  ReleaseInv'
<1> SUFFICES ASSUME chain.loader # "MuPix", chain' = chain PROVE ReleaseInv'
  BY DEF ReleaseInv, chain
<1>1. /\ i \in sorted /\ released' = Append(released, i)
      /\ ~Room(sorted) \/ (eof_reached /\ Fifo = {})
      /\ UNCHANGED <<file, eof_reached>> /\ Buffered' \subseteq Buffered
      /\ \A j \in sorted : file[i].begin <= file[j].begin
  BY DEF Releases, Earliest
<1>2. /\ Len(file) \in Nat /\ chain.buffer_depth \in Nat
      /\ \A l \in 1..Len(file) : file[l].begin \in Int
      /\ Buffered \subseteq 1..Len(file) /\ sorted \subseteq 1..Len(file)
  BY OrderTypes, BufferedInFile DEF Buffered
<1>3. i \in 1..Len(file) /\ i \in Nat /\ file[i].begin \in Int
  BY <1>1, <1>2
<1>4. Cardinality(sorted) \in Nat
  <2>1. Len(file) \in Int /\ sorted \in SUBSET (1..Len(file))
    BY <1>2
  <2> QED
    BY <2>1, Counts
<1>5. \A j \in Buffered : InOrder(chain, file, i, j)
  <2> SUFFICES ASSUME NEW j \in Buffered, file[j].begin < file[i].begin
               PROVE  Cardinality(Earlier(file, j)) >= chain.buffer_depth
    BY DEF InOrder
  <2>1. j \in 1..Len(file) /\ file[j].begin \in Int
    BY <1>2
  <2>2. j \notin sorted
    BY <1>1, <1>3, <2>1
  <2>3. j \in Fifo
    BY <2>2 DEF Buffered
  <2>4. \A l \in sorted : l \in 1..(j - 1)
    BY <1>2, <2>1, <2>3 DEF PlacesInv, Fifo
  <2>5. \A l \in sorted : file[l].begin > file[j].begin
    BY <1>1, <1>2, <1>3, <2>1
  <2>6. sorted \subseteq Earlier(file, j)
    BY <2>4, <2>5 DEF Earlier
  <2>7. Cardinality(sorted) <= Cardinality(Earlier(file, j)) /\ Cardinality(Earlier(file, j)) \in Nat
    <3>1. j - 1 \in Int /\ Earlier(file, j) \in SUBSET (1..(j - 1))
      BY <2>1 DEF Earlier
    <3> QED
      BY <2>6, <3>1, Counts
  <2> QED
    BY <1>1, <1>2, <1>4, <2>3, <2>7 DEF Room
<1>6. ~eof_reached => Full(chain, file, i)
  <2>1. sorted \subseteq NotBefore(file, i)
    <3>1. \A l \in sorted : file[l].begin >= file[i].begin
      BY <1>1, <1>2, <1>3
    <3> QED
      BY <1>2, <3>1 DEF NotBefore
  <2>2. Cardinality(sorted) <= Cardinality(NotBefore(file, i)) /\ Cardinality(NotBefore(file, i)) \in Nat
    <3>1. Len(file) \in Int /\ NotBefore(file, i) \in SUBSET (1..Len(file))
      BY <1>2 DEF NotBefore
    <3> QED
      BY <2>1, <3>1, Counts
  <2> QED
    BY <1>1, <1>2, <1>4, <2>2 DEF Room, Full
<1>7. /\ released \in Seq(Nat)
      /\ \A n \in DOMAIN released :
            /\ released[n] \in 1..Len(file)
            /\ \A m \in 1..(n - 1) : InOrder(chain, file, released[m], released[n])
            /\ \A j \in Buffered : InOrder(chain, file, released[n], j)
            /\ ~eof_reached => Full(chain, file, released[n])
  BY DEF ReleaseInv
<1>8. /\ released' \in Seq(Nat) /\ DOMAIN released' = 1..(Len(released) + 1)
      /\ DOMAIN released = 1..Len(released) /\ Len(released) \in Nat
      /\ \A n \in 1..Len(released) : released'[n] = released[n]
      /\ released'[Len(released) + 1] = i
  BY <1>1, <1>3, <1>7, AppendProperties
<1>9. ASSUME NEW n \in DOMAIN released'
      PROVE  /\ released'[n] \in 1..Len(file)
             /\ \A m \in 1..(n - 1) : InOrder(chain, file, released'[m], released'[n])
             /\ \A j \in Buffered : InOrder(chain, file, released'[n], j)
             /\ ~eof_reached => Full(chain, file, released'[n])
  <2>1. CASE n = Len(released) + 1
    <3>1. \A m \in 1..(n - 1) : m \in DOMAIN released /\ released'[m] = released[m]
      BY <1>8, <2>1
    <3>2. i \in Buffered /\ released'[n] = i
      BY <1>1, <1>8, <2>1 DEF Buffered
    <3> QED
      BY <1>3, <1>5, <1>6, <1>7, <3>1, <3>2
  <2>2. CASE n \in 1..Len(released)
    <3>1. \A m \in 1..(n - 1) : released'[m] = released[m]
      BY <1>8, <2>2
    <3> QED
      BY <1>7, <1>8, <2>2, <3>1
  <2> QED
    BY <1>8, <2>1, <2>2
<1> QED
  BY <1>1, <1>8, <1>9 DEF ReleaseInv

\* Every step of a loader that sorts reads, or releases the earliest.
LEMMA LoadReleases ==
    ASSUME TypeInv, DataInv, EofInv, Load, chain.loader # "MuPix"
    PROVE  Reads \/ \E i \in sorted : Releases(i)
<1>1. FileGrows /\ PlacesInv' /\ UNCHANGED setup
  BY LoadMoves DEF LoaderMoves, LoaderStep, DataInv
<1>2. /\ chain.loader # "EUDAQ2" => events_decoded_ = << >> /\ Fifo = {}
      /\ UNCHANGED events_decoded_ => Fifo' = Fifo
  BY DEF DataInv, PlacesInv, Fifo
<1>3. Len(file) \in Nat
  BY OrderTypes
\* Nothing read and nothing released, but what is buffered may be discarded.
<1>4. UNCHANGED <<file, eof_reached, released, sorted, events_decoded_>> => Reads
  BY <1>1, <1>2 DEF Reads, Buffered
<1>5. ASSUME NEW m \in chain.data, Word(m), ~eof_reached,
             UNCHANGED <<released, events_decoded_>>, sorted' \subseteq sorted \cup {Newest}
      PROVE  Reads
  <2>1. Len(file') = Len(file) + 1 /\ Newest = Len(file) + 1
    BY <1>3, <1>5, WordType DEF TypeInv, LoopOK, Newest
  <2> QED
    BY <1>1, <1>2, <1>3, <1>5, <2>1 DEF Reads, Buffered
<1>6. (NoWord \/ OtherWord) /\ UNCHANGED <<released, sorted, events_decoded_>> => Reads
  BY <1>1, <1>2 DEF NoWord, OtherWord, Reads, Buffered
<1>7. ASSUME NEW i \in sorted, i \in Earliest(sorted), Release(i),
             UNCHANGED <<file, eof_reached, events_decoded_>>,
             ~Room(sorted) \/ (eof_reached /\ Fifo = {})
      PROVE  Releases(i)
  BY <1>2, <1>7 DEF Releases, Release, Buffered
<1>8. CASE TimestampStep /\ UNCHANGED loaderVars
  <2> USE <1>8 DEF loaderVars, eudaqVars, inputVars, collectVars
  <2>1. CASE TimestampWord
    BY <1>5, <1>6, <2>1 DEF TimestampWord, BufferReady
  <2>2. CASE TimestampBefore \/ TimestampDuring
    <3>1. PICK i \in sorted :
             /\ i \in Earliest(sorted) /\ Release(i) /\ BufferReady
             /\ UNCHANGED <<file, eof_reached, events_decoded_>>
      BY <2>2 DEF TimestampBefore, TimestampDuring, FirstSignal
    <3>2. chain.loader # "EUDAQ2"
      BY DEF TimestampStep
    <3> QED
      BY <1>2, <1>7, <3>1, <3>2 DEF BufferReady
  <2>3. CASE TimestampRun \/ TimestampDefine \/ TimestampAfter \/ TimestampEmpty
    BY <1>4, <2>3 DEF TimestampRun, TimestampDefine, TimestampAfter, TimestampEmpty
  <2> QED
    BY <2>1, <2>2, <2>3 DEF TimestampStep
<1>9. CASE Timepix3Step /\ UNCHANGED eudaqVars
  <2> USE <1>9 DEF eudaqVars, inputVars, collectVars
  <2>1. CASE Timepix3Word
    BY <1>5, <1>6, <2>1 DEF Timepix3Word, BufferReady
  <2>2. CASE PixelBefore \/ PixelDuring
    <3>1. PICK i \in sorted :
             /\ i \in Earliest(sorted) /\ Release(i) /\ BufferReady
             /\ UNCHANGED <<file, eof_reached, events_decoded_>>
      BY <2>2 DEF PixelBefore, PixelDuring, TopAt
    <3>2. chain.loader # "EUDAQ2"
      BY DEF Timepix3Step
    <3> QED
      BY <1>2, <1>7, <3>1, <3>2 DEF BufferReady
  <2>3. CASE Timepix3Run \/ PixelStop \/ SignalBefore \/ SignalDuring \/ SignalStop
    BY <1>4, <2>3 DEF Timepix3Run, PixelStop, SignalBefore, SignalDuring, SignalStop
  <2> QED
    BY <2>1, <2>2, <2>3 DEF Timepix3Step
<1>10. CASE ATLASpixStep /\ UNCHANGED eudaqVars
  <2> USE <1>10 DEF eudaqVars, inputVars, collectVars
  <2>1. CASE ATLASpixWord
    BY <1>5, <1>6, <2>1 DEF ATLASpixWord, BufferReady
  <2>2. CASE ATLASpixBefore \/ ATLASpixDuring
    <3>1. PICK i \in sorted :
             /\ i \in Earliest(sorted) /\ Release(i) /\ BufferReady
             /\ UNCHANGED <<file, eof_reached, events_decoded_>>
      BY <2>2 DEF ATLASpixBefore, ATLASpixDuring, TopPixel
    <3>2. chain.loader # "EUDAQ2"
      BY DEF ATLASpixStep
    <3> QED
      BY <1>2, <1>7, <3>1, <3>2 DEF BufferReady
  <2>3. CASE ATLASpixRun \/ ATLASpixLoop \/ ATLASpixTopOfNothing \/ ATLASpixAfter \/ ATLASpixPut
    BY <1>4, <2>3
       DEF ATLASpixRun, ATLASpixLoop, ATLASpixTopOfNothing, ATLASpixAfter, ATLASpixPut
  <2> QED
    BY <2>1, <2>2, <2>3 DEF ATLASpixStep
<1>11. CASE EUDAQ2Step /\ UNCHANGED signals
  <2>1. chain.loader = "EUDAQ2" /\ at \in {"load", "fetch"} => ~eof_reached
    BY DEF EofInv
  <2> USE <1>11 DEF eudaqVars, inputVars, collectVars
  <2>2. CASE EudaqDecode
    <3>1. /\ UNCHANGED <<sorted, released, event_, eof_reached>> /\ ~eof_reached
          /\ events_decoded_ = << >>
      BY <2>1, <2>2 DEF EudaqDecode, Wanted, EUDAQ2Step, DecodeNothing, OtherWord,
                        DecodeFrame, Word, DecodeBoth
    <3>2. \A n \in DOMAIN events_decoded_' :
                events_decoded_'[n] \in (Len(file) + 1)..Len(file')
      BY <1>1, <2>2, <3>1, DecodeMoves DEF EudaqDecode, EUDAQ2Step, DataInv
    <3> QED
      BY <1>1, <3>1, <3>2 DEF Reads, Buffered, Fifo
  <2>3. CASE EudaqEndOfFile
    BY <1>6, <2>3 DEF EudaqEndOfFile
  <2>4. CASE EudaqSort \/ EudaqNext
    <3>1. /\ UNCHANGED <<file, eof_reached, released>> /\ events_decoded_ # << >>
          /\ sorted' \subseteq sorted \cup {Head(events_decoded_)}
          /\ events_decoded_' = Tail(events_decoded_)
      BY <2>4 DEF EudaqSort, EudaqNext
    <3>2. Buffered' \subseteq Buffered
      BY <3>1, HeadOfFifo DEF Buffered, Fifo, DataInv
    <3> QED
      BY <1>1, <3>1, <3>2 DEF Reads
  <2>5. CASE EudaqNextSorted
    <3>1. PICK i \in sorted :
             /\ i \in Earliest(sorted) /\ Release(i) /\ ~Room(sorted)
             /\ UNCHANGED <<file, eof_reached, events_decoded_>>
      BY <2>5 DEF EudaqNextSorted, Earliest
    <3> QED
      BY <1>7, <3>1
  <2>6. CASE \/ EudaqRun \/ EudaqFilter \/ EudaqThrow \/ EudaqBefore \/ EudaqDuring
             \/ EudaqAfter \/ EudaqUnknown
    BY <1>4, <2>6 DEF EudaqRun, EudaqFilter, EudaqThrow, EudaqBefore, EudaqDuring,
                      EudaqAfter, EudaqUnknown
  <2> QED
    BY <2>2, <2>3, <2>4, <2>5, <2>6 DEF EUDAQ2Step
<1> QED
  BY <1>8, <1>9, <1>10, <1>11 DEF Load, MuPixStep

\* See EofInv.
LEMMA EofStep ==
    ASSUME TypeInv, EofInv, [Next]_vars
    PROVE  EofInv'
<1> USE DEF EofInv
<1>1. CASE UNCHANGED vars
  BY <1>1 DEF vars, dataVars, inputVars, chain
<1>2. CASE BeginEvent
  BY <1>2 DEF BeginEvent, inputVars, chain
<1>3. CASE EndEvent
  BY <1>3 DEF EndEvent, inputVars, chain
<1>4. CASE Define
  <2>1. /\ at \in Defining /\ UNCHANGED <<setup, eof_reached>>
    BY <1>4 DEF Define, MetronomeRun, Goto, M26Step, M26EndOfFile, M26FirstTLU, M26FirstM26,
                M26Advance, M26Refuse, M26Accept, M26Throw, Match, inputVars, Defining
  <2> QED
    BY <2>1 DEF Defining, chain
<1>5. CASE Load
  <2>1. UNCHANGED setup
    BY <1>5, LoadType DEF LoaderStep
  <2>2. CASE EUDAQ2Step
    <3>1. at \in {"load", "fetch"}
      BY <2>2 DEF EUDAQ2Step, EudaqRun, EudaqDecode, EudaqEndOfFile, EudaqSort, EudaqNext,
                  EudaqNextSorted, EudaqFilter, EudaqThrow, EudaqBefore, EudaqDuring,
                  EudaqAfter, EudaqUnknown, Goto, Wanted, InHand, Placed
    <3>2. ~eof_reached
      BY <2>2, <3>1 DEF EUDAQ2Step
    <3>3. EudaqEndOfFile \/ UNCHANGED eof_reached
      BY <2>2 DEF EUDAQ2Step, EudaqRun, EudaqDecode, EudaqSort, EudaqNext,
                  EudaqNextSorted, EudaqFilter, EudaqThrow, EudaqBefore, EudaqDuring,
                  EudaqAfter, EudaqUnknown, DecodeNothing, DecodeFrame, DecodeBoth,
                  OtherWord, Word, inputVars
    <3> QED
      BY <3>2, <3>3 DEF EudaqEndOfFile, Return
  <2>3. CASE chain.loader # "EUDAQ2"
    BY <2>1, <2>3 DEF chain
  <2> QED
    BY <1>5, <2>2, <2>3 DEF Load, TimestampStep, Timepix3Step, ATLASpixStep, MuPixStep
<1> QED
  BY <1>1, <1>2, <1>3, <1>4, <1>5 DEF Next

\* Data leaves the sorted buffer out of order only if the file was more out of
\* order than the buffer is deep, for every loader that sorts.
THEOREM ReleasedInOrderCorrect == Spec => []ReleasedInOrder
<1>1. Init => EofInv /\ ReleaseInv
  BY DEF Init, DataInit, EofInv, ReleaseInv
<1>2. TypeInv /\ DataInv /\ EofInv /\ ReleaseInv /\ [Next]_vars => EofInv' /\ ReleaseInv'
  <2> SUFFICES ASSUME TypeInv, DataInv, EofInv, ReleaseInv, [Next]_vars
               PROVE  EofInv' /\ ReleaseInv'
    OBVIOUS
  <2>1. EofInv' /\ TypeInv'
    BY EofStep, NextType
  <2>2. CASE Load
    <3>1. UNCHANGED setup
      BY <2>2, LoadType DEF LoaderStep
    <3>2. CASE chain.loader = "MuPix"
      <4>1. chain'.loader = "MuPix"
        BY <3>1, <3>2 DEF chain
      <4> QED
        BY <2>1, <4>1 DEF ReleaseInv
    <3>3. CASE chain.loader # "MuPix"
      BY <2>1, <2>2, <3>1, <3>3, LoadReleases, ReadsInOrder, ReleasesInOrder DEF DataInv
    <3> QED
      BY <3>2, <3>3
  <2>3. CASE Define \/ BeginEvent \/ EndEvent \/ UNCHANGED vars
    <3>1. UNCHANGED <<setup, file, eof_reached, sorted, released, events_decoded_>>
      BY <2>3 DEF Define, M26Step, BeginEvent, EndEvent, vars, dataVars, inputVars,
                  collectVars, loaderVars, eudaqVars
    <3> QED
      BY <2>1, <3>1 DEF ReleaseInv, Buffered, Fifo, chain
  <2> QED
    BY <2>2, <2>3 DEF Next
<1>3. TypeInv /\ ReleaseInv => ReleasedInOrder
  <2> SUFFICES ASSUME TypeInv, ReleaseInv, chain.loader # "MuPix",
                      NEW m \in DOMAIN released, NEW n \in DOMAIN released, m < n
               PROVE  InOrder(chain, file, released[m], released[n])
    BY DEF ReleasedInOrder, InOrder, Earlier
  <2>1. m \in 1..(n - 1)
    BY DEF ReleaseInv
  <2> QED
    BY <2>1 DEF ReleaseInv
<1> QED
  BY <1>1, <1>2, <1>3, DataInvariant, PTL DEF Spec

-----------------------------------------------------------------------------
(* No hit is discarded that belongs to an event *)

\* The loaders of hits, which have a time and no length.  After the end of its
\* files EventDefinitionM26 leaves the last event to EventLoaderTimestamp, which
\* centres it on a trigger and may reach back over earlier events.
HitsInLine ==
    /\ chain.loader \in {"Timestamp", "Timepix3", "ATLASpix"}
    /\ ~(chain.loader = "Timestamp" /\ chain.definer = "M26")

\* What is read after this time, as far as the file has been read.
Above(t) == {i \in 1..Len(file) : file[i].begin > t}

\* What is in the sorted buffer and what the loader will still read to it is later
\* than t.
SortedBeyond(t) ==
    /\ \A i \in sorted : file[i].begin > t
    /\ eof_reached \/ Cardinality(Above(t)) >= chain.buffer_depth

\* The same of all that is buffered.
Beyond(t) == SortedBeyond(t) /\ \A i \in signals : file[i].begin > t

\* When an event is done, what is to come lies beyond it.  After Failure nothing
\* comes any more.
PastInv ==
    /\ at # "exit" => \A k \in DOMAIN events : events[k] # NoEvent => Beyond(events[k].end)
    /\ event # NoEvent /\ (at = "put" \/ (at = "return" /\ status # "Failure")) =>
            Beyond(event.end)
    /\ at = "signals" => SortedBeyond(event.end)

\* Without a module that defines events nothing is discarded: two of the loaders
\* stop, and EventLoaderTimestamp starts the event before what it has.
AloneInv ==
    chain.definer = "none" =>
        /\ dropped = {}
        /\ event # NoEvent => chain.loader = "Timestamp"
        /\ event # NoEvent /\ at \in Loading => Beyond(event.start - 1)

\* i is a hit in the window of e.
Inside(i, e) == e.start <= file[i].begin /\ file[i].begin <= e.end

\* A hit is discarded in an event that is later.
DroppedInv ==
    \A x \in dropped :
        /\ x[1] \in 1..Len(file)
        /\ \A k \in DOMAIN events : events[k] # NoEvent => ~Inside(x[1], events[k])
        /\ at \in Loading /\ event # NoEvent => ~Inside(x[1], event)
        /\ \/ /\ x[2] \in DOMAIN events /\ events[x[2]] # NoEvent
              /\ file[x[1]].begin < events[x[2]].end
           \/ /\ x[2] = Current /\ at \in Loading /\ event # NoEvent
              /\ file[x[1]].begin < event.start

\* The end of the run is asked for in the last event.
AskedInv == asked /\ at # "exit" => chain.definer = "M26" /\ at \in Loading

\* The inductive invariant behind NoLateData.
LateInv == AskedInv /\ (HitsInLine => PastInv /\ AloneInv /\ DroppedInv)

\* A step of a loader that takes from the buffers, and one that reads.
Takes ==
    /\ UNCHANGED file /\ sorted' \subseteq sorted /\ signals' \subseteq signals
    /\ eof_reached => eof_reached'

ReadsOne ==
    /\ ~eof_reached /\ UNCHANGED eof_reached /\ Room(sorted)
    /\ \E m \in chain.data : Word(m)
    /\ sorted' \subseteq sorted \cup {Newest} /\ signals' \subseteq signals \cup {Newest}

\* What the comparisons of times need to know.
LEMMA TimeTypes ==
    ASSUME TypeInv
    PROVE  /\ Len(file) \in Nat /\ chain.buffer_depth \in Nat
           /\ \A i \in 1..Len(file) : file[i].begin \in Int
           /\ sorted \subseteq 1..Len(file) /\ Cardinality(sorted) \in Nat
           /\ \A t : /\ Above(t) \in SUBSET (1..Len(file)) /\ Cardinality(Above(t)) \in Nat
                     /\ \A S \in SUBSET Above(t) :
                            Cardinality(S) \in Nat /\ Cardinality(S) <= Cardinality(Above(t))
           /\ event # NoEvent =>
                event.start \in Int /\ event.end \in Int /\ event.start <= event.end
           /\ \A k \in DOMAIN events : events[k] # NoEvent =>
                events[k].start \in Int /\ events[k].end \in Int
<1>1. /\ Len(file) \in Nat /\ chain.buffer_depth \in Nat
      /\ \A i \in 1..Len(file) : file[i].begin \in Int
  BY OrderTypes
<1>2. sorted \subseteq 1..Len(file)
  BY DEF TypeInv, FileOK
<1>3. Len(file) \in Int
  BY <1>1
<1>4. Cardinality(sorted) \in Nat
  BY <1>2, <1>3, Counts
<1>5. ASSUME NEW t
      PROVE  /\ Above(t) \in SUBSET (1..Len(file)) /\ Cardinality(Above(t)) \in Nat
             /\ \A S \in SUBSET Above(t) :
                    Cardinality(S) \in Nat /\ Cardinality(S) <= Cardinality(Above(t))
  <2>1. Above(t) \in SUBSET (1..Len(file))
    BY DEF Above
  <2> QED
    BY <1>3, <2>1, Counts
<1>6. event # NoEvent =>
          event.start \in Int /\ event.end \in Int /\ event.start <= event.end
  BY DEF TypeInv, WindowOK, EventType
<1>7. ASSUME NEW k \in DOMAIN events, events[k] # NoEvent
      PROVE  events[k].start \in Int /\ events[k].end \in Int
  <2>1. events[k] \in EventType
    BY <1>7 DEF TypeInv, LoopOK
  <2> QED
    BY <2>1 DEF EventType
<1> QED
  BY <1>1, <1>2, <1>4, <1>5, <1>6, <1>7

\* The first of a buffer that is as deep as it gets comes before all that follows.
LEMMA ReadyBeyond ==
    ASSUME TypeInv, BufferReady, NEW t \in Int, \A i \in sorted : file[i].begin > t
    PROVE  SortedBeyond(t)
<1>1. sorted \in SUBSET Above(t)
  BY TimeTypes DEF Above
<1>2. Cardinality(sorted) \in Nat /\ Cardinality(sorted) <= Cardinality(Above(t))
  BY <1>1, TimeTypes
<1>3. ~Room(sorted) => Cardinality(Above(t)) >= chain.buffer_depth
  BY <1>2, TimeTypes DEF Room
<1> QED
  BY <1>3 DEF SortedBeyond, BufferReady

\* What is read to a buffer with room is later than a time that as many hits as
\* the buffer takes are later than.
LEMMA ReadBeyond ==
    ASSUME TypeInv, chain.loader # "EUDAQ2", Room(sorted),
           NEW m \in chain.data, Word(m),
           NEW t \in Int, Cardinality(Above(t)) >= chain.buffer_depth
    PROVE  m.begin > t
<1>1. m \in Measurements /\ m.kind \in {"pixel", "signal"} /\ m.begin \in Int
  <2>1. m.kind \in {"pixel", "signal"}
    BY EventDataAssumption DEF TypeInv, LoopOK, chain
  <2>2. m \in Measurements
    BY ChainType DEF TypeInv, LoopOK
  <2> QED
    BY <2>1, <2>2 DEF Measurements
<1>2. chain.buffer_depth > 0
  BY TimeTypes DEF Room
<1>3. Later(m) = {} \/ Cardinality(Later(m)) < chain.buffer_depth
  BY <1>1 DEF Word, InReach, Timed
<1> SUFFICES ASSUME m.begin <= t PROVE FALSE
  BY <1>1
<1>4. Later(m) = Above(m.begin)
  BY DEF Later, Above, TypeInv, FileOK
<1>5. Above(t) \in SUBSET Above(m.begin)
  BY <1>1, TimeTypes DEF Above
<1>6. /\ Cardinality(Above(t)) <= Cardinality(Later(m))
      /\ Cardinality(Above(t)) \in Nat /\ Cardinality(Later(m)) \in Nat
  BY <1>4, <1>5, TimeTypes
<1>7. Later(m) = {} => Cardinality(Later(m)) = 0
  BY FS_EmptySet
<1> QED
  BY <1>2, <1>3, <1>6, <1>7, TimeTypes

\* What is later than a time stays later.
LEMMA BeyondKept ==
    ASSUME TypeInv, TypeInv', signals \subseteq 1..Len(file), FileGrows, UNCHANGED setup,
           chain.loader # "EUDAQ2", Takes \/ ReadsOne, NEW t \in Int
    PROVE  /\ SortedBeyond(t) => SortedBeyond(t)'
           /\ Beyond(t) => Beyond(t)'
<1>1. /\ chain' = chain /\ Len(file) \in Nat /\ Len(file') \in Nat
      /\ \A i \in 1..Len(file) : i \in 1..Len(file') /\ file'[i] = file[i]
  BY DEF FileGrows, chain
<1>2. sorted \subseteq 1..Len(file) /\ signals \subseteq 1..Len(file)
  BY TimeTypes
<1>3. Cardinality(Above(t)) >= chain.buffer_depth =>
          Cardinality(Above(t)') >= chain.buffer_depth
  <2>1. Above(t) \in SUBSET (Above(t)')
    BY <1>1 DEF Above
  <2>2. /\ Above(t)' \in SUBSET (1..Len(file')) /\ Len(file') \in Int
    BY <1>1 DEF Above
  <2>3. /\ Cardinality(Above(t)) <= Cardinality(Above(t)')
        /\ Cardinality(Above(t)) \in Nat /\ Cardinality(Above(t)') \in Nat
    BY <2>1, <2>2, Counts
  <2> QED
    BY <2>3, TimeTypes
<1>4. CASE Takes
  <2>1. /\ eof_reached => eof_reached'
        /\ sorted' \subseteq sorted /\ signals' \subseteq signals
    BY <1>4 DEF Takes
  <2> QED
    BY <1>1, <1>2, <1>3, <2>1 DEF SortedBeyond, Beyond
<1>5. CASE ReadsOne
  <2>1. PICK m \in chain.data : Word(m)
    BY <1>5 DEF ReadsOne
  <2>2. /\ ~eof_reached /\ Room(sorted) /\ sorted' \subseteq sorted \cup {Newest}
        /\ signals' \subseteq signals \cup {Newest}
    BY <1>5 DEF ReadsOne
  <2>3. file'[Newest] = m
    <3>1. file \in Seq(Measurements) /\ m \in Measurements /\ file' = Append(file, m)
      BY <2>1, ChainType DEF TypeInv, LoopOK, FileOK, Word
    <3> QED
      BY <3>1, AppendProperties DEF Newest
  <2>4. SortedBeyond(t) => m.begin > t
    BY <2>1, <2>2, ReadBeyond DEF SortedBeyond
  <2> QED
    BY <1>1, <1>2, <1>3, <2>2, <2>3, <2>4 DEF SortedBeyond, Beyond
<1> QED
  BY <1>4, <1>5

-----------------------------------------------------------------------------
(* What the loaders of hits do *)

\* Nothing is discarded; an event is made only by EventLoaderTimestamp, and a loader
\* that throws has none.
DropsNone ==
    /\ UNCHANGED dropped
    /\ event = NoEvent => UNCHANGED event \/ (chain.loader = "Timestamp" /\ TimestampDefine)
    /\ at' = "exit" => event = NoEvent

\* A hit before the event is discarded.
DropsOne ==
    /\ event # NoEvent /\ UNCHANGED <<event, file>> /\ at' # "exit"
    /\ \E i \in sorted \cup signals : Drop(i) /\ file[i].begin < event.start

\* The event is done, or its pixels are.
Finishes ==
    /\ event # NoEvent /\ (at' = "put" \/ (at' = "return" /\ status' # "Failure")) =>
            UNCHANGED event /\ Beyond(event.end)
    /\ at' = "signals" => event # NoEvent /\ UNCHANGED event /\ SortedBeyond(event.end)
    /\ event' # NoEvent /\ event = NoEvent => at' \notin {"put", "return", "signals"}

\* What a step of a loader of hits is shown to do.
HitMoves == (Takes \/ ReadsOne) /\ (DropsNone \/ DropsOne) /\ Finishes

\* The times a loader compares.
LEMMA PositionBefore ==
    ASSUME TypeInv, event # NoEvent, NEW i \in 1..Len(file)
    PROVE  /\ getTimestampPosition(event, file[i].begin) = "BEFORE" =>
                file[i].begin < event.start
           /\ getTimestampPosition(event, file[i].begin) = "AFTER" =>
                file[i].begin > event.end
<1>1. file[i].begin \in Int /\ event.start \in Int /\ event.end \in Int
  BY TimeTypes
<1> QED
  BY <1>1 DEF getTimestampPosition

\* A time that the earliest of a buffer is later than.
LEMMA EarliestBeyond ==
    ASSUME TypeInv, NEW t \in Int, NEW buffer, buffer \subseteq 1..Len(file),
           NEW i \in Earliest(buffer), file[i].begin > t
    PROVE  \A j \in buffer : file[j].begin > t
<1>1. i \in buffer /\ \A j \in buffer : file[i].begin <= file[j].begin
  BY DEF Earliest
<1> QED
  BY <1>1, TimeTypes

\* A set of numbers has a least one.
LEMMA LeastNumber ==
    ASSUME NEW S \in SUBSET Nat, S # {}
    PROVE  \E n \in S : \A m \in S : n <= m
<1> DEFINE R == OpToRel(<, Nat)
<1>1. IsWellFoundedOn(R, Nat)
  BY NatLessThanWellFounded
<1>2. \A m, n \in Nat : m < n => <<m, n>> \in R
  BY DEF OpToRel
<1> HIDE DEF R
<1>3. PICK n \in S : \A m \in S : ~(<<m, n>> \in R)
  BY <1>1, WFMin
<1>4. \A m \in S : ~(m < n)
  BY <1>2, <1>3, Zenon
<1> QED
  BY <1>3, <1>4

\* A buffer with something in it has an earliest.
LEMMA EarliestExists ==
    ASSUME TypeInv, NEW buffer, buffer \subseteq 1..Len(file), buffer # {}
    PROVE  Earliest(buffer) # {}
<1> DEFINE ahead(i) == {j \in buffer : file[j].begin < file[i].begin}
           ranks == {Cardinality(ahead(i)) : i \in buffer}
<1>1. ASSUME NEW i \in buffer
      PROVE  /\ IsFiniteSet(ahead(i)) /\ Cardinality(ahead(i)) \in Nat
  <2>1. IsFiniteSet(1..Len(file))
    BY TimeTypes, FS_Interval
  <2>2. ahead(i) \in SUBSET (1..Len(file))
    OBVIOUS
  <2>3. IsFiniteSet(ahead(i))
    BY <2>1, <2>2, FS_Subset
  <2> QED
    BY <2>3, FS_CardinalityType
<1>2. ranks \subseteq Nat /\ ranks # {}
  BY <1>1
<1>3. PICK n \in ranks : \A m \in ranks : n <= m
  BY <1>2, LeastNumber
<1>6. PICK i \in buffer : n = Cardinality(ahead(i))
  BY <1>3
<1>7. ASSUME NEW j \in buffer, file[j].begin < file[i].begin PROVE FALSE
  <2>0. \A l \in buffer : file[l].begin \in Int
    BY TimeTypes
  <2>1. ahead(j) \in SUBSET ahead(i)
    BY <1>7, <2>0
  <2>2. j \in ahead(i) /\ j \notin ahead(j)
    BY <1>7, TimeTypes
  <2>3. /\ Cardinality(ahead(j)) <= Cardinality(ahead(i))
        /\ Cardinality(ahead(i)) = Cardinality(ahead(j)) => ahead(i) = ahead(j)
    <3> HIDE DEF ahead
    <3> QED
      BY <1>1, <2>1, FS_Subset
  <2>4. Cardinality(ahead(j)) < Cardinality(ahead(i)) /\ Cardinality(ahead(j)) \in ranks
    <3>1. ahead(i) # ahead(j)
      BY <2>2
    <3> HIDE DEF ahead
    <3> QED
      BY <1>1, <2>3, <3>1
  <2>5. n <= Cardinality(ahead(j))
    BY <1>3, <2>4
  <2> HIDE DEF ahead, ranks
  <2> QED
    BY <1>1, <1>6, <2>4, <2>5
<1>8. i \in Earliest(buffer)
  BY <1>7, TimeTypes DEF Earliest
<1> QED
  BY <1>8

\* EventLoaderTimestamp.
LEMMA TimestampHits ==
    ASSUME TypeInv, DataInv, TimestampStep, UNCHANGED loaderVars
    PROVE  HitMoves
<1> USE DEF HitMoves, Finishes, Goto, Return, Drop
<1>1. /\ chain.loader = "Timestamp" /\ signals = {} /\ UNCHANGED signals
      /\ sorted \subseteq 1..Len(file)
  BY TimeTypes DEF TimestampStep, DataInv, PlacesInv, loaderVars
<1>2. CASE TimestampRun
  BY <1>1, <1>2 DEF TimestampRun, inputVars, collectVars, Takes, DropsNone
<1>3. CASE TimestampWord
  <2>1. CASE (NoWord \/ OtherWord) /\ UNCHANGED sorted
    BY <1>1, <1>3, <2>1 DEF TimestampWord, NoWord, OtherWord, collectVars, Takes, DropsNone
  <2>2. CASE \E m \in chain.data : Word(m) /\ sorted' = sorted \cup {Newest}
    BY <1>1, <1>3, <2>2 DEF TimestampWord, BufferReady, Word, collectVars, ReadsOne, DropsNone
  <2> QED
    BY <1>3, <2>1, <2>2 DEF TimestampWord
<1>4. CASE TimestampDefine
  BY <1>1, <1>4 DEF TimestampDefine, inputVars, collectVars, Takes, DropsNone
<1>5. CASE TimestampAfter
  <2>1. PICK i \in sorted : FirstSignal(i, "AFTER")
    BY <1>5 DEF TimestampAfter
  <2>2. file[i].begin > event.end
    BY <1>1, <2>1, PositionBefore DEF FirstSignal
  <2>3. Beyond(event.end)
    BY <1>1, <2>1, <2>2, EarliestBeyond, ReadyBeyond, TimeTypes DEF FirstSignal, Beyond
  <2> QED
    BY <1>1, <1>5, <2>1, <2>3
       DEF TimestampAfter, FirstSignal, inputVars, collectVars, Takes, DropsNone
<1>6. CASE TimestampBefore
  <2>1. PICK i \in sorted : FirstSignal(i, "BEFORE") /\ Release(i) /\ Drop(i)
    BY <1>6 DEF TimestampBefore
  <2>2. file[i].begin < event.start
    BY <1>1, <2>1, PositionBefore DEF FirstSignal
  <2> QED
    BY <1>1, <1>6, <2>1, <2>2
       DEF TimestampBefore, FirstSignal, Release, Takes, DropsOne
<1>7. CASE TimestampDuring
  <2>1. PICK i \in sorted : FirstSignal(i, "DURING") /\ Release(i)
    BY <1>7 DEF TimestampDuring
  <2> QED
    BY <1>1, <1>7, <2>1 DEF TimestampDuring, FirstSignal, Release, Takes, DropsNone
<1>8. CASE TimestampEmpty
  <2>1. event # NoEvent => Beyond(event.end)
    BY <1>1, <1>8, ReadyBeyond, TimeTypes DEF TimestampEmpty, Beyond
  <2> QED
    BY <1>1, <1>8, <2>1 DEF TimestampEmpty, inputVars, collectVars, Takes, DropsNone
<1> QED
  BY <1>2, <1>3, <1>4, <1>5, <1>6, <1>7, <1>8 DEF TimestampStep

\* EventLoaderTimepix3 stops at a buffer that lies after the event.
LEMMA StopsBeyond ==
    ASSUME TypeInv, event # NoEvent, NEW buffer, buffer \subseteq 1..Len(file), Stops(buffer)
    PROVE  \A j \in buffer : file[j].begin > event.end
<1> SUFFICES ASSUME buffer # {} PROVE \A j \in buffer : file[j].begin > event.end
  OBVIOUS
<1>1. PICK i \in Earliest(buffer) : TRUE
  BY EarliestExists
<1>2. i \in 1..Len(file) /\ getTimestampPosition(event, file[i].begin) = "AFTER"
  BY <1>1 DEF Earliest, Stops, TopAt
<1>3. file[i].begin > event.end /\ event.end \in Int
  BY <1>2, PositionBefore, TimeTypes
<1> QED
  BY <1>1, <1>3, EarliestBeyond

\* EventLoaderTimepix3.
LEMMA Timepix3Hits ==
    ASSUME TypeInv, DataInv, PastInv, Timepix3Step, UNCHANGED eudaqVars
    PROVE  HitMoves
<1> USE DEF HitMoves, Finishes, Goto, Return, Drop
<1>1. /\ chain.loader = "Timepix3" /\ sorted \subseteq 1..Len(file)
      /\ signals \subseteq 1..Len(file)
      /\ at \in {"fill", "signals"} => event # NoEvent
  BY TimeTypes DEF Timepix3Step, DataInv, PlacesInv, WindowInv, Collecting
<1>2. CASE Timepix3Run
  BY <1>2 DEF Timepix3Run, inputVars, Takes, DropsNone
<1>3. CASE Timepix3Word
  <2>1. CASE (NoWord \/ OtherWord) /\ UNCHANGED <<sorted, signals>>
    BY <1>1, <1>3, <2>1 DEF Timepix3Word, NoWord, OtherWord, collectVars, Takes, DropsNone
  <2>2. CASE \E m \in chain.data :
                /\ Word(m)
                /\ \/ m.kind = "pixel" /\ sorted' = sorted \cup {Newest} /\ UNCHANGED signals
                   \/ m.kind = "signal" /\ signals' = signals \cup {Newest} /\ UNCHANGED sorted
    BY <1>1, <1>3, <2>2 DEF Timepix3Word, BufferReady, Word, collectVars, ReadsOne, DropsNone
  <2> QED
    BY <1>3, <2>1, <2>2 DEF Timepix3Word
<1>4. CASE PixelBefore
  <2>1. PICK i \in sorted : TopAt(sorted, i, "BEFORE") /\ Release(i) /\ Drop(i)
    BY <1>4 DEF PixelBefore
  <2>2. file[i].begin < event.start
    BY <1>1, <1>4, <2>1, PositionBefore DEF PixelBefore, TopAt
  <2> QED
    BY <1>1, <1>4, <2>1, <2>2 DEF PixelBefore, Release, Takes, DropsOne
<1>5. CASE PixelDuring
  BY <1>1, <1>5 DEF PixelDuring, Release, Takes, DropsNone
<1>6. CASE PixelStop
  <2>1. event.end \in Int
    BY <1>1, <1>6, TimeTypes DEF PixelStop
  <2>2. \A i \in sorted : file[i].begin > event.end
    BY <1>1, <1>6, StopsBeyond DEF PixelStop
  <2>3. SortedBeyond(event.end)
    BY <1>6, <2>1, <2>2, ReadyBeyond DEF PixelStop
  <2> QED
    BY <1>1, <1>6, <2>3 DEF PixelStop, inputVars, collectVars, Takes, DropsNone
<1>7. CASE SignalBefore
  <2>1. PICK i \in signals : TopAt(signals, i, "BEFORE") /\ signals' = signals \ {i} /\ Drop(i)
    BY <1>7 DEF SignalBefore
  <2>2. file[i].begin < event.start
    BY <1>1, <1>7, <2>1, PositionBefore DEF SignalBefore, TopAt
  <2> QED
    BY <1>1, <1>7, <2>1, <2>2 DEF SignalBefore, inputVars, Takes, DropsOne, PastInv
<1>8. CASE SignalDuring
  BY <1>1, <1>8 DEF SignalDuring, inputVars, Takes, DropsNone, PastInv
<1>9. CASE SignalStop
  <2>1. event.end \in Int
    BY <1>1, <1>9, TimeTypes DEF SignalStop
  <2>2. \A i \in signals : file[i].begin > event.end
    BY <1>1, <1>9, StopsBeyond DEF SignalStop
  <2>3. Beyond(event.end)
    BY <1>9, <2>2 DEF SignalStop, PastInv, Beyond
  <2> QED
    BY <1>9, <2>3 DEF SignalStop, inputVars, collectVars, Takes, DropsNone
<1> QED
  BY <1>2, <1>3, <1>4, <1>5, <1>6, <1>7, <1>8, <1>9 DEF Timepix3Step

\* EventLoaderATLASpix.
LEMMA ATLASpixHits ==
    ASSUME TypeInv, DataInv, PastInv, ATLASpixStep, UNCHANGED <<eudaqVars, signals>>
    PROVE  HitMoves
<1> USE DEF HitMoves, Finishes, Goto, Return, Drop
<1>1. /\ chain.loader = "ATLASpix" /\ signals = {} /\ UNCHANGED signals
      /\ sorted \subseteq 1..Len(file)
      /\ at \in {"fill", "loop", "put"} => event # NoEvent
  BY TimeTypes DEF ATLASpixStep, DataInv, PlacesInv, WindowInv, Collecting
<1>2. CASE ATLASpixRun
  BY <1>2 DEF ATLASpixRun, inputVars, Takes, DropsNone
<1>3. CASE ATLASpixLoop
  <2>1. sorted = {} /\ eof_reached => Beyond(event.end)
    BY <1>1 DEF Beyond, SortedBeyond
  <2> QED
    BY <1>3, <2>1 DEF ATLASpixLoop, inputVars, collectVars, Takes, DropsNone
<1>4. CASE ATLASpixWord
  <2>1. CASE (NoWord \/ OtherWord) /\ UNCHANGED sorted
    BY <1>1, <1>4, <2>1 DEF ATLASpixWord, NoWord, OtherWord, collectVars, Takes, DropsNone
  <2>2. CASE \E m \in chain.data : Word(m) /\ sorted' = sorted \cup {Newest}
    BY <1>1, <1>4, <2>2 DEF ATLASpixWord, BufferReady, Word, collectVars, ReadsOne, DropsNone
  <2> QED
    BY <1>4, <2>1, <2>2 DEF ATLASpixWord
<1>5. CASE ATLASpixTopOfNothing
  BY <1>1, <1>5 DEF ATLASpixTopOfNothing, inputVars, collectVars, Takes, DropsNone
<1>6. CASE ATLASpixAfter
  <2>1. PICK i \in sorted : TopPixel(i) /\ file[i].begin > event.end
    BY <1>6 DEF ATLASpixAfter
  <2>2. Beyond(event.end)
    BY <1>1, <2>1, EarliestBeyond, ReadyBeyond, TimeTypes DEF TopPixel, Beyond
  <2> QED
    BY <1>6, <2>2 DEF ATLASpixAfter, inputVars, collectVars, Takes, DropsNone
<1>7. CASE ATLASpixBefore
  <2>1. PICK i \in sorted :
            TopPixel(i) /\ file[i].begin < event.start /\ Release(i) /\ Drop(i)
    BY <1>7 DEF ATLASpixBefore
  <2> QED
    BY <1>1, <1>7, <2>1 DEF ATLASpixBefore, TopPixel, Release, Takes, DropsOne
<1>8. CASE ATLASpixDuring
  BY <1>1, <1>8 DEF ATLASpixDuring, TopPixel, Release, Takes, DropsNone
<1>9. CASE ATLASpixPut
  BY <1>1, <1>9 DEF ATLASpixPut, PastInv, inputVars, collectVars, Takes, DropsNone
<1> QED
  BY <1>2, <1>3, <1>4, <1>5, <1>6, <1>7, <1>8, <1>9 DEF ATLASpixStep

-----------------------------------------------------------------------------
(* No hit is discarded that belongs to an event: the invariant *)

LateParts == PastInv /\ AloneInv /\ DroppedInv

\* Whatever the loader of hits.
LEMMA LoadHits ==
    ASSUME TypeInv, DataInv, PastInv, HitsInLine, Load
    PROVE  HitMoves
<1>1. CASE TimestampStep /\ UNCHANGED loaderVars
  BY <1>1, TimestampHits
<1>2. CASE Timepix3Step /\ UNCHANGED <<eudaqVars, t0_seen_, tag>>
  BY <1>2, Timepix3Hits
<1>3. CASE ATLASpixStep /\ UNCHANGED <<eudaqVars, signals, tag>>
  BY <1>3, ATLASpixHits
<1> QED
  BY <1>1, <1>2, <1>3 DEF Load, EUDAQ2Step, MuPixStep, HitsInLine

\* A step of a loader discards only what lies between the events.
LEMMA LoadLate ==
    ASSUME TypeInv, DataInv, InLineInv, AskedInv, HitsInLine, LateParts, Load
    PROVE  LateParts'
<1> USE DEF LateParts
<1>1. HitMoves /\ LoaderMoves /\ LoaderStep /\ TypeInv'
  BY LoadHits, LoadMoves
<1>2. /\ UNCHANGED <<setup, events, asked>> /\ chain' = chain /\ Current' = Current
      /\ at \in Loading /\ at' \in Loading \cup {"exit"} /\ at # "exit"
      /\ event # NoEvent =>
            event' # NoEvent /\ event'.start = event.start /\ event'.end = event.end
      /\ Len(file) \in Nat /\ Len(file') \in Nat
      /\ \A i \in 1..Len(file) : i \in 1..Len(file') /\ file'[i] = file[i]
  BY <1>1 DEF LoaderStep, LoaderMoves, FileGrows, chain, Current, Loading
<1>3. ASSUME NEW t \in Int
      PROVE  /\ SortedBeyond(t) => SortedBeyond(t)'
             /\ Beyond(t) => Beyond(t)'
  <2>1. signals \subseteq 1..Len(file) /\ chain.loader # "EUDAQ2" /\ FileGrows
    BY <1>1 DEF DataInv, PlacesInv, HitsInLine, LoaderMoves
  <2> QED
    BY <1>1, <1>2, <2>1, BeyondKept DEF HitMoves
<1>4. PastInv'
  <2>1. \A k \in DOMAIN events : events[k] # NoEvent => Beyond(events[k].end)'
    <3> SUFFICES ASSUME NEW k \in DOMAIN events, events[k] # NoEvent
                 PROVE  Beyond(events[k].end)'
      OBVIOUS
    <3>1. events[k].end \in Int /\ Beyond(events[k].end)
      BY <1>2, TimeTypes DEF PastInv
    <3>2. events'[k] = events[k]
      BY <1>2
    <3> QED
      BY <1>3, <3>1, <3>2
  <2>2. ASSUME event' # NoEvent, at' = "put" \/ (at' = "return" /\ status' # "Failure")
        PROVE  Beyond(event.end)'
    <3>1. event # NoEvent /\ UNCHANGED event /\ Beyond(event.end)
      BY <1>1, <2>2 DEF HitMoves, Finishes
    <3> QED
      BY <1>3, <3>1, TimeTypes
  <2>3. ASSUME at' = "signals" PROVE SortedBeyond(event.end)'
    <3>1. event # NoEvent /\ UNCHANGED event /\ SortedBeyond(event.end)
      BY <1>1, <2>3 DEF HitMoves, Finishes
    <3> QED
      BY <1>3, <3>1, TimeTypes
  <2> QED
    BY <1>2, <2>1, <2>2, <2>3 DEF PastInv
<1>5. CASE DropsOne
  <2>1. PICK i \in sorted \cup signals : Drop(i) /\ file[i].begin < event.start
    BY <1>5 DEF DropsOne
  <2>2. event # NoEvent /\ UNCHANGED <<event, file>> /\ at' \in Loading
    BY <1>2, <1>5 DEF DropsOne
  <2>3. i \in 1..Len(file) /\ file[i].begin \in Int
    BY TimeTypes DEF DataInv, PlacesInv
  <2>4. dropped' = dropped \cup {<<i, Current>>}
    BY <2>1 DEF Drop
  <2>5. \A t : Beyond(t) => file[i].begin > t
    BY DEF Beyond, SortedBeyond
  <2>6. chain.definer # "none"
    BY <1>2, <2>1, <2>2, <2>3, <2>5, TimeTypes DEF AloneInv
  <2>7. AloneInv'
    BY <1>2, <2>6 DEF AloneInv
  <2>8. ASSUME NEW k \in DOMAIN events, events[k] # NoEvent
        PROVE  ~Inside(i, events[k])
    BY <1>2, <2>3, <2>5, <2>8, TimeTypes DEF PastInv, Inside
  <2>9. ~Inside(i, event)
    BY <2>1, <2>2, <2>3, TimeTypes DEF Inside
  <2>10. DroppedInv'
    <3>1. \A j, e : Inside(j, e)' <=> Inside(j, e)
      BY <2>2 DEF Inside
    <3> QED
      BY <1>2, <2>1, <2>2, <2>3, <2>4, <2>8, <2>9, <3>1 DEF DroppedInv, Inside
  <2> QED
    BY <1>4, <2>7, <2>10
<1>6. CASE DropsNone
  <2>1. /\ UNCHANGED dropped
        /\ event = NoEvent => UNCHANGED event \/ (chain.loader = "Timestamp" /\ TimestampDefine)
        /\ at' = "exit" => event = NoEvent
    BY <1>6 DEF DropsNone
  <2>2. event = NoEvent /\ event' # NoEvent => chain.definer = "none"
    <3>1. ASSUME event = NoEvent, event' # NoEvent, chain.definer # "none" PROVE FALSE
      <4>1. chain.definer = "Metronome"
        BY <2>1, <3>1, ChainType DEF HitsInLine, TypeInv, LoopOK
      <4> QED
        BY <1>2, <3>1, <4>1 DEF InLineInv, InLine, AskedInv
    <3> QED
      BY <3>1
  <2>3. AloneInv'
    <3> SUFFICES ASSUME chain.definer = "none"
                 PROVE  /\ dropped' = {}
                        /\ event' # NoEvent => chain.loader = "Timestamp"
                        /\ event' # NoEvent => Beyond(event.start - 1)'
      BY <1>2 DEF AloneInv
    <3>1. dropped' = {} /\ (event' # NoEvent => chain.loader = "Timestamp")
      BY <2>1 DEF AloneInv
    <3>2. CASE event # NoEvent
      <4>1. event.start - 1 \in Int /\ Beyond(event.start - 1)
        BY <1>2, <3>2, TimeTypes DEF AloneInv
      <4>2. event'.start - 1 = event.start - 1
        BY <1>2, <3>2
      <4>3. Beyond(event.start - 1)'
        BY <1>3, <4>1, <4>2
      <4> QED
        BY <3>1, <4>3
    <3>3. CASE event = NoEvent /\ event' # NoEvent
      <4>1. TimestampDefine /\ chain.loader = "Timestamp"
        BY <2>1, <3>3
      <4>2. PICK i \in Earliest(sorted) :
                event' = NewEvent(file[i].begin - (chain.event_length \div 2),
                                  file[i].begin + (chain.event_length \div 2))
        BY <4>1 DEF TimestampDefine
      <4>3. /\ chain.event_length \div 2 \in Nat /\ i \in sorted
            /\ file[i].begin \in Int
        <5>1. chain.event_length \in Nat
          BY ChainType DEF TypeInv, LoopOK
        <5>2. i \in sorted /\ file[i].begin \in Int
          BY TimeTypes DEF Earliest
        <5> QED
          BY <5>1, <5>2
      <4>4. event'.start - 1 \in Int /\ file[i].begin > event'.start - 1
        BY <4>2, <4>3 DEF NewEvent
      <4>5. \A j \in sorted : file[j].begin > event'.start - 1
        BY <4>4, TimeTypes, EarliestBeyond
      <4>6. SortedBeyond(event'.start - 1)
        BY <4>1, <4>4, <4>5, ReadyBeyond DEF TimestampDefine
      <4>7. signals = {}
        BY <4>1 DEF DataInv, PlacesInv
      <4>8. Beyond(event'.start - 1)
        BY <4>6, <4>7 DEF Beyond
      <4>9. Beyond(event.start - 1)'
        <5>1. UNCHANGED <<file, sorted, eof_reached>> /\ signals' = {}
          BY <1>1, <1>2, <4>1 DEF TimestampDefine, inputVars, LoaderMoves, PlacesInv
        <5> QED
          BY <1>2, <4>8, <5>1 DEF Beyond, SortedBeyond, Above
      <4> QED
        BY <3>1, <4>9
    <3> QED
      BY <3>1, <3>2, <3>3
  <2>4. DroppedInv'
    <3> SUFFICES ASSUME NEW x \in dropped
                 PROVE  /\ x[1] \in 1..Len(file')
                        /\ \A k \in DOMAIN events : events[k] # NoEvent => ~Inside(x[1], events[k])'
                        /\ at' \in Loading /\ event' # NoEvent => ~Inside(x[1], event)'
                        /\ \/ /\ x[2] \in DOMAIN events /\ events[x[2]] # NoEvent
                              /\ file'[x[1]].begin < events[x[2]].end
                           \/ /\ x[2] = Current /\ at' \in Loading /\ event' # NoEvent
                              /\ file'[x[1]].begin < event'.start
      BY <1>2, <2>1 DEF DroppedInv
    <3>1. x[1] \in 1..Len(file) /\ file'[x[1]] = file[x[1]] /\ x[1] \in 1..Len(file')
      BY <1>2 DEF DroppedInv
    <3>2. chain.definer # "none"
      BY DEF AloneInv
    <3>3. event = NoEvent => event' = NoEvent
      BY <2>2, <3>2
    <3>4. \A k \in DOMAIN events : events[k] # NoEvent => ~Inside(x[1], events[k])'
      BY <1>2, <3>1 DEF DroppedInv, Inside
    <3>5. at' \in Loading /\ event' # NoEvent => ~Inside(x[1], event)'
      BY <1>2, <3>1, <3>3 DEF DroppedInv, Inside
    <3>6. \/ /\ x[2] \in DOMAIN events /\ events[x[2]] # NoEvent
             /\ file'[x[1]].begin < events[x[2]].end
          \/ /\ x[2] = Current /\ at' \in Loading /\ event' # NoEvent
             /\ file'[x[1]].begin < event'.start
      BY <1>2, <2>1, <3>1 DEF DroppedInv
    <3> QED
      BY <3>1, <3>4, <3>5, <3>6
  <2> QED
    BY <1>4, <2>3, <2>4
<1> QED
  BY <1>1, <1>5, <1>6 DEF HitMoves

\* The end of the run is asked for by the definer, or at the end of an event.
LEMMA AskedStep ==
    ASSUME TypeInv, InLineInv, AskedInv, [Next]_vars
    PROVE  AskedInv'
<1> USE DEF AskedInv
<1>1. CASE UNCHANGED vars
  BY <1>1 DEF vars, dataVars, chain
<1>2. CASE BeginEvent
  BY <1>2 DEF BeginEvent, Loading
<1>3. CASE EndEvent
  BY <1>3 DEF EndEvent
<1>4. CASE Define
  <2>1. at \in Defining /\ UNCHANGED setup
    BY <1>4 DEF Define, MetronomeRun, Goto, M26Step, M26EndOfFile, M26FirstTLU, M26FirstM26,
                M26Advance, M26Refuse, M26Accept, M26Throw, Match, Defining
  <2>2. ~asked
    BY <2>1 DEF Defining, Loading
  <2>3. asked' => chain.definer = "M26" /\ at' = "load"
    BY <1>4, <2>2 DEF Define, MetronomeRun, M26Step, M26EndOfFile, M26FirstTLU, M26FirstM26,
                      M26Advance, M26Refuse, M26Accept, M26Throw
  <2> QED
    BY <2>1, <2>3 DEF Loading, chain
<1>5. CASE Load
  BY <1>5, LoadType DEF LoaderStep, chain, Loading
<1> QED
  BY <1>1, <1>2, <1>3, <1>4, <1>5 DEF Next

\* A definer places its event after all that was discarded; the end of an event
\* leaves what is to come beyond it.
LEMMA OthersLate ==
    ASSUME TypeInv, TypeInv', DataInv, InLineInv, InLineInv', AskedInv, HitsInLine, LateParts,
           Define \/ BeginEvent \/ EndEvent \/ UNCHANGED vars
    PROVE  LateParts'
<1> USE DEF LateParts
<1>1. /\ UNCHANGED <<setup, file, sorted, signals, eof_reached, dropped>>
      /\ chain' = chain /\ Len(events) \in Nat /\ DOMAIN events = 1..Len(events)
  BY DEF Define, M26Step, BeginEvent, EndEvent, vars, dataVars, inputVars, collectVars,
         loaderVars, chain, TypeInv, LoopOK
<1>2. /\ \A t : (Beyond(t)' <=> Beyond(t)) /\ (SortedBeyond(t)' <=> SortedBeyond(t))
      /\ \A i, e : Inside(i, e)' <=> Inside(i, e)
  BY <1>1 DEF Beyond, SortedBeyond, Above, Inside
<1>3. CASE UNCHANGED vars
  <2>1. UNCHANGED <<at, event, events, status>>
    BY <1>3 DEF vars, dataVars, historyVars
  <2>2. PastInv'
    BY <1>1, <1>2, <2>1 DEF PastInv
  <2>3. AloneInv'
    BY <1>1, <1>2, <2>1 DEF AloneInv
  <2>4. DroppedInv'
    BY <1>1, <2>1 DEF DroppedInv, Inside, Current
  <2> QED
    BY <2>2, <2>3, <2>4
<1>4. CASE BeginEvent
  <2>1. /\ at = "begin" /\ at' \in {"load", "define"} /\ event' = NoEvent /\ UNCHANGED events
    BY <1>4 DEF BeginEvent, historyVars
  <2> QED
    BY <1>1, <1>2, <2>1 DEF PastInv, AloneInv, DroppedInv, Loading
<1>5. CASE Define
  <2>1. /\ at \in Defining /\ at' \notin {"put", "return", "signals"} /\ UNCHANGED events
        /\ at' # "exit" => at' \in Defining \cup {"load"}
    BY <1>5 DEF Define, MetronomeRun, Goto, M26Step, M26EndOfFile, M26FirstTLU, M26FirstM26,
                M26Advance, M26Refuse, M26Accept, M26Throw, Match, Defining, historyVars
  <2>2. at \notin Loading /\ at # "exit" /\ chain.definer # "none"
    BY <2>1 DEF Defining, Loading, InLineInv
  <2>3. PastInv' /\ AloneInv'
    BY <1>1, <1>2, <2>1, <2>2 DEF PastInv, AloneInv
  <2>4. DroppedInv'
    <3> SUFFICES ASSUME NEW x \in dropped, at' \in Loading, event' # NoEvent
                 PROVE  ~Inside(x[1], event)'
      BY <1>1, <1>2, <2>1, <2>2 DEF DroppedInv
    <3>1. /\ x[1] \in 1..Len(file) /\ x[2] \in DOMAIN events /\ events[x[2]] # NoEvent
          /\ file[x[1]].begin < events[x[2]].end
      BY <2>2 DEF DroppedInv
    <3>2. event = NoEvent /\ ~asked
      BY <2>1, <2>2 DEF InLineInv, AskedInv
    <3>3. ~asked'
      BY <1>5, <3>2 DEF Define, MetronomeRun, M26Step, M26EndOfFile, M26FirstTLU,
                        M26FirstM26, M26Advance, M26Refuse, M26Accept, M26Throw
    <3>4. OverAt(event.start)'
      BY <1>1, <2>2, <3>3 DEF InLineInv, InLine, Loading
    <3>5. events[x[2]].end <= event'.start
      BY <2>1, <3>1, <3>4 DEF OverAt
    <3>6. file[x[1]].begin \in Int /\ events[x[2]].end \in Int
      BY <3>1, TimeTypes
    <3>7. event'.start \in Int
      BY DEF TypeInv, WindowOK, EventType
    <3> QED
      BY <1>1, <3>1, <3>5, <3>6, <3>7 DEF Inside
  <2> QED
    BY <2>3, <2>4
<1>6. CASE EndEvent
  <2>1. /\ at = "return" /\ at' \in {"begin", "exit"} /\ UNCHANGED event
        /\ events' = Append(events, event) /\ (status = "Failure" => at' = "exit")
    BY <1>6 DEF EndEvent
  <2>2. at \in Loading /\ at # "exit" /\ at' \notin Loading
    BY <2>1 DEF Loading
  <2>3. /\ events \in Seq(EventType \cup {NoEvent}) /\ event \in EventType \cup {NoEvent}
    BY DEF TypeInv, LoopOK, WindowOK
  <2>4. /\ DOMAIN events' = 1..(Len(events) + 1)
        /\ \A n \in 1..Len(events) : events'[n] = events[n]
        /\ events'[Len(events) + 1] = event
    BY <1>1, <2>1, <2>3, AppendProperties
  <2>5. PastInv'
    <3>1. ASSUME at' # "exit", NEW k \in DOMAIN events', events'[k] # NoEvent
          PROVE  Beyond(events'[k].end)
      <4>1. CASE k = Len(events) + 1
        BY <2>1, <2>4, <3>1, <4>1 DEF PastInv
      <4>2. CASE k \in 1..Len(events)
        BY <1>1, <2>2, <2>4, <3>1, <4>2 DEF PastInv
      <4> QED
        BY <1>1, <2>4, <4>1, <4>2
    <3> QED
      BY <1>2, <2>1, <3>1 DEF PastInv
  <2>6. AloneInv'
    BY <1>1, <2>1, <2>2 DEF AloneInv
  <2>7. DroppedInv'
    <3> SUFFICES ASSUME NEW x \in dropped
                 PROVE  /\ x[1] \in 1..Len(file)
                        /\ \A k \in DOMAIN events' :
                                events'[k] # NoEvent => ~Inside(x[1], events'[k])
                        /\ x[2] \in DOMAIN events'
                        /\ events'[x[2]] # NoEvent /\ file[x[1]].begin < events'[x[2]].end
      BY <1>1, <1>2, <2>2 DEF DroppedInv
    <3>1. /\ x[1] \in 1..Len(file)
          /\ \A k \in DOMAIN events : events[k] # NoEvent => ~Inside(x[1], events[k])
          /\ event # NoEvent => ~Inside(x[1], event)
          /\ \/ /\ x[2] \in DOMAIN events /\ events[x[2]] # NoEvent
                /\ file[x[1]].begin < events[x[2]].end
             \/ x[2] = Current /\ event # NoEvent /\ file[x[1]].begin < event.start
      BY <2>2 DEF DroppedInv
    <3>2. event # NoEvent /\ file[x[1]].begin < event.start => file[x[1]].begin < event.end
      BY <3>1, TimeTypes
    <3>3. \A k \in DOMAIN events' : events'[k] # NoEvent => ~Inside(x[1], events'[k])
      BY <1>1, <2>4, <3>1
    <3> QED
      BY <1>1, <2>4, <3>1, <3>2, <3>3 DEF Current
  <2> QED
    BY <2>5, <2>6, <2>7
<1> QED
  BY <1>3, <1>4, <1>5, <1>6

\* No hit that the sorting loaders discard as too early belongs to an event of the
\* run, for every file that is no more out of order than the buffer is deep: not to
\* the event at hand, not to one before it and not to one that comes.
THEOREM NoLateDataOfHits == Spec => [](HitsInLine => NoLateData)
<1>1. Init => LateInv
  BY DEF Init, DataInit, LateInv, AskedInv, PastInv, AloneInv, DroppedInv
<1>2. TypeInv /\ DataInv /\ InLineInv /\ InLineInv' /\ LateInv /\ [Next]_vars => LateInv'
  <2> SUFFICES ASSUME TypeInv, DataInv, InLineInv, InLineInv', LateInv, [Next]_vars
               PROVE  LateInv'
    OBVIOUS
  <2>1. TypeInv' /\ AskedInv'
    BY NextType, AskedStep DEF LateInv
  <2>2. UNCHANGED setup
    <3>1. Load => UNCHANGED setup
      BY LoadType DEF LoaderStep
    <3> QED
      BY <3>1 DEF Next, BeginEvent, EndEvent, Define, M26Step, vars, dataVars
  <2>3. HitsInLine => LateParts'
    BY <2>1, LoadLate, OthersLate DEF LateInv, LateParts, Next
  <2>4. HitsInLine' <=> HitsInLine
    BY <2>2 DEF HitsInLine, chain
  <2> QED
    BY <2>1, <2>3, <2>4 DEF LateInv, LateParts
<1>3. TypeInv /\ DataInv /\ LateInv => (HitsInLine => NoLateData)
  <2> SUFFICES ASSUME TypeInv, DataInv, LateInv, HitsInLine, NEW x \in dropped,
                      NEW k \in DOMAIN events, events[k] # NoEvent
               PROVE  ~BelongsTo(chain, file[x[1]], events[k])
    BY DEF NoLateData
  <2>1. x[1] \in 1..Len(file) /\ ~Inside(x[1], events[k])
    BY DEF LateInv, DroppedInv
  <2>2. file[x[1]].kind \in {"pixel", "signal"}
    BY <2>1 DEF DataInv, KindsInv, HitsInLine
  <2> QED
    BY <2>1, <2>2 DEF BelongsTo, Inside
<1> QED
  BY <1>1, <1>2, <1>3, DataInvariant, InLineInvariant, PTL DEF Spec
=============================================================================
