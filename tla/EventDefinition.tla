-------------------------- MODULE EventDefinition --------------------------
(***************************************************************************)
(* The modules that define events.                                         *)
(*                                                                         *)
(* Metronome: events of a fixed length, with a fixed number of triggers.   *)
(*                                                                         *)
(* EventDefinitionM26: events from two files, triggers with their time     *)
(* (TLU) and MIMOSA26 frames with their trigger and pivot.  Both are read  *)
(* until the triggers agree.  Records the readers filter out (a TLU time   *)
(* before skip_time, a pivot outside its limits, other detectors) are left *)
(* out; trigger numbers are unsigned, of TriggerRange values.              *)
(***************************************************************************)
EXTENDS EventData

CONSTANTS
    TriggerRange,   \* 2^32 in the code
    framelength_,
    MaxRecords      \* bound: records read from the two files

ASSUME M26Assumption ==
    /\ TriggerRange \in Nat \ {0} /\ framelength_ \in Nat /\ MaxRecords \in Nat
    /\ \A n \in DOMAIN Chains :
        /\ Chains[n].layer \in {"timing", "all_hits", "pivot_hits"}
        /\ \A r \in Chains[n].tlu_data : r.trigger \in 0..(TriggerRange - 1)

-----------------------------------------------------------------------------
(* Metronome *)

VARIABLES m_eventStart, m_eventEnd, m_triggers

metronomeVars == <<m_eventStart, m_eventEnd, m_triggers>>

MetronomeInit ==
    /\ m_eventStart = chain.skip_time
    /\ m_eventEnd = chain.skip_time + chain.event_length
    /\ m_triggers = chain.skip_triggers

\* The triggers are at the centre of the event.
Beats(n) ==
    (m_triggers..(m_triggers + n - 1)) \X {(m_eventStart + m_eventEnd) \div 2}

MetronomeRun ==
    /\ chain.definer = "Metronome" /\ Goto("define", "load")
    /\ event' = [NewEvent(m_eventStart, m_eventEnd)
                    EXCEPT !.trigger_list = Beats(chain.triggers)]
    /\ m_triggers' = m_triggers + chain.triggers
    /\ m_eventStart' = m_eventEnd
    /\ m_eventEnd' = m_eventEnd + chain.event_length

-----------------------------------------------------------------------------
(* EventDefinitionM26 *)

VARIABLES
    triggerTLU_, triggerM26_,
    time_trig_start_, time_before_, time_after_,
    time_prev_,             \* the trigger time of the last event
    time_trig_stop_prev_,   \* the end of the last event
    \* History: the last record read from each file, and how many were read.
    tlu, m26, records

triggerVars == <<triggerTLU_, triggerM26_>>
timeVars == <<time_trig_start_, time_before_, time_after_>>
prevVars == <<time_prev_, time_trig_stop_prev_>>
m26Vars == <<triggerVars, timeVars, prevVars, tlu, m26, records>>

NoRecord == [trigger |-> -1, time |-> 0]

M26Init ==
    /\ triggerTLU_ = 0 /\ triggerM26_ = 0
    /\ time_trig_start_ = 0 /\ time_before_ = 0 /\ time_after_ = 0
    /\ time_prev_ = 0 /\ time_trig_stop_prev_ = 0
    /\ tlu = NoRecord /\ m26 = NoRecord /\ records = 0

-----------------------------------------------------------------------------
(* get_next_event_with_det; both files are in the order of their triggers *)

NextRecord == records < MaxRecords /\ records' = records + 1

ReadTLU ==
    /\ NextRecord
    /\ \E r \in chain.tlu_data :
        /\ r.trigger > tlu.trigger /\ r.time >= chain.skip_time
        /\ tlu' = r
        /\ triggerTLU_' = r.trigger
        /\ time_trig_start_' = r.time
    /\ UNCHANGED <<triggerM26_, time_before_, time_after_, m26>>

\* Mutation: the trigger is not shifted.
ReadM26Unshifted ==
    /\ NextRecord
    /\ \E r \in chain.m26_data :
        /\ r.trigger > m26.trigger
        /\ m26' = r
        /\ triggerM26_' = r.trigger
        /\ time_before_' = r.time
        /\ time_after_' = 2 * framelength_
    /\ UNCHANGED <<triggerTLU_, time_trig_start_, tlu>>

\* The frame reaches back to its pivot and ends after the second frame.
ReadM26 ==
    /\ NextRecord
    /\ \E r \in chain.m26_data :
        /\ r.trigger > m26.trigger
        /\ m26' = r
        /\ triggerM26_' = (r.trigger + chain.shift_triggers) % TriggerRange
        /\ time_before_' = r.time
        /\ time_after_' = 2 * framelength_
    /\ UNCHANGED <<triggerTLU_, time_trig_start_, tlu>>

\* EndOfFile: the run ends after this event, which the later modules still get.
M26EndOfFile ==
    /\ at \in {"define", "m26", "compare"}
    /\ at = "compare" => triggerTLU_ # triggerM26_
    /\ at' = "load" /\ asked' = TRUE
    /\ UNCHANGED <<event, m26Vars>>

-----------------------------------------------------------------------------
(* run() *)

M26FirstTLU ==
    /\ Goto("define", "m26") /\ ReadTLU
    /\ UNCHANGED <<event, asked, prevVars>>

M26FirstM26 ==
    /\ Goto("m26", "compare") /\ ReadM26
    /\ UNCHANGED <<event, asked, prevVars>>

M26Advance ==
    /\ at = "compare" /\ UNCHANGED at
    /\ \/ triggerTLU_ < triggerM26_ /\ ReadTLU
       \/ triggerTLU_ > triggerM26_ /\ ReadM26
    /\ UNCHANGED <<event, asked, prevVars>>

\* How far the event reaches before and after the trigger.
Before ==
    IF chain.layer = "timing" THEN time_before_ + chain.add_begin
    ELSE IF chain.layer = "all_hits" THEN time_before_ + framelength_
    ELSE framelength_

After ==
    IF chain.layer = "timing" THEN time_after_ - chain.add_begin + chain.add_end
    ELSE time_after_

time_trig == time_trig_start_ - chain.time_shift
evtBegin == time_trig - Before
evtEnd == time_trig + After

Match == at = "compare" /\ triggerTLU_ = triggerM26_

\* Mutation: the end of the last event is not looked at.
RefusedOverlapping ==
    \/ evtBegin < chain.skip_time
    \/ time_trig < time_prev_

Refused ==
    \/ evtBegin < chain.skip_time
    \/ time_trig < time_prev_
    \/ evtBegin < time_trig_stop_prev_

\* Mutation: the trigger is not decremented.
M26RefuseAgain ==
    /\ Match /\ Refused
    /\ time_before_' = Before /\ time_after_' = After
    /\ UNCHANGED <<at, event, asked, triggerVars, time_trig_start_, prevVars,
                   tlu, m26, records>>

\* Mutation: the trigger is a signed number.
M26RefuseSigned ==
    /\ Match /\ Refused
    /\ time_before_' = Before /\ time_after_' = After
    /\ triggerTLU_' = triggerTLU_ - 1
    /\ UNCHANGED <<at, event, asked, triggerM26_, time_trig_start_, prevVars,
                   tlu, m26, records>>

\* The decrement makes the next comparison read a trigger.
M26Refuse ==
    /\ Match /\ Refused
    /\ time_before_' = Before /\ time_after_' = After
    /\ triggerTLU_' = (triggerTLU_ - 1) % TriggerRange
    /\ UNCHANGED <<at, event, asked, triggerM26_, time_trig_start_, prevVars,
                   tlu, m26, records>>

M26Accept ==
    /\ Match /\ ~Refused /\ WellFormed(evtBegin, evtEnd)
    /\ at' = "load" /\ UNCHANGED status
    /\ time_before_' = Before /\ time_after_' = After
    /\ time_prev_' = time_trig
    /\ time_trig_stop_prev_' = evtEnd
    /\ LET e == NewEvent(evtBegin, evtEnd)
       IN  event' = IF chain.add_trigger THEN AddTrigger(e, triggerTLU_, time_trig) ELSE e
    /\ UNCHANGED <<asked, triggerVars, time_trig_start_, tlu, m26, records>>

\* The constructor of the event throws.
M26Throw ==
    /\ Match /\ ~Refused /\ ~WellFormed(evtBegin, evtEnd)
    /\ at' = "exit" /\ status' = "exception"
    /\ time_before_' = Before /\ time_after_' = After
    /\ time_prev_' = time_trig
    /\ time_trig_stop_prev_' = evtEnd
    /\ UNCHANGED <<event, asked, triggerVars, time_trig_start_, tlu, m26, records>>

M26Step ==
    /\ chain.definer = "M26"
    /\ \/ /\ M26EndOfFile \/ M26FirstTLU \/ M26FirstM26 \/ M26Advance \/ M26Refuse
          /\ UNCHANGED status
       \/ M26Accept \/ M26Throw
    /\ UNCHANGED <<setup, inputVars, collectVars, historyVars>>
=============================================================================
