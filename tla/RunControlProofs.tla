--------------------------- MODULE RunControlProofs ---------------------------
(***************************************************************************)
(* Theorems about RunControl, for every set of collections, any number of  *)
(* modules, all limits and any number of operations of a module.           *)
(***************************************************************************)
EXTENDS RunControl, SequenceTheorems, FiniteSetTheorems,
        WellFoundedInduction, TLAPS

\* Where main() is: before the event loop, in it, and after it.
BeforeLoop == BeforeRun \/ pc = "starting"

InLoop == pc \in {"event", "loop", "module", "after"}

Locations ==
    {"start", "built", "load", "loading", "init", "initializing", "run",
     "starting", "event", "loop", "module", "after", "finalize", "finalizing",
     "caught", "clean", "exiting"} \cup Ends

-----------------------------------------------------------------------------
(* The inductive invariant *)

\* The types.  Nothing is said of m_tracks: it comes from a fold over the slots
\* with tracks, and what a fold computes is out of the provers' reach.
TypeOK ==
    /\ data \in [Slots -> Seq(Objects)]
    /\ persistent \in [Slots -> Seq(Objects)]
    /\ event \in Events \cup {NoEvent}
    /\ pc \in Locations
    /\ corry \in BOOLEAN /\ cv_ready \in BOOLEAN
    /\ terminate_ \in BOOLEAN /\ m_terminate \in BOOLEAN
    /\ has_run_ \in BOOLEAN
    /\ limits \in Limits
    /\ modules \in Nat
    /\ k \in Nat \ {0} /\ ops \in Nat /\ fresh \in 0..MaxCount
    /\ run \in BOOLEAN
    /\ m_events \in Nat
    /\ return_code \in {0, 1}
    /\ begun \in BOOLEAN
    /\ epoch \in {0, 1}
    /\ last_start \in Events \cup {NoEvent}
    /\ skipped \in BOOLEAN /\ asked \in BOOLEAN
    /\ may_begin \in {"any", "one", "none"}
    /\ initialized \in Nat /\ finalized \in Nat

\* The pointer is gone only before the flag is set or after clean(), and a request to
\* terminate that was taken has set both flags.
SignalInv ==
    /\ pc = "built" => corry
    /\ cv_ready /\ ~corry => pc \in {"exiting", "ended", "crashed"}
    /\ may_begin # "any" /\ pc \notin Ends => terminate_ /\ m_terminate

\* Nothing is on the clipboard when an event begins, and no event is defined.
DataInv ==
    /\ BeforeLoop \/ pc = "event" => event = NoEvent /\ \A s \in Slots : data[s] = <<>>
    /\ EventIsolation

\* What may still begin an event, and what the loop knows of the last one.
LoopInv ==
    /\ pc \in {"starting", "event"} => may_begin # "none"
    /\ BeforeLoop \/ pc = "event" => ~asked
    /\ pc \in {"loop", "module", "after"} /\ asked => ~run
    /\ pc \in {"loop", "module", "after"} => last_start = event
    /\ pc = "event" /\ begun => WithinLimits
    /\ pc \in {"loop", "module"} => ~skipped

\* No event was begun, no module finalized.
Untouched == ~has_run_ /\ ~begun /\ finalized = 0

\* How far the modules are.
PhaseInv ==
    /\ BeforeLoop => Untouched
    /\ pc \in {"start", "built", "load", "loading", "init"} => initialized = 0
    /\ pc = "initializing" => initialized = k - 1 /\ k <= modules + 1
    /\ pc = "run" => terminate_ \/ initialized = modules
    /\ pc = "starting" \/ InLoop => initialized = modules
    /\ InLoop => finalized = 0
    /\ pc = "finalize" =>
         \/ has_run_ /\ initialized = modules /\ finalized = 0
         \/ terminate_ /\ Untouched
    /\ pc = "finalizing" => /\ has_run_
                            /\ initialized = modules
                            /\ finalized = k - 1 /\ k <= modules + 1

\* A program that is to end with 0 did all or nothing.
EndInv ==
    pc \in {"clean", "exiting", "ended", "crashed"} /\ return_code = 0 =>
        \/ has_run_ /\ initialized = modules /\ finalized = modules
        \/ terminate_ /\ Untouched

Inv ==
    /\ TypeOK
    /\ SignalInv
    /\ DataInv
    /\ LoopInv
    /\ PhaseInv
    /\ EndInv

-----------------------------------------------------------------------------
(* The sequences on the clipboard *)

\* A sequence is a prefix of itself and of what is appended to it.
LEMMA PrefixOfAppended ==
    ASSUME NEW S, NEW s \in Seq(S), NEW t \in Seq(S)
    PROVE  IsPrefix(s, s) /\ IsPrefix(s, s \o t)
<1>1. Len(s \o t) = Len(s) + Len(t) /\ Len(s) \in Nat /\ Len(t) \in Nat
  BY ConcatProperties, LenProperties
<1>2. SubSeq(s \o t, 1, Len(s)) = SubSeq(s, 1, Len(s))
  <2>1. CASE Len(s) = 0
    BY <2>1, SubSeqEmpty
  <2>2. CASE Len(s) > 0
    <3>1. 1 \in 1..Len(s) /\ Len(s) \in 1..Len(s)
      BY <1>1, <2>2
    <3> QED
      BY <3>1, SubSeqOfConcat1
  <2> QED
    BY <1>1, <2>1, <2>2
<1> QED
  BY <1>1, <1>2 DEF IsPrefix

\* A nonempty set of numbers has a least one.
LEMMA LeastNumber ==
    ASSUME NEW I \in SUBSET Nat, I # {}
    PROVE  \E i \in I : \A j \in I : i <= j
<1> DEFINE R == OpToRel(<, Nat)
<1>1. IsWellFoundedOn(R, Nat)
  BY NatLessThanWellFounded
<1>2. \A x, y \in Nat : x < y => <<x, y>> \in R
  BY DEF OpToRel
<1> HIDE DEF R
<1>3. PICK i \in I : \A j \in I : ~(<<j, i>> \in R)
  BY <1>1, WFMin
<1>4. \A j \in I : ~(j < i)
  BY <1>2, <1>3, Zenon
<1> QED
  BY <1>3, <1>4

\* Removing an object from a collection leaves objects of that collection.
LEMMA RemoveFirstRange ==
    ASSUME NEW S, NEW s \in Seq(S), NEW e
    PROVE  /\ RemoveFirst(s, e) \in Seq(S)
           /\ Range(RemoveFirst(s, e)) \subseteq Range(s)
<1>1. CASE ~\E i \in 1..Len(s) : s[i] = e
  BY <1>1 DEF RemoveFirst
<1>2. CASE \E i \in 1..Len(s) : s[i] = e
  <2> DEFINE I == {i \in 1..Len(s) : s[i] = e}
             m == SelectInSeq(s, LAMBDA v : v = e)
             before == SubSeq(s, 1, m - 1)
             after == SubSeq(s, m + 1, Len(s))
  <2>1. Len(s) \in Nat /\ s \in [1..Len(s) -> S]
    BY LenProperties
  <2>2. m \in 1..Len(s)
    <3>1. I # {} /\ I \in SUBSET Nat
      BY <1>2, <2>1
    <3>2. m = Min(I)
      BY <3>1 DEF SelectInSeq
    <3>3. Min(I) \in I
      BY <3>1, LeastNumber DEF Min
    <3> QED
      BY <3>2, <3>3
  <2> HIDE DEF m
  <2>3. before \in Seq(Range(s)) /\ after \in Seq(Range(s))
    <3>1. \A i \in 1..Len(s) : s[i] \in Range(s)
      BY <2>1 DEF Range
    <3>2. \A i \in 1..(m - 1) : s[i] \in Range(s)
      BY <2>1, <2>2, <3>1
    <3>3. \A i \in (m + 1)..Len(s) : s[i] \in Range(s)
      BY <2>1, <2>2, <3>1
    <3> QED
      BY <2>1, <2>2, <3>2, <3>3, SubSeqProperties
  <2>4. RemoveFirst(s, e) = before \o after
    BY <1>2 DEF RemoveFirst, RemoveAt, m
  <2>5. RemoveFirst(s, e) \in Seq(Range(s))
    BY <2>3, <2>4, ConcatProperties
  <2>6. Range(s) \subseteq S
    BY RangeOfSeq
  <2> QED
    BY <2>5, <2>6, RangeOfSeq, SeqMonotonic
<1> QED
  BY <1>1, <1>2

\* The objects a module makes are a sequence of objects of the event at hand.
LEMMA NewObjectsOfEvent ==
    ASSUME TypeOK, NEW n \in 1..MaxCount - fresh
    PROVE  /\ NewObjects(n) \in Seq(Objects)
           /\ \A object \in Range(NewObjects(n)) : object[1] = epoch
           /\ fresh + n \in 0..MaxCount
<1>1. n \in Nat /\ fresh \in Nat /\ fresh + n <= MaxCount /\ MaxCount \in Nat
  BY RunAssumption DEF TypeOK
<1>2. \A i \in 1..n : <<epoch, fresh + i>> \in Objects
  BY <1>1, RunAssumption DEF TypeOK
<1>3. NewObjects(n) \in [1..n -> Objects]
  BY <1>2 DEF NewObjects
<1> QED
  BY <1>1, <1>3, SeqDef DEF NewObjects, Range

\* An order of the references to copy is a sequence of objects.
LEMMA CopyIsSequence ==
    ASSUME TypeOK, NEW s \in Slots, NEW references \in SUBSET Range(data[s]),
           NEW order \in SetToSeqs(references)
    PROVE  order \in Seq(Objects)
<1>1. data[s] \in Seq(Objects)
  BY DEF TypeOK
<1>2. IsFiniteSet(Range(data[s])) /\ Range(data[s]) \subseteq Objects
  <2>1. Range(data[s]) = {data[s][i] : i \in 1..Len(data[s])}
    BY <1>1, RangeEquality
  <2>2. Len(data[s]) \in Nat
    BY <1>1, LenProperties
  <2>3. IsFiniteSet(1..Len(data[s]))
    BY <2>2, FS_Interval
  <2>4. data[s] \in Surjection(1..Len(data[s]), Range(data[s]))
    BY <1>1, <2>1, LenProperties DEF Surjection
  <2>5. IsFiniteSet(Range(data[s]))
    BY <2>3, <2>4, FS_Surjection
  <2> QED
    BY <1>1, <2>5, RangeOfSeq
<1>3. Cardinality(references) \in Nat
  BY <1>2, FS_Subset, FS_CardinalityType
<1>4. order \in [1..Cardinality(references) -> references]
  BY DEF SetToSeqs
<1>5. order \in [1..Cardinality(references) -> Objects]
  BY <1>2, <1>4
<1> QED
  BY <1>3, <1>5, SeqDef
-----------------------------------------------------------------------------
(* Type correctness *)

\* What a module does to the clipboard keeps the types.
LEMMA ModuleOperationType ==
    ASSUME TypeOK, ModuleOperation
    PROVE  TypeOK'
<1> USE DEF TypeOK, setupVars, flagVars
<1>1. CASE \E s \in Slots, n \in 1..MaxCount - fresh :
              PutData(s, NewObjects(n)) /\ fresh' = fresh + n
  BY <1>1, NewObjectsOfEvent DEF ModuleOperation, PutData
<1>2. CASE \E s \in Slots :
              /\ fresh < MaxCount
              /\ PutPersistentData(s, NewObjects(1)) /\ fresh' = fresh + 1
  <2>1. PICK s \in Slots : PutPersistentData(s, NewObjects(1))
    BY <1>2
  <2>2. 1 \in 1..MaxCount - fresh
    BY <1>2, RunAssumption
  <2>3. persistent[s] \o NewObjects(1) \in Seq(Objects)
    BY <2>2, NewObjectsOfEvent, ConcatProperties
  <2>4. fresh' \in 0..MaxCount
    BY <1>2, <2>2, NewObjectsOfEvent
  <2> QED
    BY <2>1, <2>3, <2>4 DEF ModuleOperation, PutPersistentData
<1>3. CASE /\ \E s \in Slots : \E object \in Range(data[s]) : RemoveData(s, object)
           /\ fresh' = fresh
  BY <1>3, RemoveFirstRange DEF ModuleOperation, RemoveData
<1>4. CASE /\ \E s \in Slots : \E references \in SUBSET Range(data[s]) :
                  CopyToPersistentData(s, references)
           /\ fresh' = fresh
  <2>0. PICK s \in Slots : \E references \in SUBSET Range(data[s]) :
            CopyToPersistentData(s, references)
    BY <1>4
  <2>1. PICK references \in SUBSET Range(data[s]) :
            CopyToPersistentData(s, references)
    BY <2>0
  <2>2. PICK order \in SetToSeqs(references) :
            persistent' = [persistent EXCEPT ![s] = @ \o order]
    BY <2>1 DEF CopyToPersistentData
  <2>3. persistent[s] \o order \in Seq(Objects)
    BY CopyIsSequence, ConcatProperties
  <2>4. UNCHANGED <<data, event>> /\ persistent' \in [Slots -> Seq(Objects)]
    BY <2>1, <2>2, <2>3 DEF CopyToPersistentData
  <2> QED
    BY <1>4, <2>4 DEF ModuleOperation
<1>5. CASE (\E e \in Events : PutEvent(e)) /\ fresh' = fresh
  BY <1>5 DEF ModuleOperation, PutEvent
<1> QED
  BY <1>1, <1>2, <1>3, <1>4, <1>5 DEF ModuleOperation

\* Every step keeps the types.
LEMMA TypeStep ==
    ASSUME TypeOK, [Next]_vars
    PROVE  TypeOK'
<1> USE DEF TypeOK, Locations, Ends, Goto, Throw,
            clipboardVars, setupVars, flagVars, runVars, loopVars, historyVars
<1>1. CASE Construct
  <2>1. corry' \in BOOLEAN /\ pc' \in Locations
    BY <1>1 DEF Construct
  <2>2. UNCHANGED <<clipboardVars, cv_ready, limits, flagVars, has_run_,
                    modules, runVars, return_code, initialized, finalized>>
    BY <1>1 DEF Construct
  <2> QED
    BY <2>1, <2>2
<1>2. CASE SetReady
  BY <1>2 DEF SetReady
<1>3. CASE Catch
  BY <1>3 DEF Catch
<1>4. CASE Clean
  <2>1. <<>> \in Seq(Objects)
    BY EmptySeq
  <2>2. /\ data' \in [Slots -> Seq(Objects)]
        /\ persistent' \in [Slots -> Seq(Objects)]
        /\ event' \in Events \cup {NoEvent}
    BY <1>4, <2>1 DEF Clean
  <2>3. pc' \in Locations /\ corry' \in BOOLEAN
    BY <1>4 DEF Clean
  <2> QED
    BY <1>4, <2>2, <2>3 DEF Clean
<1>5. CASE Exit
  BY <1>5 DEF Exit
<1>6. CASE EnterPhase
  BY <1>6 DEF EnterPhase, Phases
<1>7. CASE Load
  <2>1. modules' \in Nat /\ pc' \in Locations
    <3>1. ModuleCounts \subseteq Nat
      BY RunAssumption
    <3> QED
      BY <1>7, <3>1 DEF Load
  <2>2. UNCHANGED <<clipboardVars, setupVars, flagVars, has_run_, runVars,
                    return_code, initialized, finalized>>
    BY <1>7 DEF Load
  <2> QED
    BY <2>1, <2>2
<1>8. CASE InitializeModule
  BY <1>8 DEF InitializeModule
<1>9. CASE InitializeEnd
  BY <1>9 DEF InitializeEnd
<1>10. CASE EnterFinalize
  BY <1>10 DEF EnterFinalize
<1>11. CASE FinalizeModule
  BY <1>11 DEF FinalizeModule
<1>12. CASE FinalizeEnd
  BY <1>12 DEF FinalizeEnd
<1>13. CASE StartLoop
  BY <1>13 DEF StartLoop
<1>14. CASE BeginEvent
  <2>1. /\ pc' \in Locations /\ k' \in Nat \ {0}
        /\ may_begin' \in {"any", "one", "none"}
    BY <1>14 DEF BeginEvent
  <2>4. run' \in BOOLEAN /\ skipped' \in BOOLEAN
    BY <1>14, Zenon DEF BeginEvent
  <2>3. fresh' \in 0..MaxCount /\ epoch' \in {0, 1}
    <3>1. MaxCount \in Nat
      BY RunAssumption
    <3> QED
      BY <1>14, <3>1 DEF BeginEvent
  <2>5. begun' \in BOOLEAN /\ last_start' \in Events \cup {NoEvent}
    BY <1>14, Zenon DEF BeginEvent
  <2>2. UNCHANGED <<clipboardVars, setupVars, flagVars, has_run_, modules, ops,
                    m_events, m_tracks, asked, return_code, initialized,
                    finalized>>
    BY <1>14 DEF BeginEvent
  <2> QED
    BY <2>1, <2>2, <2>3, <2>4, <2>5
<1>15. CASE CallModule
  BY <1>15 DEF CallModule
<1>16. CASE ModuleThrows
  BY <1>16 DEF ModuleThrows
<1>17. CASE ModuleReturns
  <2>0. PICK status \in Statuses :
            /\ skipped' = (status \in {"DeadTime", "Failure"})
            /\ pc' = IF Skips(status) THEN "after" ELSE "loop"
            /\ run' = IF Stops(status) THEN FALSE ELSE run
            /\ asked' = (asked \/ status \in {"EndRun", "Failure"})
    BY <1>17, Zenon DEF ModuleReturns
  <2>1. pc' \in Locations /\ k' \in Nat \ {0} /\ ops' \in Nat
    BY <1>17, <2>0 DEF ModuleReturns
  <2>3. run' \in BOOLEAN
    BY <2>0
  <2>4. asked' \in BOOLEAN /\ skipped' \in BOOLEAN
    <3>1. /\ \A b, c : (b \/ c) \in BOOLEAN
          /\ (status \in {"DeadTime", "Failure"}) \in BOOLEAN
      OBVIOUS
    <3> QED
      BY <2>0, <3>1, Zenon
  <2>2. UNCHANGED <<clipboardVars, setupVars, flagVars, has_run_, modules, fresh,
                    m_events, m_tracks, begun, epoch, last_start, may_begin,
                    return_code, initialized, finalized>>
    BY <1>17 DEF ModuleReturns
  <2> QED
    BY <2>1, <2>2, <2>3, <2>4
<1>18. CASE AllModulesRun
  BY <1>18 DEF AllModulesRun
<1>19. CASE EndEvent
  <2>1. m_events' \in Nat
    <3>1. Count(m_events + 1, limits.events) \in Nat
      BY RunAssumption DEF Count
    <3> QED
      BY <1>19, <3>1 DEF EndEvent
  <2>2. pc' \in Locations /\ has_run_' \in BOOLEAN
    BY <1>19 DEF EndEvent
  <2>3. /\ data' \in [Slots -> Seq(Objects)]
        /\ persistent' \in [Slots -> Seq(Objects)]
        /\ event' \in Events \cup {NoEvent}
    BY <1>19, EmptySeq DEF EndEvent, Clear
  <2>4. UNCHANGED <<setupVars, flagVars, modules, k, ops, fresh, run,
                    historyVars, return_code, initialized, finalized>>
    BY <1>19 DEF EndEvent
  <2> QED
    BY <2>1, <2>2, <2>3, <2>4
<1>20. CASE Interrupt
  <2>1. /\ pc' \in Locations /\ terminate_' \in BOOLEAN /\ m_terminate' \in BOOLEAN
        /\ may_begin' \in {"any", "one", "none"}
    BY <1>20 DEF Interrupt
  <2>2. UNCHANGED <<clipboardVars, setupVars, has_run_, modules, k, ops, fresh,
                    run, m_events, m_tracks, begun, epoch, last_start, skipped,
                    asked, return_code, initialized, finalized>>
    BY <1>20 DEF Interrupt
  <2> QED
    BY <2>1, <2>2
<1>21. CASE ModuleOperation
  BY <1>21, ModuleOperationType
<1>22. CASE UNCHANGED vars
  BY <1>22 DEF vars
<1> QED
  BY <1>1, <1>2, <1>3, <1>4, <1>5, <1>6, <1>7, <1>8, <1>9, <1>10, <1>11, <1>12, <1>13, <1>14, <1>15, <1>16, <1>17, <1>18, <1>19, <1>20, <1>21, <1>22 DEF Next, Main

\* Every step keeps what is known of the flags.
LEMMA SignalStep ==
    ASSUME Inv, [Next]_vars
    PROVE  SignalInv'
<1> USE DEF Inv, TypeOK, Locations, Ends, Goto, Throw, BeforeLoop, BeforeRun,
            InLoop, SignalInv,
            setupVars, flagVars, runVars, loopVars, historyVars
<1>1. CASE Construct
  BY <1>1 DEF Construct
<1>2. CASE SetReady
  BY <1>2 DEF SetReady
<1>3. CASE Catch
  BY <1>3 DEF Catch
<1>4. CASE Clean
  BY <1>4 DEF Clean
<1>5. CASE Exit
  BY <1>5 DEF Exit
<1>6. CASE EnterPhase
  BY <1>6 DEF EnterPhase, Phases
<1>7. CASE Load
  BY <1>7 DEF Load
<1>8. CASE InitializeModule
  BY <1>8 DEF InitializeModule
<1>9. CASE InitializeEnd
  BY <1>9 DEF InitializeEnd
<1>10. CASE EnterFinalize
  BY <1>10 DEF EnterFinalize
<1>11. CASE FinalizeModule
  BY <1>11 DEF FinalizeModule
<1>12. CASE FinalizeEnd
  BY <1>12 DEF FinalizeEnd
<1>13. CASE StartLoop
  BY <1>13 DEF StartLoop
<1>14. CASE BeginEvent
  BY <1>14 DEF BeginEvent
<1>15. CASE CallModule
  BY <1>15 DEF CallModule
<1>16. CASE ModuleOperation
  BY <1>16 DEF ModuleOperation
<1>17. CASE ModuleThrows
  BY <1>17 DEF ModuleThrows
<1>18. CASE ModuleReturns
  BY <1>18 DEF ModuleReturns, Skips, Stops, Statuses
<1>19. CASE AllModulesRun
  BY <1>19 DEF AllModulesRun
<1>20. CASE EndEvent
  BY <1>20 DEF EndEvent, LoopEnds
<1>21. CASE Interrupt
  BY <1>21 DEF Interrupt
<1>22. CASE UNCHANGED vars
  BY <1>22 DEF vars
<1> QED
  BY <1>1, <1>2, <1>3, <1>4, <1>5, <1>6, <1>7, <1>8, <1>9, <1>10, <1>11, <1>12, <1>13, <1>14, <1>15, <1>16, <1>17, <1>18, <1>19, <1>20, <1>21, <1>22 DEF Next, Main

\* Every step keeps what is known of the loop.
LEMMA LoopStep ==
    ASSUME Inv, [Next]_vars
    PROVE  LoopInv'
<1> USE DEF Inv, TypeOK, Locations, Ends, Goto, Throw, BeforeLoop, BeforeRun,
            InLoop, LoopInv, WithinLimits,
            clipboardVars, setupVars, flagVars, runVars, loopVars, historyVars
<1>1. CASE Construct
  BY <1>1 DEF Construct
<1>2. CASE SetReady
  BY <1>2 DEF SetReady
<1>3. CASE Catch
  BY <1>3 DEF Catch
<1>4. CASE Clean
  BY <1>4 DEF Clean
<1>5. CASE Exit
  BY <1>5 DEF Exit
<1>6. CASE EnterPhase
  <2>1. \/ pc \in {"load", "init"} /\ pc' \in {"loading", "initializing", "init", "run"}
        \/ pc = "run" /\ pc' = "finalize"
        \/ pc = "run" /\ ~terminate_ /\ pc' = "starting"
    BY <1>6 DEF EnterPhase, Phases
  <2>2. UNCHANGED <<loopVars, limits>>
    BY <1>6 DEF EnterPhase
  <2>3. ~terminate_ /\ pc = "run" => may_begin = "any"
    BY DEF SignalInv
  <2> QED
    BY <2>1, <2>2, <2>3
<1>7. CASE Load
  BY <1>7 DEF Load
<1>8. CASE InitializeModule
  BY <1>8 DEF InitializeModule
<1>9. CASE InitializeEnd
  BY <1>9 DEF InitializeEnd
<1>10. CASE EnterFinalize
  BY <1>10 DEF EnterFinalize
<1>11. CASE FinalizeModule
  BY <1>11 DEF FinalizeModule
<1>12. CASE FinalizeEnd
  BY <1>12 DEF FinalizeEnd
<1>13. CASE StartLoop
  BY <1>13 DEF StartLoop, PhaseInv, Untouched
<1>14. CASE BeginEvent
  BY <1>14 DEF BeginEvent, DataInv
<1>15. CASE CallModule
  BY <1>15 DEF CallModule
<1>16. CASE ModuleOperation
  BY <1>16 DEF ModuleOperation
<1>17. CASE ModuleThrows
  BY <1>17 DEF ModuleThrows
<1>18. CASE ModuleReturns
  BY <1>18 DEF ModuleReturns, Skips, Stops, Statuses
<1>19. CASE AllModulesRun
  BY <1>19 DEF AllModulesRun
<1>20. CASE EndEvent
  <2>1. UNCHANGED <<asked, run, skipped, may_begin, limits>>
    BY <1>20 DEF EndEvent
  <2>2. CASE pc' = "finalize"
    BY <2>1, <2>2
  <2>3. CASE pc' = "event"
    <3>1. ~LoopEnds(m_events', m_tracks')
      BY <1>20, <2>3 DEF EndEvent
    <3>2. ~asked /\ may_begin # "none"
      BY <1>20, <3>1 DEF EndEvent, LoopEnds, SignalInv
    <3>3. limits.events \in Int /\ limits.tracks \in Int
      BY RunAssumption
    <3>4. limits.events >= 0 => ~(m_events' >= limits.events)
      BY <3>1, <3>3 DEF LoopEnds, EventLimit
    <3>5. limits.tracks >= 0 => ~(m_tracks' >= limits.tracks)
      BY <3>1, <3>3 DEF LoopEnds, TrackLimit
    <3>6. last_start' = event /\ begun' = begun
      BY <1>20 DEF EndEvent
    <3>7. limits.time > 0 /\ last_start' # NoEvent => ~(last_start' >= limits.time)
      BY <3>1, <3>6 DEF LoopEnds, TimeLimit
    <3> QED
      BY <2>1, <2>3, <3>2, <3>4, <3>5, <3>7
  <2> QED
    BY <1>20, <2>2, <2>3 DEF EndEvent
<1>21. CASE Interrupt
  BY <1>21 DEF Interrupt
<1>22. CASE UNCHANGED vars
  BY <1>22 DEF vars
<1> QED
  BY <1>1, <1>2, <1>3, <1>4, <1>5, <1>6, <1>7, <1>8, <1>9, <1>10, <1>11, <1>12, <1>13, <1>14, <1>15, <1>16, <1>17, <1>18, <1>19, <1>20, <1>21, <1>22 DEF Next, Main

\* Every step keeps what is known of the phases.
LEMMA PhaseStep ==
    ASSUME Inv, [Next]_vars
    PROVE  PhaseInv'
<1> USE DEF Inv, TypeOK, Locations, Ends, Goto, Throw, BeforeLoop, BeforeRun,
            InLoop, PhaseInv, Untouched,
            setupVars, flagVars, runVars, loopVars, historyVars
<1>1. CASE Construct
  BY <1>1 DEF Construct
<1>2. CASE SetReady
  BY <1>2 DEF SetReady
<1>3. CASE Catch
  BY <1>3 DEF Catch
<1>4. CASE Clean
  BY <1>4 DEF Clean
<1>5. CASE Exit
  BY <1>5 DEF Exit
<1>6. CASE EnterPhase
  BY <1>6 DEF EnterPhase, Phases
<1>7. CASE Load
  BY <1>7 DEF Load
<1>8. CASE InitializeModule
  <2>1. CASE pc' = "caught"
    BY <1>8, <2>1 DEF InitializeModule
  <2>2. CASE pc' = pc
    <3>1. initialized' = k /\ k' = k + 1 /\ k <= modules
      BY <1>8, <2>2 DEF InitializeModule
    <3>2. initialized' = k' - 1 /\ k' <= modules + 1
      BY <3>1
    <3> QED
      BY <1>8, <2>2, <3>2 DEF InitializeModule
  <2> QED
    BY <1>8, <2>1, <2>2 DEF InitializeModule
<1>9. CASE InitializeEnd
  BY <1>9 DEF InitializeEnd
<1>10. CASE EnterFinalize
  BY <1>10 DEF EnterFinalize
<1>11. CASE FinalizeModule
  <2>1. CASE pc' = "caught"
    BY <1>11, <2>1 DEF FinalizeModule
  <2>2. CASE pc' = pc
    <3>1. finalized' = k /\ k' = k + 1 /\ k <= modules
      BY <1>11, <2>2 DEF FinalizeModule
    <3>2. finalized' = k' - 1 /\ k' <= modules + 1
      BY <3>1
    <3> QED
      BY <1>11, <2>2, <3>2 DEF FinalizeModule
  <2> QED
    BY <1>11, <2>1, <2>2 DEF FinalizeModule
<1>12. CASE FinalizeEnd
  BY <1>12 DEF FinalizeEnd
<1>13. CASE StartLoop
  BY <1>13 DEF StartLoop
<1>14. CASE BeginEvent
  BY <1>14 DEF BeginEvent
<1>15. CASE CallModule
  BY <1>15 DEF CallModule
<1>16. CASE ModuleOperation
  BY <1>16 DEF ModuleOperation
<1>17. CASE ModuleThrows
  BY <1>17 DEF ModuleThrows
<1>18. CASE ModuleReturns
  BY <1>18 DEF ModuleReturns, Skips, Stops, Statuses
<1>19. CASE AllModulesRun
  BY <1>19 DEF AllModulesRun
<1>20. CASE EndEvent
  BY <1>20 DEF EndEvent, LoopEnds
<1>21. CASE Interrupt
  BY <1>21 DEF Interrupt
<1>22. CASE UNCHANGED vars
  BY <1>22 DEF vars
<1> QED
  BY <1>1, <1>2, <1>3, <1>4, <1>5, <1>6, <1>7, <1>8, <1>9, <1>10, <1>11, <1>12, <1>13, <1>14, <1>15, <1>16, <1>17, <1>18, <1>19, <1>20, <1>21, <1>22 DEF Next, Main

\* Every step keeps what is known of the end.
LEMMA EndStep ==
    ASSUME Inv, [Next]_vars
    PROVE  EndInv'
<1> USE DEF Inv, TypeOK, Locations, Ends, Goto, Throw, BeforeLoop, BeforeRun,
            InLoop, EndInv, PhaseInv, SignalInv, Untouched,
            setupVars, flagVars, runVars, loopVars, historyVars
<1>1. CASE Construct
  BY <1>1 DEF Construct
<1>2. CASE SetReady
  BY <1>2 DEF SetReady
<1>3. CASE Catch
  BY <1>3 DEF Catch
<1>4. CASE Clean
  BY <1>4 DEF Clean
<1>5. CASE Exit
  BY <1>5 DEF Exit
<1>6. CASE EnterPhase
  BY <1>6 DEF EnterPhase, Phases
<1>7. CASE Load
  BY <1>7 DEF Load
<1>8. CASE InitializeModule
  BY <1>8 DEF InitializeModule
<1>9. CASE InitializeEnd
  BY <1>9 DEF InitializeEnd
<1>10. CASE EnterFinalize
  BY <1>10 DEF EnterFinalize
<1>11. CASE FinalizeModule
  BY <1>11 DEF FinalizeModule
<1>12. CASE FinalizeEnd
  BY <1>12 DEF FinalizeEnd
<1>13. CASE StartLoop
  BY <1>13 DEF StartLoop
<1>14. CASE BeginEvent
  BY <1>14 DEF BeginEvent
<1>15. CASE CallModule
  BY <1>15 DEF CallModule
<1>16. CASE ModuleOperation
  BY <1>16 DEF ModuleOperation
<1>17. CASE ModuleThrows
  BY <1>17 DEF ModuleThrows
<1>18. CASE ModuleReturns
  BY <1>18 DEF ModuleReturns, Skips, Stops, Statuses
<1>19. CASE AllModulesRun
  BY <1>19 DEF AllModulesRun
<1>20. CASE EndEvent
  BY <1>20 DEF EndEvent, LoopEnds
<1>21. CASE Interrupt
  BY <1>21 DEF Interrupt
<1>22. CASE UNCHANGED vars
  BY <1>22 DEF vars
<1> QED
  BY <1>1, <1>2, <1>3, <1>4, <1>5, <1>6, <1>7, <1>8, <1>9, <1>10, <1>11, <1>12, <1>13, <1>14, <1>15, <1>16, <1>17, <1>18, <1>19, <1>20, <1>21, <1>22 DEF Next, Main

\* What a module does to the clipboard adds objects of this event only.
LEMMA OperationIsolation ==
    ASSUME TypeOK, EventIsolation, ModuleOperation
    PROVE  EventIsolation' /\ UNCHANGED pc
<1> SUFFICES ASSUME NEW s \in Slots, NEW object \in Range(data'[s])
             PROVE  object[1] = epoch
  BY DEF ModuleOperation, EventIsolation
<1>1. CASE UNCHANGED data
  BY <1>1 DEF EventIsolation
<1>2. ASSUME NEW t \in Slots, NEW n \in 1..MaxCount - fresh,
             PutData(t, NewObjects(n))
      PROVE  object[1] = epoch
  <2>1. data'[s] = data[s] \/ data'[s] = NewObjects(n)
    BY <1>2 DEF PutData, TypeOK
  <2> QED
    BY <2>1, NewObjectsOfEvent DEF EventIsolation
<1>3. ASSUME NEW t \in Slots, NEW removed, RemoveData(t, removed)
      PROVE  object[1] = epoch
  <2>1. data'[s] = data[s] \/ data'[s] = RemoveFirst(data[s], removed)
    BY <1>3 DEF RemoveData, TypeOK
  <2>2. object \in Range(data[s])
    BY <2>1, RemoveFirstRange DEF TypeOK
  <2> QED
    BY <2>2 DEF EventIsolation
<1> QED
  BY <1>1, <1>2, <1>3
     DEF ModuleOperation, PutPersistentData, CopyToPersistentData, PutEvent

\* Every step keeps the events apart.
LEMMA DataStep ==
    ASSUME Inv, [Next]_vars
    PROVE  DataInv'
<1> USE DEF Inv, Locations, Ends, Goto, Throw, BeforeLoop, BeforeRun, InLoop,
            DataInv, clipboardVars, setupVars, flagVars, runVars, loopVars, historyVars
<1>1. CASE Construct
  BY <1>1 DEF Construct, EventIsolation
<1>2. CASE SetReady
  BY <1>2 DEF SetReady, EventIsolation
<1>3. CASE Catch
  BY <1>3 DEF Catch, EventIsolation
<1>4. CASE Clean
  BY <1>4 DEF Clean, EventIsolation, Range
<1>5. CASE Exit
  BY <1>5 DEF Exit, EventIsolation
<1>6. CASE EnterPhase
  BY <1>6 DEF EnterPhase, Phases, EventIsolation
<1>7. CASE Load
  BY <1>7 DEF Load, EventIsolation
<1>8. CASE InitializeModule
  BY <1>8 DEF InitializeModule, EventIsolation
<1>9. CASE InitializeEnd
  BY <1>9 DEF InitializeEnd, EventIsolation
<1>10. CASE EnterFinalize
  BY <1>10 DEF EnterFinalize, EventIsolation
<1>11. CASE FinalizeModule
  BY <1>11 DEF FinalizeModule, EventIsolation
<1>12. CASE FinalizeEnd
  BY <1>12 DEF FinalizeEnd, EventIsolation
<1>13. CASE StartLoop
  BY <1>13 DEF StartLoop, EventIsolation
<1>14. CASE BeginEvent
  BY <1>14 DEF BeginEvent, EventIsolation, Range
<1>15. CASE CallModule
  BY <1>15 DEF CallModule, EventIsolation
<1>16. CASE ModuleOperation
  <2>1. pc = "module"
    BY <1>16 DEF ModuleOperation
  <2> QED
    BY <1>16, <2>1, OperationIsolation
<1>17. CASE ModuleThrows
  BY <1>17 DEF ModuleThrows, EventIsolation
<1>18. CASE ModuleReturns
  BY <1>18 DEF ModuleReturns, Skips, EventIsolation
<1>19. CASE AllModulesRun
  BY <1>19 DEF AllModulesRun, EventIsolation
<1>20. CASE EndEvent
  BY <1>20 DEF EndEvent, Clear, EventIsolation, Range
<1>21. CASE Interrupt
  BY <1>21 DEF Interrupt, EventIsolation
<1>22. CASE UNCHANGED vars
  BY <1>22 DEF vars, EventIsolation
<1> QED
  BY <1>1, <1>2, <1>3, <1>4, <1>5, <1>6, <1>7, <1>8, <1>9, <1>10, <1>11, <1>12, <1>13, <1>14, <1>15, <1>16, <1>17, <1>18, <1>19, <1>20, <1>21, <1>22 DEF Next, Main

-----------------------------------------------------------------------------
(* The theorems *)

\* The invariant holds initially and is kept by every step.
THEOREM InvCorrect == Spec => []Inv
<1>1. Init => Inv
  <2> SUFFICES ASSUME Init PROVE Inv
    OBVIOUS
  <2>1. TypeOK
    <3>1. MaxCount \in Nat
      BY RunAssumption
    <3>2. /\ data \in [Slots -> Seq(Objects)]
          /\ persistent \in [Slots -> Seq(Objects)]
          /\ event \in Events \cup {NoEvent}
      BY EmptySeq DEF Init, ClipboardInit
    <3>3. /\ corry \in BOOLEAN /\ cv_ready \in BOOLEAN
          /\ terminate_ \in BOOLEAN /\ m_terminate \in BOOLEAN
          /\ has_run_ \in BOOLEAN /\ run \in BOOLEAN
          /\ skipped \in BOOLEAN /\ asked \in BOOLEAN
      BY Zenon DEF Init
    <3>4. 1 \in Nat \ {0} /\ 0 \in 0..MaxCount
      BY <3>1
    <3> QED
      BY <3>1, <3>2, <3>3, <3>4 DEF Init, TypeOK, Locations
  <2>2. DataInv
    BY DEF Init, ClipboardInit, DataInv, EventIsolation, Range
  <2>3. SignalInv /\ LoopInv /\ PhaseInv /\ EndInv
    BY DEF Init, SignalInv, LoopInv, PhaseInv, EndInv, Untouched, InLoop, Ends
  <2> QED
    BY <2>1, <2>2, <2>3 DEF Inv
<1>2. Inv /\ [Next]_vars => Inv'
  BY TypeStep, SignalStep, DataStep, LoopStep, PhaseStep, EndStep DEF Inv
<1> QED
  BY <1>1, <1>2, PTL DEF Spec

\* Every variable keeps its type in every reachable state.
THEOREM TypeCorrect == Spec => []TypeOK
<1>1. Inv => TypeOK
  BY DEF Inv
<1> QED
  BY <1>1, InvCorrect, PTL

\* Whatever the modules return or throw and whenever a signal comes: no object
\* of one event is on the clipboard in another.
THEOREM EventsIsolated == Spec => []EventIsolation
<1>1. Inv => EventIsolation
  BY DEF Inv, DataInv
<1> QED
  BY <1>1, InvCorrect, PTL

\* Whenever a signal comes: a program that ends with 0 has initialized and
\* finalized all modules around an event loop, or has begun and finalized
\* nothing because it was told to terminate.
THEOREM ExitIsHonest == Spec => []ExitMeansFinalized
<1>1. Inv => ExitMeansFinalized
  BY DEF Inv, EndInv, ExitMeansFinalized, Untouched
<1> QED
  BY <1>1, InvCorrect, PTL

\* No step of a module replaces what is stored for the finalize of a module, a
\* collection of the same event, or the event its data was selected with.
THEOREM NothingIsOverwritten == Spec => NothingOverwritten
<1> DEFINE Kept == /\ OnlyAppends
                   /\ EventStays
                   /\ epoch' = epoch => OnlyShrinks
<1>1. ASSUME Inv, Next, corry'
      PROVE  Kept
  <2> USE <1>1 DEF Inv
  <2>1. CASE UNCHANGED clipboardVars
    BY <2>1, PrefixOfAppended
       DEF clipboardVars, TypeOK, OnlyAppends, EventStays, OnlyShrinks
  <2>2. CASE Clear
    BY <2>2, PrefixOfAppended
       DEF Clear, TypeOK, OnlyAppends, EventStays, OnlyShrinks, HasKey, Range
  <2>3. CASE ModuleOperation
    <3>1. ASSUME NEW s \in Slots, NEW n \in 1..MaxCount - fresh,
                 PutData(s, NewObjects(n))
          PROVE  Kept
      BY <3>1, PrefixOfAppended
         DEF PutData, HasKey, TypeOK, OnlyAppends, EventStays, OnlyShrinks
    <3>2. ASSUME NEW s \in Slots, NEW t \in Seq(Objects),
                 persistent' = [persistent EXCEPT ![s] = @ \o t],
                 UNCHANGED <<data, event>>
          PROVE  Kept
      BY <3>2, PrefixOfAppended
         DEF TypeOK, OnlyAppends, EventStays, OnlyShrinks
    <3>3. ASSUME NEW s \in Slots, NEW object, RemoveData(s, object)
          PROVE  Kept
      BY <3>3, PrefixOfAppended, RemoveFirstRange
         DEF RemoveData, TypeOK, OnlyAppends, EventStays, OnlyShrinks
    <3>4. ASSUME NEW e \in Events, PutEvent(e)
          PROVE  Kept
      BY <3>4, PrefixOfAppended
         DEF PutEvent, TypeOK, OnlyAppends, EventStays, OnlyShrinks
    <3>5. ASSUME NEW s \in Slots, fresh < MaxCount,
                 PutPersistentData(s, NewObjects(1))
          PROVE  Kept
      <4>1. 1 \in 1..MaxCount - fresh
        BY <3>5, RunAssumption DEF TypeOK
      <4> QED
        BY <3>2, <3>5, <4>1, NewObjectsOfEvent DEF PutPersistentData
    <3>6. ASSUME NEW s \in Slots, NEW references \in SUBSET Range(data[s]),
                 CopyToPersistentData(s, references)
          PROVE  Kept
      BY <3>2, <3>6, CopyIsSequence DEF CopyToPersistentData
    <3> QED
      BY <2>3, <3>1, <3>3, <3>4, <3>5, <3>6 DEF ModuleOperation
  <2>4. UNCHANGED clipboardVars \/ Clear \/ ModuleOperation
    BY DEF Next, Main, Construct, SetReady, Catch, Clean, Exit, EnterPhase,
         Load, InitializeModule, InitializeEnd, EnterFinalize, FinalizeModule,
         FinalizeEnd, StartLoop, BeginEvent, CallModule, ModuleThrows,
         ModuleReturns, AllModulesRun, EndEvent, Interrupt
  <2> QED
    BY <2>1, <2>2, <2>3, <2>4
<1> HIDE DEF Kept
<1>2. Inv /\ [Next]_vars => [corry' => Kept]_vars
  BY <1>1
<1>3. NothingOverwritten <=> [][corry' => Kept]_vars
  BY PTL DEF NothingOverwritten, Kept
<1> QED
  BY <1>2, <1>3, InvCorrect, PTL DEF Spec

\* What stops the event loop stops it, however signals, statuses and limits come
\* together: no event begins after a request to terminate before run(), at most one
\* after a later request, none after EndRun or a failure, and none but the first when
\* the limit of events, of tracks or of the time is reached; and after dead time or a
\* failure no module sees the rest of the event.
THEOREM RunsStop == Spec => RunStops
<1> DEFINE Stop == /\ epoch' # epoch => /\ may_begin # "none" /\ ~asked
                                        /\ begun => WithinLimits
                   /\ skipped /\ epoch' = epoch => pc' # "module"
<1>1. ASSUME Inv, Next
      PROVE  Stop
  <2> USE <1>1 DEF Inv, TypeOK, LoopInv, BeforeLoop
  <2>1. CASE BeginEvent
    BY <2>1 DEF BeginEvent, Goto
  <2>2. CASE CallModule
    BY <2>2 DEF CallModule, Goto, runVars, loopVars, historyVars
  <2>3. CASE ModuleOperation
    BY <2>3 DEF ModuleOperation
  <2>4. CASE Interrupt
    BY <2>4 DEF Interrupt
  <2>5. CASE Next /\ ~BeginEvent /\ ~CallModule /\ ~ModuleOperation /\ ~Interrupt
    <3> USE DEF Next, Main, Construct, SetReady, Catch, Clean, Exit, EnterPhase, Load,
            InitializeModule, InitializeEnd, EnterFinalize, FinalizeModule,
            FinalizeEnd, StartLoop, ModuleThrows, ModuleReturns, AllModulesRun,
            EndEvent
    <3>1. epoch' = epoch
      BY <2>5 DEF runVars, loopVars, historyVars
    <3>2. pc' = "module" => pc = "module"
      BY <2>5 DEF Phases, Goto, Throw
    <3> QED
      BY <3>1, <3>2
  <2> QED
    BY <2>1, <2>2, <2>3, <2>4, <2>5
<1> HIDE DEF Stop
<1>2. Inv /\ [Next]_vars => [Stop]_vars
  BY <1>1
<1>3. RunStops <=> [][Stop]_vars
  BY PTL DEF RunStops, Stop
<1> QED
  BY <1>2, <1>3, InvCorrect, PTL DEF Spec
=============================================================================
