------------------------------ MODULE Clipboard ------------------------------
(***************************************************************************)
(* The clipboard of core/clipboard: collections of objects by data type    *)
(* and key (a Slot), in a temporary and in a persistent storage, and the   *)
(* event.  The operations are those a module may call from its run; Clear  *)
(* belongs to the module manager.                                          *)
(*                                                                         *)
(* A collection without objects and a key that is not there are the same:  *)
(* put_data stores no empty collection and remove_data drops a key with    *)
(* its last object.                                                        *)
(***************************************************************************)
EXTENDS Naturals, Sequences, SequencesExt, FiniteSets

CONSTANTS
    Slots,      \* data type and key of a collection
    Objects,    \* what is stored; equal means the same shared object
    Events,     \* event definitions
    NoEvent     \* event_ when it is a null pointer

ASSUME ClipboardAssumption == NoEvent \notin Events

VARIABLES
    data,       \* data_
    persistent, \* persistent_data_
    event       \* event_

clipboardVars == <<data, persistent, event>>

ClipboardInit ==
    /\ data = [s \in Slots |-> <<>>]
    /\ persistent = [s \in Slots |-> <<>>]
    /\ event = NoEvent

HasKey(s) == data[s] # <<>>

CountObjects(slots) == FoldSet(LAMBDA s, n : n + Len(data[s]), 0, slots)

\* putData: a collection that exists is left as it is, with a warning.
PutData(s, objects) ==
    /\ data' = [data EXCEPT ![s] = IF HasKey(s) THEN @ ELSE objects]
    /\ UNCHANGED <<persistent, event>>

\* removeData; an object that is not there is no error.
RemoveData(s, object) ==
    /\ data' = [data EXCEPT ![s] = RemoveFirst(@, object)]
    /\ UNCHANGED <<persistent, event>>

\* Mutation: the persistent collection is stored like the temporary ones.
PutPersistentDataReplacing(s, objects) ==
    /\ persistent' = [persistent EXCEPT ![s] = objects]
    /\ UNCHANGED <<data, event>>

\* putPersistentData appends.
PutPersistentData(s, objects) ==
    /\ persistent' = [persistent EXCEPT ![s] = @ \o objects]
    /\ UNCHANGED <<data, event>>

\* copyToPersistentData sorts the references by address, an order nobody
\* chooses, and drops duplicates; every one has to be in the collection.
CanCopy(s, references) == references \subseteq Range(data[s])

CopyToPersistentData(s, references) ==
    /\ CanCopy(s, references)
    /\ \E order \in SetToSeqs(references) :
           persistent' = [persistent EXCEPT ![s] = @ \o order]
    /\ UNCHANGED <<data, event>>

\* putEvent throws when the event is defined, getEvent when it is not.
PutEvent(e) ==
    /\ event = NoEvent
    /\ event' = e
    /\ UNCHANGED <<data, persistent>>

Clear ==
    /\ data' = [s \in Slots |-> <<>>]
    /\ event' = NoEvent
    /\ UNCHANGED persistent

-----------------------------------------------------------------------------
\* Persistent collections only grow, at their end: what a module has stored
\* for its finalize is there, in its order, whatever happens to the events.
OnlyAppends == \A s \in Slots : IsPrefix(persistent[s], persistent'[s])

\* A collection changes by losing objects, until it is gone: a second putData
\* with the same key is ignored, not merged.
OnlyShrinks ==
    \A s \in Slots :
        HasKey(s) => Range(data'[s]) \subseteq Range(data[s])

\* The definition of an event stays until the data of the event is cleared.
EventStays == event = NoEvent \/ event' = event \/ \A s \in Slots : ~HasKey(s)'
=============================================================================
