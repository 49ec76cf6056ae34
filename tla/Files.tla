-------------------------------- MODULE Files --------------------------------
(***************************************************************************)
(* FileWriter stores the clipboard of every event in a file, FileReader    *)
(* puts it on the clipboard of another run.  A file has a tree for each    *)
(* class of objects, with a branch for each detector and an entry for each *)
(* event.  Object n of a class refers to object n of each class it is made *)
(* from (a track to its clusters, a cluster to its pixels).                *)
(***************************************************************************)
EXTENDS RecoChain

\* What is on a clipboard: of each class and detector a sequence of objects, which are
\* numbered.  Of the class that an object refers to there are some, too.
ASSUME FilesAssumption ==
    \A n \in DOMAIN Chains : Chains[n].module = "Files" =>
        /\ {"refers", "writer", "reader"} \subseteq DOMAIN Chains[n]
        /\ \A data \in Chains[n].inputs :
            /\ IsFiniteSet(DOMAIN data)
            /\ \A b \in DOMAIN data :
                /\ data[b] \in Seq(Nat)
                /\ data[b] # <<>> =>
                    \A to \in Chains[n].refers[b[1]] : \E e \in DOMAIN data : e[1] = to

VARIABLES written,     \* what was on the clipboard in each event
          events,      \* entries of the event tree
          trees,       \* the trees in the order of the file
          branches,    \* the entries of each branch, a pair <<class, detector>>
          last_event,  \* events written before
          clipboard    \* what the reader puts there: objects of each branch

fileVars == <<written, events, trees, branches, last_event, clipboard>>

FileInit ==
    /\ written = <<>> /\ events = <<>> /\ trees = <<>> /\ branches = <<>>
    /\ last_event = 0 /\ clipboard = <<>>

\* The include and exclude lists, of which at most one is given.
Chosen(lists, class) ==
    (lists.include # {} => class \in lists.include) /\ class \notin lists.exclude

Classes(blocks) == {b[1] : b \in blocks}

-----------------------------------------------------------------------------
(* FileWriter *)

\* Mutation: a new branch begins with the event.
BeforeNothing(b) == IF b \in DOMAIN branches THEN branches[b] ELSE <<>>

\* A branch is created with the first objects for it: events before are empty.
Before(b) == IF b \in DOMAIN branches THEN branches[b] ELSE [n \in 1..last_event |-> <<>>]

\* A tree is created with its first branch.  Then every tree gets an entry.  (What ROOT
\* throws when a branch is made or filled would end the event here, with NoData, an entry
\* of the event tree alone and objects left over for the next one; it is not modelled.)
FileWriterRun ==
    /\ chain.module = "Files"
    /\ Proceed("begin", "end")
    /\ \E data \in Inputs : \E order \in SetToSeqs(Classes(DOMAIN data)) :
        LET stored == {b \in DOMAIN data : Chosen(chain.writer, b[1])}
            Entry(b) == IF b \in stored THEN data[b] ELSE <<>>
            known == ToSet(trees)
        IN  /\ written' = Append(written, data)
            /\ events' = Append(events, event)
            /\ trees' = trees \o Kept(order, Classes(stored) \ known)
            /\ branches' = [b \in DOMAIN branches \cup stored |-> Append(Before(b), Entry(b))]
            /\ last_event' = last_event + 1
    /\ UNCHANGED <<filled, clipboard>>

\* The file is closed, with the configuration, and another run begins.
FileWriterFinalize ==
    /\ chain.module = "Files"
    /\ Proceed("finalize", "reader")
    /\ UNCHANGED <<filled, fileVars>>

-----------------------------------------------------------------------------
(* FileReader *)

\* The trees to be read, and their branches.
ReadTrees == Kept(trees, {c \in ToSet(trees) : Chosen(chain.reader, c)})

Read == {b \in DOMAIN branches : b[1] \in ToSet(ReadTrees)}

FileReaderInitialize ==
    /\ chain.module = "Files"
    /\ at = "reader"
    /\ at' = IF ReadTrees = <<>> THEN "aborted" ELSE "read"
    /\ event' = 1
    /\ UNCHANGED <<setup, chain, filled, fileVars>>

\* Where a reference of an object of class from to one of class to leads: to the
\* object on the clipboard if that one has been made, otherwise to the buffer of the
\* reader, or to nothing if its tree is not read.
Reference(from, to) ==
    LET Place(class) == SelectInSeq(ReadTrees, LAMBDA c : c = class)
    IN  IF Place(to) = 0 THEN "missing" ELSE IF Place(to) < Place(from) THEN "clipboard" ELSE "buffer"

loadHistory(class) ==
    [to \in chain.refers[class] |-> Reference(class, to)]

FileReaderRun ==
    /\ chain.module = "Files"
    /\ at = "read"
    /\ LET present == {b \in Read : branches[b][event] # <<>>}
       IN  clipboard' =
            [b \in present |-> [k \in DOMAIN branches[b][event] |->
                [object |-> branches[b][event][k], refs |-> loadHistory(b[1])]]]
    /\ event' = event + 1
    /\ at' = IF event' > Len(events) THEN "done" ELSE "read"
    /\ UNCHANGED <<setup, chain, filled, written, events, trees, branches, last_event>>

FilesStep == FileWriterRun \/ FileWriterFinalize \/ FileReaderInitialize \/ FileReaderRun
=============================================================================
