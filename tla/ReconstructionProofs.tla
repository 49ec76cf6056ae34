------------------------ MODULE ReconstructionProofs ------------------------
(***************************************************************************)
(* Theorems about Reconstruction, for every chain of modules, all data     *)
(* that the modules may find, and any number of events.                    *)
(***************************************************************************)
EXTENDS Reconstruction, LoopTheorems

\* Each place of the event loop belongs to a chain of modules.
Placed ==
    /\ at = "cluster" => chain.module = "Clustering"
    /\ at = "track" => chain.module \in {"Tracking4D", "TrackingMultiplet"}
    /\ at \in {"pair", "plane"} => chain.module \in {"Tracking4D", "TrackingMultiplet"}
    /\ at \in {"isolate", "match", "refused"} => chain.module = "TrackingMultiplet"
    /\ at \in {"associate", "efficiency", "dut"} => chain.module = "DUT"
    /\ at = "filter" => chain.module = "Filter"
    /\ at = "timing" => chain.module = "Timing"
    /\ at \in {"correlations", "prealignment"} => chain.module = "Pairs"
    /\ at = "words" => chain.module = "Words"
    /\ at \in {"fastpix", "undefined"} => chain.module = "FASTPIX"
    /\ at = "fastpixTracks" => chain.module = "AnalysisFASTPIX"

\* The steps of the modules, but for the event loop's.
ClusteringNext == Cluster
TrackNext == Track
DUTNext ==
    /\ \/ (TracksArrive \/ AssociateTrack \/ AssociationDone) /\ UNCHANGED prev_hit_ts
       \/ EfficiencyTrack \/ EfficiencyHits \/ DUTTrack \/ DUTDone \/ EfficiencyFinalize
    /\ UNCHANGED <<input, maskVars, fileVars, confVars, otherVars>>
    /\ UNCHANGED recoVars
FilterNext == FilterStep /\ UNCHANGED <<effVars, maskVars, fileVars, confVars, otherVars>> /\ UNCHANGED recoVars
MaskNext == MaskStep /\ UNCHANGED <<effVars, input, fileVars, confVars, otherVars>> /\ UNCHANGED recoVars
FilesNext == FilesStep /\ UNCHANGED <<effVars, input, maskVars, confVars, otherVars>> /\ UNCHANGED recoVars
ConfigNext ==
    ConfigurationStep /\ UNCHANGED <<filled, effVars, input, maskVars, fileVars, otherVars>> /\ UNCHANGED recoVars
TimingNext ==
    TimingStep /\ UNCHANGED <<effVars, input, maskVars, fileVars, confVars, pairVars, loadingVars>>
    /\ UNCHANGED recoVars
PairNext ==
    PairStep /\ UNCHANGED <<effVars, input, maskVars, fileVars, confVars, timingVars, loadingVars>>
    /\ UNCHANGED recoVars
LoadingRest == UNCHANGED <<effVars, input, maskVars, fileVars, confVars, timingVars, pairVars>> /\ UNCHANGED recoVars
DecodingNext == DecodingStep /\ UNCHANGED <<fastpixVars, deadtimeVars>> /\ LoadingRest
FASTPIXNext == FASTPIXStep /\ UNCHANGED <<decodingVars, deadtimeVars>> /\ LoadingRest
DeadtimeNext == DeadtimeStep /\ UNCHANGED <<decodingVars, fastpixVars>> /\ LoadingRest

\* Next, with the steps of each group of modules by their names.
LEMMA NextSteps ==
    Next <=> \/ Initialize \/ NextEvent \/ ClusteringNext \/ TrackNext \/ DUTNext \/ FilterNext
             \/ MaskNext \/ FilesNext \/ ConfigNext \/ TimingNext \/ PairNext \/ DecodingNext
             \/ FASTPIXNext \/ DeadtimeNext
BY DEF Next, Analyse, ClusteringNext, TrackNext, DUTNext, FilterNext, MaskNext, FilesNext, ConfigNext,
       TimingNext, PairNext, DecodingNext, FASTPIXNext, DeadtimeNext, LoadingRest

\* Every group of actions is of one kind of chain.
LEMMA OwnSteps ==
    ASSUME Placed
    PROVE  /\ ClusteringNext => chain.module = "Clustering"
           /\ TrackNext => chain.module \in {"Tracking4D", "TrackingMultiplet"}
           /\ DUTNext => chain.module = "DUT"
           /\ FilterNext => chain.module = "Filter"
           /\ MaskNext => chain.module = "Mask"
           /\ FilesNext => chain.module = "Files"
           /\ ConfigNext => chain.module \in {"Config", "Value"}
           /\ TimingNext => chain.module = "Timing"
           /\ PairNext => chain.module = "Pairs"
           /\ DecodingNext => chain.module = "Words"
           /\ FASTPIXNext => chain.module = "FASTPIX"
           /\ DeadtimeNext => chain.module = "AnalysisFASTPIX"
<1> USE DEF Placed, Proceed
<1>1. ClusteringNext => chain.module = "Clustering"
  BY DEF ClusteringNext, Cluster, ClusteringStep, PixelsArrive, ClusteringSpatialRun, Clustering4DRun
<1>2. TrackNext => chain.module \in {"Tracking4D", "TrackingMultiplet"}
  BY DEF TrackNext, Track, ClustersArrive, Tracking4DStep, MultipletStep, Tracking4DBegin, Tracking4DPair,
         Tracking4DPlane, Tracking4DSave, Tracking4DPut, MultipletRefused, MultipletBegin, MultipletPair,
         MultipletPlane, MultipletSave, MultipletSearched, Isolate, Match, MultipletPut
<1>3. DUTNext => chain.module = "DUT"
  BY DEF DUTNext, TracksArrive, AssociateTrack, AssociationDone, EfficiencyTrack, EfficiencyHits, DUTTrack,
         DUTDone, EfficiencyFinalize, NextModule
<1>4. FilterNext => chain.module = "Filter"
  BY DEF FilterNext, FilterStep, EventArrives, FilterRun
<1>5. MaskNext => chain.module = "Mask"
  BY DEF MaskNext, MaskStep, MaskInitialize, MaskRun, MaskFinalize, Restart
<1>6. FilesNext => chain.module = "Files"
  BY DEF FilesNext, FilesStep, FileWriterRun, FileWriterFinalize, FileReaderInitialize, FileReaderRun
<1>7. ConfigNext => chain.module \in {"Config", "Value"}
  BY DEF ConfigNext, ConfigurationStep, ReadLine, BadLine, EndOfConfiguration, ConfigManager, LoadOptions,
         LoadDetectors, NextInstances, Report, WriteDetectors, ReadAndWrite
<1>8. TimingNext => chain.module = "Timing"
  BY DEF TimingNext, TimingStep, TimingArrives, TimingTrack, TimingDone, TimingFinalize
<1>9. PairNext => chain.module = "Pairs"
  BY DEF PairNext, PairStep, PairsArrive, CorrelationsRun, PrealignmentRun, PrealignmentFinalize
<1>10. DecodingNext => chain.module = "Words"
  BY DEF DecodingNext, DecodingStep, Send, Timepix3Begin, DeviceReset, HeartbeatLow, HeartbeatHigh,
         SkippedWord, PixelWord, TriggerWord, PowerWord, ATLASpixBegin, T0Word, FPGAFirst, FPGASecond,
         FPGAThird, ReadoutWord, HitWord
<1>11. FASTPIXNext => chain.module = "FASTPIX"
  BY DEF FASTPIXNext, FASTPIXStep, FASTPIXBegin, Looping, LoadMatching, DiscardRecord, DiscardRecords,
         LoadPrevious, SkipTrigger, DiscardByTime, FASTPIXDone, ReadBeyondEnd
<1>12. DeadtimeNext => chain.module = "AnalysisFASTPIX"
  BY DEF DeadtimeNext, DeadtimeStep, PassageArrives, FASTPIXTrack, FASTPIXTracksDone
<1> QED
  BY <1>1, <1>2, <1>3, <1>4, <1>5, <1>6, <1>7, <1>8, <1>9, <1>10, <1>11, <1>12

\* The configuration of the run.
Configured ==
    /\ setup \in DOMAIN Chains
    /\ chain = [key \in DOMAIN Chains[setup] \ {"inputs"} |-> Chains[setup][key]]

LoopInv == Configured /\ Placed /\ event \in Nat \ {0}

\* No step leaves the chain that is run, and the event number only grows.
LEMMA LoopStep ==
    ASSUME Placed, [Next]_vars
    PROVE  /\ chain' = chain /\ setup' = setup /\ Placed'
           /\ event' \in {event, event + 1, 1}
<1> USE DEF Placed, Proceed
<1>1. CASE UNCHANGED vars
  BY <1>1 DEF vars, chainVars, loopVars
<1>2. CASE Initialize
  BY <1>2 DEF Initialize
<1>3. CASE NextEvent
  BY <1>3 DEF NextEvent, EndOfEvent
<1>4. CASE ClusteringNext
  BY <1>4 DEF ClusteringNext, Cluster, ClusteringStep, PixelsArrive, ClusteringSpatialRun, Clustering4DRun
<1>5. CASE TrackNext
  <2>1. CASE ClustersArrive \/ Tracking4DStep
    BY <2>1 DEF ClustersArrive, Tracking4DStep, Tracking4DBegin, Tracking4DPair, Tracking4DPlane,
                Tracking4DSave, Tracking4DPut, NextPair, SearchPlane, Keep, Discard
  <2>2. CASE MultipletStep
    BY <2>2 DEF MultipletStep, MultipletRefused, MultipletBegin, MultipletPair, MultipletPlane,
                MultipletSave, MultipletSearched, Isolate, Match, MultipletPut, NextPair, SearchPlane,
                Keep, Discard
  <2> QED
    BY <1>5, <2>1, <2>2 DEF TrackNext, Track
<1>6. CASE DUTNext
  BY <1>6, OwnSteps DEF DUTNext, TracksArrive, AssociateTrack, AssociationDone, EfficiencyTrack, EfficiencyHits,
         DUTTrack, DUTDone, EfficiencyFinalize, NextModule
<1>7. CASE FilterNext
  BY <1>7 DEF FilterNext, FilterStep, EventArrives, FilterRun
<1>8. CASE MaskNext
  BY <1>8 DEF MaskNext, MaskStep, MaskInitialize, MaskRun, MaskFinalize, Restart
<1>9. CASE FilesNext
  BY <1>9 DEF FilesNext, FilesStep, FileWriterRun, FileWriterFinalize, FileReaderInitialize, FileReaderRun
<1>10. CASE ConfigNext
  BY <1>10 DEF ConfigNext, ConfigurationStep, ReadLine, BadLine, EndOfConfiguration, ConfigManager, LoadOptions,
         LoadDetectors, NextInstances, Report, WriteDetectors, ReadAndWrite, loopVars
<1>11. CASE TimingNext
  BY <1>11 DEF TimingNext, TimingStep, TimingArrives, TimingTrack, TimingDone, TimingFinalize
<1>12. CASE PairNext
  BY <1>12 DEF PairNext, PairStep, PairsArrive, CorrelationsRun, PrealignmentRun, PrealignmentFinalize
<1>13. CASE DecodingNext
  BY <1>13 DEF DecodingNext, DecodingStep, Send, Timepix3Begin, DeviceReset, HeartbeatLow, HeartbeatHigh,
         SkippedWord, PixelWord, TriggerWord, PowerWord, ATLASpixBegin, T0Word, FPGAFirst, FPGASecond,
         FPGAThird, ReadoutWord, HitWord
<1>14. CASE FASTPIXNext
  BY <1>14 DEF FASTPIXNext, FASTPIXStep, FASTPIXBegin, Looping, LoadMatching, DiscardRecord, DiscardRecords,
         LoadPrevious, SkipTrigger, DiscardByTime, FASTPIXDone, ReadBeyondEnd
<1>15. CASE DeadtimeNext
  BY <1>15 DEF DeadtimeNext, DeadtimeStep, PassageArrives, FASTPIXTrack, FASTPIXTracksDone
<1> QED
  BY <1>1, <1>2, <1>3, <1>4, <1>5, <1>6, <1>7, <1>8, <1>9, <1>10, <1>11, <1>12, <1>13, <1>14, <1>15, NextSteps

\* Kept leaves the elements that are in S, in their order.
LEMMA KeptPicked == \A s, S : Kept(s, S) = Picked(s, S)
BY DEF Kept, Picked

\* Kept has those and only those elements of s that are in S, in their order.
LEMMA KeptProperties ==
    ASSUME NEW T, NEW s \in Seq(T), NEW S
    PROVE  /\ Kept(s, S) \in Seq(T)
           /\ \A i \in 1..Len(Kept(s, S)) : \E p \in 1..Len(s) :
                  Kept(s, S)[i] = s[p] /\ s[p] \in S
           /\ \A p \in 1..Len(s) : s[p] \in S =>
                  \E i \in 1..Len(Kept(s, S)) : Kept(s, S)[i] = s[p]
           /\ \A i, j \in 1..Len(Kept(s, S)) : i < j =>
                  \E p, q \in 1..Len(s) :
                      p < q /\ Kept(s, S)[i] = s[p] /\ Kept(s, S)[j] = s[q]
<1> DEFINE k == Picked(s, S)
<1>1. /\ k \in Seq(T)
      /\ \A i \in 1..Len(k) : \E p \in 1..Len(s) : k[i] = s[p] /\ s[p] \in S
      /\ \A p \in 1..Len(s) : s[p] \in S => \E i \in 1..Len(k) : k[i] = s[p]
      /\ \A i, j \in 1..Len(k) : i < j =>
            \E p, q \in 1..Len(s) : p < q /\ k[i] = s[p] /\ k[j] = s[q]
  BY PickedProperties
<1> DEFINE kept == Kept(s, S)
<1>2. kept = k
  BY KeptPicked
<1> HIDE DEF k, kept
<1>3. kept \in Seq(T) /\ \A i \in 1..Len(kept) : \E p \in 1..Len(s) : kept[i] = s[p] /\ s[p] \in S
  BY <1>1, <1>2
<1>4. \A p \in 1..Len(s) : s[p] \in S => \E i \in 1..Len(kept) : kept[i] = s[p]
  BY <1>1, <1>2
<1>5. \A i, j \in 1..Len(kept) : i < j =>
            \E p, q \in 1..Len(s) : p < q /\ kept[i] = s[p] /\ kept[j] = s[q]
  BY <1>1, <1>2
<1> QED
  BY <1>3, <1>4, <1>5 DEF kept

\* The same, of what a sequence has.
LEMMA KeptHas ==
    ASSUME NEW T, NEW v \in Seq(T), NEW S
    PROVE  /\ Kept(v, S) \in Seq(T)
           /\ \A x : Has(Kept(v, S), x) <=> Has(v, x) /\ x \in S
BY KeptPicked, PickedHas

-----------------------------------------------------------------------------
(* Entries of histograms *)

\* How often x is in a sequence.
Count(s, x) == Cardinality({k \in DOMAIN s : s[k] = x})

\* A sequence has finitely many of each element,
LEMMA CountNat ==
    ASSUME NEW T, NEW s \in Seq(T), NEW x
    PROVE  Count(s, x) \in Nat /\ IsFiniteSet({k \in DOMAIN s : s[k] = x})
<1>1. Len(s) \in Nat /\ DOMAIN s = 1..Len(s)
  BY LenProperties
<1>2. IsFiniteSet(1..Len(s))
  BY <1>1, FS_Interval
<1>3. {k \in DOMAIN s : s[k] = x} \subseteq 1..Len(s)
  BY <1>1
<1>4. IsFiniteSet({k \in DOMAIN s : s[k] = x})
  BY <1>2, <1>3, FS_Subset
<1> QED
  BY <1>4, FS_CardinalityType DEF Count

\* none of what is not in it,
LEMMA CountNone ==
    ASSUME NEW s, NEW x, \A k \in DOMAIN s : s[k] # x
    PROVE  Count(s, x) = 0
<1>1. {k \in DOMAIN s : s[k] = x} = {}
  OBVIOUS
<1> QED
  BY <1>1, FS_EmptySet DEF Count

\* none of what is not of its type,
LEMMA CountOutside ==
    ASSUME NEW T, NEW s \in Seq(T), NEW x, x \notin T
    PROVE  Count(s, x) = 0
<1>1. \A k \in DOMAIN s : s[k] # x
  BY LenProperties, ElementOfSeq
<1> QED
  BY <1>1, CountNone

\* none at all if it is empty,
LEMMA CountEmpty ==
    ASSUME NEW x
    PROVE  Count(<<>>, x) = 0
<1>1. \A k \in DOMAIN <<>> : <<>>[k] # x
  OBVIOUS
<1> QED
  BY <1>1, CountNone

\* one if it is of length one,
LEMMA CountOne ==
    ASSUME NEW y, NEW x
    PROVE  Count(<<y>>, x) = IF y = x THEN 1 ELSE 0
<1>1. CASE y = x
  <2>1. {k \in DOMAIN <<y>> : <<y>>[k] = x} = {1}
    BY <1>1
  <2> QED
    BY <1>1, <2>1, FS_Singleton DEF Count
<1>2. CASE y # x
  <2>1. \A k \in DOMAIN <<y>> : <<y>>[k] # x
    BY <1>2
  <2> QED
    BY <1>2, <2>1, CountNone
<1> QED
  BY <1>1, <1>2

\* and of two elements those that are the same.
LEMMA CountTwo ==
    ASSUME NEW y, NEW z, NEW x, y # x
    PROVE  Count(<<y, z>>, x) = IF z = x THEN 1 ELSE 0
<1>1. CASE z = x
  <2>1. {k \in DOMAIN <<y, z>> : <<y, z>>[k] = x} = {2}
    BY <1>1
  <2> QED
    BY <1>1, <2>1, FS_Singleton DEF Count
<1>2. CASE z # x
  <2>1. \A k \in DOMAIN <<y, z>> : <<y, z>>[k] # x
    BY <1>2
  <2> QED
    BY <1>2, <2>1, CountNone
<1> QED
  BY <1>1, <1>2

\* The first of two elements that differ counts once.
LEMMA CountFirst ==
    ASSUME NEW y, NEW z, z # y
    PROVE  Count(<<y, z>>, y) = 1
<1>1. {k \in DOMAIN <<y, z>> : <<y, z>>[k] = y} = {1}
  OBVIOUS
<1> QED
  BY <1>1, FS_Singleton DEF Count

\* A number of entries of a histogram.
LEMMA CountSame ==
    ASSUME NEW n \in Nat, NEW y, NEW x
    PROVE  /\ [k \in 1..n |-> y] \in Seq({y})
           /\ Count([k \in 1..n |-> y], x) = IF y = x THEN n ELSE 0
<1> DEFINE s == [k \in 1..n |-> y]
<1>1. s \in Seq({y})
  OBVIOUS
<1>2. CASE y = x
  <2>1. {k \in DOMAIN s : s[k] = x} = 1..n
    BY <1>2
  <2>2. Cardinality(1..n) = n
    BY FS_Interval
  <2> QED
    BY <1>1, <1>2, <2>1, <2>2 DEF Count
<1>3. CASE y # x
  <2>1. \A k \in DOMAIN s : s[k] # x
    BY <1>3
  <2>2. Count(s, x) = 0
    <3> HIDE DEF s
    <3> QED
      BY <2>1, CountNone
  <2> QED
    BY <1>1, <1>3, <2>2
<1> QED
  BY <1>2, <1>3

\* Sequences one after the other have the entries of both.
LEMMA CountConcat ==
    ASSUME NEW T, NEW s \in Seq(T), NEW t \in Seq(T)
    PROVE  /\ s \o t \in Seq(T)
           /\ \A x : Count(s \o t, x) = Count(s, x) + Count(t, x)
<1> DEFINE n == Len(s)
           m == Len(t)
<1>1. /\ n \in Nat /\ m \in Nat /\ DOMAIN s = 1..n /\ DOMAIN t = 1..m
      /\ s \o t \in Seq(T) /\ DOMAIN (s \o t) = 1..(n + m)
      /\ \A i \in 1..(n + m) : (s \o t)[i] = IF i <= n THEN s[i] ELSE t[i - n]
  <2>1. s \o t \in Seq(T) /\ Len(s \o t) = n + m
    BY ConcatProperties
  <2> QED
    BY <2>1, LenProperties, ConcatProperties
<1> SUFFICES ASSUME NEW x PROVE Count(s \o t, x) = Count(s, x) + Count(t, x)
  BY <1>1
<1> DEFINE A == {k \in 1..n : s[k] = x}
           B == {k \in 1..m : t[k] = x}
           C == {k \in 1..(n + m) : (s \o t)[k] = x}
           D == {k \in (n + 1)..(n + m) : t[k - n] = x}
<1>2. C = A \cup D /\ A \cap D = {}
  BY <1>1
<1>3. IsFiniteSet(A) /\ IsFiniteSet(B) /\ Count(s, x) = Cardinality(A) /\ Count(t, x) = Cardinality(B)
      /\ Count(s \o t, x) = Cardinality(C)
  BY <1>1, CountNat DEF Count
<1>4. IsFiniteSet(D) /\ Cardinality(D) = Cardinality(B)
  <2> DEFINE shift == [k \in B |-> k + n]
  <2>1. shift \in Bijection(B, D)
    <3>1. \A k \in B : k + n \in D
      BY <1>1
    <3>2. \A k, l \in B : k + n = l + n => k = l
      BY <1>1
    <3>3. \A k \in D : k - n \in B /\ (k - n) + n = k
      BY <1>1
    <3>4. shift \in [B -> D]
      BY <3>1
    <3>5. \A k \in D : \E l \in B : shift[l] = k
      BY <3>3
    <3> HIDE DEF B, D
    <3>6. \A k \in B : shift[k] = k + n
      OBVIOUS
    <3> HIDE DEF shift
    <3>7. IsInjective(shift)
      BY <3>2, <3>4, <3>6 DEF IsInjective
    <3> QED
      BY <3>4, <3>5, <3>7 DEF Bijection, Injection, Surjection
  <2> HIDE DEF B, D, shift
  <2>2. ExistsBijection(B, D)
    BY <2>1 DEF ExistsBijection
  <2> QED
    BY <1>3, <2>2, FS_Bijection
<1> HIDE DEF A, B, C, D
<1>5. Cardinality(C) = Cardinality(A) + Cardinality(D)
  <2>1. Cardinality(A \cap D) = 0
    BY <1>2, FS_EmptySet
  <2>2. /\ Cardinality(A \cup D) = Cardinality(A) + Cardinality(D) - Cardinality(A \cap D)
        /\ Cardinality(A) \in Nat /\ Cardinality(D) \in Nat
    BY <1>3, <1>4, FS_Union, FS_CardinalityType
  <2> QED
    BY <1>2, <2>1, <2>2
<1> QED
  BY <1>3, <1>4, <1>5

\* The entries of the histograms after a fill, if all of them are booked.
LEMMA FillCounts ==
    ASSUME NEW names \in Seq(DOMAIN filled), Fill(names),
           \A h \in DOMAIN filled : filled[h] \in Nat
    PROVE  /\ DOMAIN filled' = DOMAIN filled
           /\ \A h \in DOMAIN filled : /\ filled'[h] = filled[h] + Count(names, h)
                                       /\ filled'[h] \in Nat
<1>1. ToSet(names) \subseteq DOMAIN filled
  BY LenProperties, ElementOfSeq DEF ToSet
<1>2. DOMAIN filled' = DOMAIN filled
  BY <1>1 DEF Fill
<1>3. ASSUME NEW h \in DOMAIN filled PROVE filled'[h] = filled[h] + Count(names, h)
  <2>1. CASE h \in ToSet(names)
    BY <2>1 DEF Fill, Count
  <2>2. CASE h \notin ToSet(names)
    <3>1. \A k \in DOMAIN names : names[k] # h
      BY <2>2 DEF ToSet
    <3>2. Count(names, h) = 0
      BY <3>1, CountNone
    <3>3. filled'[h] = filled[h]
      BY <2>2 DEF Fill
    <3> QED
      BY <3>2, <3>3
  <2> QED
    BY <2>1, <2>2
<1>4. \A h \in DOMAIN filled : filled[h] + Count(names, h) \in Nat
  <2>1. \A h : Count(names, h) \in Nat
    BY CountNat
  <2> QED
    BY <2>1
<1> QED
  BY <1>2, <1>3, <1>4

\* Only that they are booked.
LEMMA FillBooked ==
    ASSUME NEW names \in Seq(DOMAIN filled), Fill(names)
    PROVE  DOMAIN filled' = DOMAIN filled
<1>1. ToSet(names) \subseteq DOMAIN filled
  BY LenProperties, ElementOfSeq DEF ToSet
<1> QED
  BY <1>1 DEF Fill

\* Entries that are made under a condition.
LEMMA IfNames ==
    ASSUME NEW T, NEW condition, NEW names \in Seq(T)
    PROVE  /\ If(condition, names) \in Seq(T)
           /\ \A x : Count(If(condition, names), x) = IF condition THEN Count(names, x) ELSE 0
BY CountEmpty, EmptySeq DEF If

\* The parameters of a chain with a DUT, by DUTAssumption.
LEMMA DUTChain ==
    ASSUME Configured, chain.module = "DUT"
    PROVE  /\ chain.length \in Nat /\ chain.use_cluster_centre \in BOOLEAN
           /\ chain.spatial_cut \in Int \X Int /\ chain.assoc_time_cut \in Int
           /\ chain.chi2ndof_cut \in Int /\ chain.spatial_cut_sensoredge \in Int
           /\ chain.dut_sensoredge \in Int /\ chain.masked_pixel_distance_cut \in Nat
           /\ chain.time_cut_frameedge \in Int /\ chain.require_associated_cluster_on \in BOOLEAN
           /\ chain.inpixel_cut_edge \in Int /\ chain.correlations \in BOOLEAN
           /\ chain.use_closest_cluster \in BOOLEAN
           /\ chain.det.columns \in Nat /\ chain.det.rows \in Nat
           /\ Inputs \subseteq [tracks : Seq(DUTTracks), clusters : Seq(DUTClusters)]
           /\ \A d \in Inputs : \A m \in DOMAIN d.clusters : d.clusters[m].time \in 0..(chain.length - 1)
<1>1. Chains[setup].module = "DUT"
  BY ChainsAssumption DEF Configured
<1>2. Chains[setup] \in DUTConfigurations
  BY <1>1, DUTAssumption DEF Configured
<1> DEFINE c == Chains[setup]
<1>3. /\ c.length \in Nat /\ c.use_cluster_centre \in BOOLEAN
      /\ c.spatial_cut \in Int \X Int /\ c.assoc_time_cut \in Int
      /\ c.chi2ndof_cut \in Int /\ c.spatial_cut_sensoredge \in Int
      /\ c.dut_sensoredge \in Int /\ c.masked_pixel_distance_cut \in Nat
  BY <1>2 DEF DUTConfigurations
<1>7. /\ c.time_cut_frameedge \in Int /\ c.require_associated_cluster_on \in BOOLEAN
      /\ c.inpixel_cut_edge \in Int /\ c.correlations \in BOOLEAN
      /\ c.use_closest_cluster \in BOOLEAN
  BY <1>2 DEF DUTConfigurations
<1>8. c.det \in [columns : Nat, rows : Nat, hexagonal : BOOLEAN, roi : Seq(Int \X Int)]
  BY <1>2 DEF DUTConfigurations
<1>9. c.inputs \in SUBSET [tracks : Seq(DUTTracks), clusters : Seq(DUTClusters)]
  BY <1>2 DEF DUTConfigurations
<1>4. DOMAIN c = {"module", "events", "length", "det", "masked", "use_cluster_centre", "spatial_cut",
                  "assoc_time_cut", "chi2ndof_cut", "spatial_cut_sensoredge", "dut_sensoredge",
                  "masked_pixel_distance_cut", "time_cut_frameedge", "require_associated_cluster_on",
                  "inpixel_cut_edge", "correlations", "use_closest_cluster", "inputs"}
  BY <1>2 DEF DUTConfigurations
<1>6. \A d \in c.inputs : \A m \in DOMAIN d.clusters : d.clusters[m].time \in 0..(c.length - 1)
  BY <1>1, DUTAssumption DEF Configured
<1> HIDE DEF c
<1>5. chain = [key \in DOMAIN c \ {"inputs"} |-> c[key]] /\ Inputs = c.inputs
  BY DEF Configured, Inputs, c
<1> QED
  BY <1>3, <1>4, <1>5, <1>6, <1>7, <1>8, <1>9

AnyOf(s) == CHOOSE y \in s : TRUE

\* The sum over a part of the pixels of a cluster.
PixelSums(S, axis) ==
    CHOOSE iter : iter = [s \in SUBSET S |->
        IF s = {} THEN 0
        ELSE (Unit * AnyOf(s)[axis]) + iter[s \ {AnyOf(s)}]]

\* The sum over the pixels of a cluster is a number.
LEMMA PixelSumsInt ==
    ASSUME NEW S \in SUBSET (Int \X Int), IsFiniteSet(S), NEW axis \in {1, 2}
    PROVE  PixelSum(S, axis) \in Int
<1> DEFINE pick == [s \in (SUBSET S) \ {{}} |-> AnyOf(s)]
           step == [x \in S |-> [v \in Int |-> (Unit * x[axis]) + v]]
<1>1. /\ pick \in [(SUBSET S) \ {{}} -> S]
      /\ \A s \in (SUBSET S) \ {{}} : pick[s] \in s
  <2>1. \A s \in (SUBSET S) \ {{}} : AnyOf(s) \in s
    BY DEF AnyOf
  <2> QED
    BY <2>1
<1>2. Unit \in Int /\ \A x \in S : x[axis] \in Int
  BY UnitAssumption
<1>3. step \in [S -> [Int -> Int]]
  BY <1>2
<1>4. PICK f \in [SUBSET S -> Int] : IsFold(f, S, pick, step, 0)
  <2> HIDE DEF pick, step
  <2>1. 0 \in Int
    OBVIOUS
  <2> QED
    BY <1>1, <1>3, <2>1, SetFold
<1>5. \A s \in (SUBSET S) \ {{}} : f[s] = (Unit * pick[s][axis]) + f[s \ {pick[s]}]
  <2> TAKE s \in (SUBSET S) \ {{}}
  <2>1. f[s] = step[pick[s]][f[s \ {pick[s]}]] /\ f[s \ {pick[s]}] \in Int /\ pick[s] \in S
    BY <1>1, <1>4 DEF IsFold
  <2> QED
    BY <2>1
<1>6. f = [s \in SUBSET S |->
               IF s = {} THEN 0 ELSE (Unit * AnyOf(s)[axis]) + f[s \ {AnyOf(s)}]]
  <2>1. f = [s \in SUBSET S |-> f[s]] /\ f[{}] = 0
    BY <1>4 DEF IsFold
  <2>2. ASSUME NEW s \in SUBSET S
        PROVE  f[s] = IF s = {} THEN 0 ELSE (Unit * AnyOf(s)[axis]) + f[s \ {AnyOf(s)}]
    BY <1>5, <2>1
  <2> HIDE DEF pick, step
  <2> QED
    BY <2>1, <2>2, Zenon
<1> DEFINE k == PixelSums(S, axis)
<1>7. k = [s \in SUBSET S |->
               IF s = {} THEN 0 ELSE (Unit * AnyOf(s)[axis]) + k[s \ {AnyOf(s)}]]
  <2> HIDE DEF pick, step
  <2> QED
    BY <1>6, Zenon DEF PixelSums
<1> HIDE DEF k
<1> DEFINE P == {s \in SUBSET S : k[s] \in Int}
<1>8. {} \in P
  BY <1>7
<1>9. \A s \in (SUBSET S) \ {{}} : pick[s] \in s /\ (s \ {pick[s]} \in P => s \in P)
  <2> TAKE s \in (SUBSET S) \ {{}}
  <2>1. k[s] = (Unit * pick[s][axis]) + k[s \ {pick[s]}]
    <3>1. pick[s] = AnyOf(s)
      OBVIOUS
    <3>2. s \in SUBSET S /\ s # {}
      OBVIOUS
    <3> HIDE DEF pick
    <3>3. k[s] = IF s = {} THEN 0 ELSE (Unit * AnyOf(s)[axis]) + k[s \ {AnyOf(s)}]
      BY <1>7, <3>2, Zenon
    <3> QED
      BY <3>1, <3>2, <3>3
  <2>2. pick[s] \in s /\ pick[s] \in S
    BY <1>1
  <2> HIDE DEF pick
  <2> QED
    BY <1>2, <2>1, <2>2
<1>10. \A s \in SUBSET S : s \in P
  <2> HIDE DEF P, pick
  <2>1. Inductive(P, S, pick)
    BY <1>9 DEF Inductive
  <2> QED
    BY <1>8, <2>1, SetInduction
<1>11. PixelSum(S, axis) = k[S]
  BY Zenon DEF PixelSum, MapThenSumSet, MapThenFoldSet, PixelSums, AnyOf, k
<1> QED
  BY <1>10, <1>11

\* Distances are whole numbers.
LEMMA LeastOf ==
    ASSUME NEW S \in SUBSET Nat, S # {}
    PROVE  Minimum(S) \in S
<1> DEFINE R == OpToRel(<, Nat)
<1>1. IsWellFoundedOn(R, Nat)
  BY NatLessThanWellFounded
<1>2. \A x, y \in Nat : x < y => <<x, y>> \in R
  BY DEF OpToRel
<1> HIDE DEF R
<1>3. PICK n \in S : \A m \in S : ~(<<m, n>> \in R)
  <2>1. S \subseteq Nat
    OBVIOUS
  <2> QED
    BY <1>1, <2>1, WFMin
<1>4. \A m \in S : n <= m
  <2> TAKE m \in S
  <2>1. m \in Nat /\ n \in Nat /\ ~(<<m, n>> \in R)
    BY <1>3
  <2>2. ~(m < n)
    BY <1>2, <2>1, Zenon
  <2> QED
    BY <2>1, <2>2
<1> QED
  BY <1>3, <1>4 DEF Minimum

\* So are the distances of a track to a cluster,
LEMMA DistanceInt ==
    ASSUME NEW x \in Int \X Int, NEW c \in DUTClusters
    PROVE  \A axis \in {1, 2} : Distance(x, c, axis) \in Int
<1> TAKE axis \in {1, 2}
<1> DEFINE P == c.pixels
<1>1. P \in SUBSET (Int \X Int) /\ P # {} /\ IsFiniteSet(P)
  BY DEF DUTClusters
<1> HIDE DEF P
<1>2. x[axis] \in Int /\ Unit \in Int /\ \A p \in P : p[axis] \in Int
  BY <1>1, UnitAssumption
<1>3. CASE chain.use_cluster_centre
  <2> DEFINE sum == PixelSum(P, axis)
  <2>1. sum \in Int
    BY <1>1, PixelSumsInt
  <2>2. Cardinality(P) \in Nat /\ Cardinality(P) # 0
    BY <1>1, FS_CardinalityType, FS_EmptySet
  <2>3. Distance(x, c, axis) = Abs(x[axis] - sum \div Cardinality(P))
    BY <1>3 DEF Distance, P
  <2> HIDE DEF sum
  <2>4. sum \div Cardinality(P) \in Int
    BY <2>1, <2>2
  <2> QED
    BY <1>2, <2>3, <2>4 DEF Abs
<1>4. CASE ~chain.use_cluster_centre
  <2> DEFINE D == {Abs(x[axis] - Unit * p[axis]) : p \in P}
  <2>1. \A p \in P : Abs(x[axis] - Unit * p[axis]) \in Nat
    BY <1>2 DEF Abs
  <2>2. D \in SUBSET Nat /\ D # {}
    BY <1>1, <2>1
  <2>3. Distance(x, c, axis) = Minimum(D)
    BY <1>4 DEF Distance, P
  <2> HIDE DEF D
  <2>4. Minimum(D) \in Nat
    BY <2>2, LeastOf, Zenon
  <2> QED
    BY <2>3, <2>4
<1> QED
  BY <1>3, <1>4

\* and their squares.
LEMMA Distance2Int ==
    ASSUME NEW x \in Int \X Int, NEW c \in DUTClusters
    PROVE  Distance2(x, c) \in Int
<1>1. Distance(x, c, 1) \in Int /\ Distance(x, c, 2) \in Int
  BY DistanceInt
<1> QED
  BY <1>1 DEF Distance2, Square

\* The clusters that the cuts leave for track t, and what a track may have of them.
InCuts(t) == {m \in DOMAIN dut.clusters : Cut(t, dut.clusters[m]) = "assoc_cluster_counter"}

Associations == [associated : Seq(DOMAIN dut.clusters), closest : {0} \cup DOMAIN dut.clusters]

ClosestOf(t, a) ==
    IF a.associated = <<>> THEN a.closest = 0
    ELSE /\ a.closest \in ToSet(a.associated)
         /\ \A m \in ToSet(a.associated) :
                /\ m \in InCuts(t)
                /\ Distance2(t.x, dut.clusters[a.closest]) <= Distance2(t.x, dut.clusters[m])

Associable(t) == {a \in Associations : ClosestOf(t, a)}

\* One more cluster leaves the closest one closest.
LEMMA AddClusterCloses ==
    ASSUME NEW t \in DUTTracks, dut.clusters \in Seq(DUTClusters),
           NEW a \in Associable(t), NEW m \in InCuts(t)
    PROVE  /\ AddCluster(t, a, m) \in Associable(t)
           /\ ToSet(AddCluster(t, a, m).associated) = ToSet(a.associated) \cup {m}
<1> DEFINE b == AddCluster(t, a, m)
           D(i) == Distance2(t.x, dut.clusters[i])
<1>1. DOMAIN dut.clusters = 1..Len(dut.clusters) /\ Len(dut.clusters) \in Nat
  BY LenProperties
<1>2. a \in Associations /\ ClosestOf(t, a) /\ m \in DOMAIN dut.clusters
  BY DEF Associable, InCuts
<1>3. \A i \in DOMAIN dut.clusters : D(i) \in Int
  <2> TAKE i \in DOMAIN dut.clusters
  <2>1. dut.clusters[i] \in DUTClusters /\ t.x \in Int \X Int
    BY <1>1, ElementOfSeq DEF DUTTracks
  <2> QED
    BY <2>1, Distance2Int
<1>4. /\ a.associated \in Seq(DOMAIN dut.clusters)
      /\ a.closest \in {0} \cup DOMAIN dut.clusters
  BY <1>2 DEF Associations
<1>5. /\ b.associated = Append(a.associated, m)
      /\ b.closest = IF a.closest = 0 \/ D(m) < D(a.closest) THEN m ELSE a.closest
      /\ b = [associated |-> b.associated, closest |-> b.closest]
  BY DEF AddCluster
<1>6. /\ b.associated \in Seq(DOMAIN dut.clusters) /\ b.associated # <<>>
      /\ ToSet(b.associated) = ToSet(a.associated) \cup {m}
  <2> DEFINE s == a.associated
  <2> HIDE DEF s
  <2>1. s \in Seq(DOMAIN dut.clusters)
    BY <1>4 DEF s
  <2>2. /\ Append(s, m) \in Seq(DOMAIN dut.clusters) /\ Append(s, m) # <<>>
        /\ Len(Append(s, m)) = Len(s) + 1 /\ Append(s, m)[Len(s) + 1] = m /\ Len(s) \in Nat
        /\ \A i \in 1..Len(s) : Append(s, m)[i] = s[i]
        /\ DOMAIN Append(s, m) = 1..(Len(s) + 1) /\ DOMAIN s = 1..Len(s)
    BY <2>1, <1>2, AppendProperties, LenProperties
  <2>3. ToSet(Append(s, m)) = ToSet(s) \cup {m}
    <3> DEFINE l == Append(s, m)
    <3> HIDE DEF l
    <3>1. \A x : x \in ToSet(l) <=> x \in ToSet(s) \cup {m}
      BY <2>2 DEF ToSet, l
    <3> QED
      BY <3>1 DEF l
  <2> QED
    BY <1>5, <2>2, <2>3 DEF s
<1>7. b.closest \in {0} \cup DOMAIN dut.clusters
  BY <1>2, <1>4, <1>5
<1> HIDE DEF b
<1>8. b \in Associations
  BY <1>5, <1>6, <1>7 DEF Associations
<1>9. ClosestOf(t, b)
  <2>1. CASE a.associated = <<>>
    <3>1. ToSet(a.associated) = {}
      BY <2>1 DEF ToSet
    <3>2. b.closest = m
      BY <1>2, <1>5, <2>1 DEF ClosestOf
    <3>3. D(m) <= D(m)
      BY <1>2, <1>3
    <3> QED
      BY <1>6, <3>1, <3>2, <3>3 DEF ClosestOf
  <2>2. CASE a.associated # <<>>
    <3>1. /\ a.closest \in ToSet(a.associated)
          /\ \A i \in ToSet(a.associated) : i \in InCuts(t) /\ D(a.closest) <= D(i)
      BY <1>2, <2>2 DEF ClosestOf
    <3>2. \A i \in ToSet(b.associated) : i \in DOMAIN dut.clusters
      BY <1>6, <1>2, <3>1 DEF InCuts
    <3>3. a.closest # 0 /\ a.closest \in DOMAIN dut.clusters
      BY <1>1, <1>6, <3>1, <3>2
    <3>4. b.closest = IF D(m) < D(a.closest) THEN m ELSE a.closest
      BY <1>5, <3>3
    <3>5. D(m) \in Int /\ D(a.closest) \in Int /\ \A i \in ToSet(b.associated) : D(i) \in Int
      BY <1>2, <1>3, <3>2, <3>3
    <3>6. \A i \in ToSet(b.associated) : i \in InCuts(t)
      BY <1>6, <3>1
    <3>7. b.closest \in ToSet(b.associated)
      BY <1>6, <3>1, <3>4
    <3>8. \A i \in ToSet(b.associated) : D(b.closest) <= D(i)
      <4> HIDE DEF D
      <4> QED
        BY <1>6, <3>1, <3>4, <3>5
    <3> QED
      BY <1>6, <3>6, <3>7, <3>8 DEF ClosestOf
  <2> QED
    BY <2>1, <2>2
<1> QED
  BY <1>6, <1>8, <1>9 DEF Associable, b

\* What the loop over the clusters of a track has made of a part of them.
Associated(t, base, seq) ==
    CHOOSE iter : iter = [s \in SUBSET DOMAIN seq |->
        IF s = {} THEN base ELSE AddCluster(t, iter[s \ {Max(s)}], seq[Max(s)])]

\* So does the loop over the clusters.
LEMMA AssociatedCloses ==
    ASSUME NEW t \in DUTTracks, dut.clusters \in Seq(DUTClusters),
           NEW base \in Associable(t), NEW seq \in Seq(InCuts(t))
    PROVE  LET fold == FoldLeft(LAMBDA a, m : AddCluster(t, a, m), base, seq)
           IN  fold \in Associable(t) /\ \A i \in 1..Len(seq) : seq[i] \in ToSet(fold.associated)
<1> DEFINE n == Len(seq)
           V == Associable(t)
           step == [i \in 1..n |-> [v \in V |-> AddCluster(t, v, seq[i])]]
<1>1. n \in Nat /\ DOMAIN seq = 1..n /\ \A i \in 1..n : seq[i] \in InCuts(t)
  BY LenProperties, ElementOfSeq
<1>2. \A i \in 1..n : \A v \in V : /\ AddCluster(t, v, seq[i]) \in V
                                    /\ ToSet(AddCluster(t, v, seq[i]).associated) = ToSet(v.associated) \cup {seq[i]}
  BY <1>1, AddClusterCloses
<1> HIDE DEF V, n
<1>3. step \in Bodies(V, n) /\ base \in V
  BY <1>2 DEF V, Bodies
<1>4. PICK f : IsLeftFold(f, V, n, step, base)
  <2> HIDE DEF step
  <2> QED
    BY <1>1, <1>3, LeftFold
<1>5. f = [s \in SUBSET DOMAIN seq |->
              IF s = {} THEN base ELSE AddCluster(t, f[s \ {Max(s)}], seq[Max(s)])]
  <2>1. \A s \in SUBSET (1..n) : s # {} => f[s] = AddCluster(t, f[s \ {Max(s)}], seq[Max(s)])
    <3> TAKE s \in SUBSET (1..n)
    <3>1. s \ {Max(s)} \in SUBSET (1..n)
      OBVIOUS
    <3>2. f[s \ {Max(s)}] \in V
      BY <1>4, <3>1 DEF IsLeftFold
    <3> QED
      BY <1>4, <3>2 DEF IsLeftFold
  <2>2. f = [s \in SUBSET (1..n) |-> f[s]] /\ f[{}] = base
    BY <1>4 DEF IsLeftFold
  <2> HIDE DEF step
  <2> QED
    BY <1>1, <2>1, <2>2, Zenon
<1> DEFINE k == Associated(t, base, seq)
<1>6. k = [s \in SUBSET DOMAIN seq |->
              IF s = {} THEN base ELSE AddCluster(t, k[s \ {Max(s)}], seq[Max(s)])]
  <2> HIDE DEF step
  <2> QED
    BY <1>5, Zenon DEF Associated
<1> HIDE DEF k, step
<1> DEFINE P == {i \in 0..n : /\ k[1..i] \in V
                              /\ \A j \in 1..i : seq[j] \in ToSet(k[1..i].associated)}
<1>7. 0 \in P
  <2>1. 1..0 = {} /\ {} \in SUBSET DOMAIN seq
    BY RangeEnds
  <2>2. k[1..0] = base
    BY <1>6, <2>1, Zenon
  <2>3. 0 \in 0..n /\ \A j \in 1..0 : FALSE
    BY <1>1
  <2> QED
    BY <1>3, <2>2, <2>3
<1>8. \A i \in 1..n : i - 1 \in P => i \in P
  <2> TAKE i \in 1..n
  <2> HAVE i - 1 \in P
  <2>1. /\ 1..i \in SUBSET (1..n) /\ 1..i # {} /\ Max(1..i) = i /\ (1..i) \ {i} = 1..(i - 1)
    BY <1>1, RangeEnds
  <2>2. k[1..i] = AddCluster(t, k[1..(i - 1)], seq[i])
    BY <1>1, <1>6, <2>1, Zenon
  <2>3. k[1..(i - 1)] \in V /\ \A j \in 1..(i - 1) : seq[j] \in ToSet(k[1..(i - 1)].associated)
    OBVIOUS
  <2>4. i \in 0..n /\ \A j \in 1..i : j = i \/ j \in 1..(i - 1)
    BY <1>1
  <2>5. ToSet(k[1..i].associated) = ToSet(k[1..(i - 1)].associated) \cup {seq[i]}
    BY <1>2, <2>2, <2>3
  <2>6. \A j \in 1..i : seq[j] \in ToSet(k[1..i].associated)
    BY <2>3, <2>4, <2>5
  <2> QED
    BY <1>2, <2>2, <2>3, <2>4, <2>6
<1>9. k[1..n] \in V /\ \A j \in 1..n : seq[j] \in ToSet(k[1..n].associated)
  <2>1. \A i \in 0..n : i \in P
    <3> HIDE DEF P
    <3> QED
      BY <1>1, <1>7, <1>8, UpTo
  <2>2. n \in 0..n
    BY <1>1
  <2> QED
    BY <2>1, <2>2
<1>10. FoldLeft(LAMBDA a, m : AddCluster(t, a, m), base, seq) = k[DOMAIN seq]
  BY DEF FoldLeft, MapThenFoldSet, Associated, k
<1> QED
  BY <1>1, <1>9, <1>10 DEF V, n

DUTInv ==
    chain.module = "DUT" /\ at \notin {"initialize", "begin"} =>
        /\ dut.tracks \in Seq(DUTTracks) /\ dut.clusters \in Seq(DUTClusters)
        /\ DOMAIN assoc = DOMAIN dut.tracks
        /\ \A k \in DOMAIN assoc : assoc[k] \in Associable(dut.tracks[k])
        /\ todo \in Nat \ {0}

\* Distances and cuts depend on the configuration and the clipboard alone.
LEMMA DistanceSame ==
    ASSUME chain' = chain, NEW x, NEW c, NEW axis
    PROVE  Distance(x, c, axis)' = Distance(x, c, axis)
<1> DEFINE centre == Abs(x[axis] - PixelSum(c.pixels, axis) \div Cardinality(c.pixels))
           near == Minimum({Abs(x[axis] - Unit * p[axis]) : p \in c.pixels})
<1>1. Distance(x, c, axis) = IF chain.use_cluster_centre THEN centre ELSE near
  BY DEF Distance
<1>2. Distance(x, c, axis)' = IF chain'.use_cluster_centre THEN centre ELSE near
  BY Zenon DEF Distance
<1> HIDE DEF centre, near
<1> QED
  BY <1>1, <1>2

\* The operators of the association depend on the chain and the clipboard only.
LEMMA DistancesSame ==
    ASSUME chain' = chain
    PROVE  \A x, c, axis : Distance(x, c, axis)' = Distance(x, c, axis)
BY DistanceSame

\* So do the squares of the distances,
LEMMA Distance2Same ==
    ASSUME chain' = chain
    PROVE  \A x, c : Distance2(x, c)' = Distance2(x, c)
BY DistancesSame DEF Distance2

\* the spatial cuts,
LEMMA OutsideSame ==
    ASSUME chain' = chain
    PROVE  \A x, c : Outside(x, c)' = Outside(x, c)
BY DistancesSame DEF Outside

\* all cuts,
LEMMA CutSame ==
    ASSUME chain' = chain
    PROVE  \A t, c : Cut(t, c)' = Cut(t, c)
BY OutsideSame DEF Cut

\* the clusters within them,
LEMMA InCutsSame ==
    ASSUME chain' = chain, dut' = dut
    PROVE  \A t : InCuts(t)' = InCuts(t)
BY CutSame DEF InCuts

\* which of them is the closest,
LEMMA ClosestSame ==
    ASSUME chain' = chain, dut' = dut
    PROVE  \A t, a : ClosestOf(t, a)' <=> ClosestOf(t, a)
BY Distance2Same, InCutsSame DEF ClosestOf

\* and what is associated.
LEMMA AssociableSame ==
    ASSUME chain' = chain, dut' = dut
    PROVE  \A t : Associable(t)' = Associable(t)
BY ClosestSame DEF Associable, Associations

\* A run starts at its beginning,
LEMMA InitLoop == Init => LoopInv
BY DEF Init, ChainInit, LoopInv, Configured, Placed

\* and every step keeps the place and the configuration.
LEMMA LoopKept ==
    ASSUME LoopInv, [Next]_vars
    PROVE  LoopInv' /\ chain' = chain /\ setup' = setup
<1>1. /\ chain' = chain /\ setup' = setup /\ Placed'
      /\ event' \in {event, event + 1, 1}
  BY LoopStep DEF LoopInv
<1>2. Configured'
  BY <1>1 DEF LoopInv, Configured
<1> QED
  BY <1>1, <1>2 DEF LoopInv

\* A step that is not one of the modules of a DUT, of a chain with these modules.
LEMMA OtherThanDUT ==
    ASSUME LoopInv, [Next]_vars, chain.module = "DUT", ~DUTNext
    PROVE  /\ UNCHANGED <<dutVars, at, event, filled, prev_hit_ts>> \/ Initialize \/ NextEvent
           /\ UNCHANGED dutVars
<1> USE DEF dutVars, effVars, analysisVars, vars, chainVars, loopVars
<1>1. CASE UNCHANGED vars
  BY <1>1
<1>2. CASE Initialize
  BY <1>2 DEF Initialize
<1>3. CASE NextEvent
  BY <1>3 DEF NextEvent
<1>4. ASSUME Next, ~Initialize, ~NextEvent PROVE FALSE
  BY <1>4, NextSteps, OwnSteps DEF LoopInv
<1> QED
  BY <1>1, <1>2, <1>3, <1>4

\* What arrives in an event has the types of the clipboard.
LEMMA InEventTypes ==
    ASSUME Configured, chain.module = "DUT", event \in Nat,
           NEW d \in [tracks : Seq(DUTTracks), clusters : Seq(DUTClusters)]
    PROVE  /\ [k \in DOMAIN d.tracks |-> InEvent(event, d.tracks[k])] \in Seq(DUTTracks)
           /\ [m \in DOMAIN d.clusters |-> InEvent(event, d.clusters[m])] \in Seq(DUTClusters)
           /\ DOMAIN d.tracks = DOMAIN [k \in DOMAIN d.tracks |-> InEvent(event, d.tracks[k])]
<1>1. EventStart(event) \in Int
  BY DUTChain DEF EventStart
<1> DEFINE ts == d.tracks
           cs == d.clusters
<1>2. ts \in Seq(DUTTracks) /\ cs \in Seq(DUTClusters)
  OBVIOUS
<1> HIDE DEF ts, cs
<1>3. /\ DOMAIN ts = 1..Len(ts) /\ Len(ts) \in Nat /\ \A k \in 1..Len(ts) : ts[k] \in DUTTracks
      /\ DOMAIN cs = 1..Len(cs) /\ Len(cs) \in Nat /\ \A k \in 1..Len(cs) : cs[k] \in DUTClusters
  BY <1>2, LenProperties, ElementOfSeq
<1>4. \A t \in DUTTracks : InEvent(event, t) \in DUTTracks
  BY <1>1 DEF InEvent, DUTTracks
<1>5. \A c \in DUTClusters : InEvent(event, c) \in DUTClusters
  <2> DEFINE Shapes == {P \in SUBSET (Int \X Int) : P # {} /\ IsFiniteSet(P)}
  <2>1. DUTClusters = [pixels : Shapes, time : Int]
    BY DEF DUTClusters
  <2> HIDE DEF Shapes
  <2> QED
    BY <1>1, <2>1 DEF InEvent
<1>6. [k \in DOMAIN ts |-> InEvent(event, ts[k])] \in Seq(DUTTracks)
  BY <1>3, <1>4, IsASeq
<1>7. [m \in DOMAIN cs |-> InEvent(event, cs[m])] \in Seq(DUTClusters)
  BY <1>3, <1>5, IsASeq
<1> QED
  BY <1>6, <1>7 DEF ts, cs

\* A step of DUTAssociation gives a track all clusters within the cuts.
LEMMA AssociatesTrack ==
    ASSUME DUTInv, AssociateTrack, chain.module = "DUT"
    PROVE  \E fold \in Associable(dut.tracks[todo]) :
               /\ assoc' = [assoc EXCEPT ![todo] = fold]
               /\ InCuts(dut.tracks[todo]) \subseteq ToSet(fold.associated)
<1>1. at = "associate" /\ todo \in DOMAIN dut.tracks
  BY DEF AssociateTrack, Proceed
<1> DEFINE t == dut.tracks[todo]
           cuts == [m \in DOMAIN dut.clusters |-> Cut(t, dut.clusters[m])]
           added == Kept([m \in DOMAIN cuts |-> m], {m \in DOMAIN cuts : cuts[m] = "assoc_cluster_counter"})
           fold == FoldLeft(LAMBDA a, m : AddCluster(t, a, m), assoc[todo], added)
<1>2. assoc' = [assoc EXCEPT ![todo] = fold]
  BY DEF AssociateTrack
<1>3. dut.tracks \in Seq(DUTTracks) /\ dut.clusters \in Seq(DUTClusters) /\ DOMAIN assoc = DOMAIN dut.tracks
      /\ \A k \in DOMAIN assoc : assoc[k] \in Associable(dut.tracks[k])
  BY <1>1 DEF DUTInv
<1>4. t \in DUTTracks /\ assoc[todo] \in Associable(t)
  BY <1>1, <1>3, ElementOfSeq, LenProperties
<1>5. /\ added \in Seq(InCuts(t))
      /\ \A m \in InCuts(t) : \E i \in 1..Len(added) : added[i] = m
  <2> DEFINE all == [m \in DOMAIN cuts |-> m]
             n == Len(dut.clusters)
  <2>1. DOMAIN cuts = 1..n /\ n \in Nat
    BY <1>3, LenProperties
  <2>2. all \in Seq(Nat) /\ Len(all) = n
    BY <2>1, IsASeq
  <2>3. {m \in DOMAIN cuts : cuts[m] = "assoc_cluster_counter"} = InCuts(t)
    BY DEF InCuts
  <2>4. InCuts(t) \subseteq 1..n /\ \A m \in 1..n : all[m] = m
    BY <2>1 DEF InCuts
  <2> DEFINE S == InCuts(t)
             kept == Kept(all, S)
  <2>5. added = kept
    BY <2>3
  <2> HIDE DEF all, n, S
  <2>6. kept \in Seq(Nat) /\ \A x : Has(kept, x) <=> Has(all, x) /\ x \in S
    BY <2>2, KeptHas
  <2> HIDE DEF kept
  <2>7. kept \in Seq(S)
    <3>1. \A i \in 1..Len(kept) : kept[i] \in S
      BY <2>6 DEF Has
    <3> QED
      BY <2>6, <3>1
  <2>8. \A m \in S : Has(all, m)
    BY <2>1, <2>2, <2>4 DEF Has, S
  <2>9. \A m \in S : \E i \in 1..Len(kept) : kept[i] = m
    BY <2>6, <2>8 DEF Has
  <2> HIDE DEF added
  <2> QED
    BY <2>5, <2>7, <2>9 DEF S
<1> HIDE DEF t, added, cuts
<1>6. fold \in Associable(t) /\ \A i \in 1..Len(added) : added[i] \in ToSet(fold.associated)
  BY <1>3, <1>4, <1>5, AssociatedCloses
<1> HIDE DEF fold
<1>7. InCuts(t) \subseteq ToSet(fold.associated)
  BY <1>5, <1>6
<1> QED
  BY <1>2, <1>6, <1>7 DEF t

\* Every step keeps the decisions of the association.
LEMMA DUTInvStep ==
    ASSUME LoopInv, DUTInv, [Next]_vars
    PROVE  DUTInv'
<1> SUFFICES ASSUME chain.module = "DUT", at' \notin {"initialize", "begin"} PROVE DUTInv'
  BY LoopKept DEF DUTInv
<1>1. chain' = chain
  BY LoopKept
<1>2. CASE ~DUTNext
  <2>1. at \notin {"initialize", "begin"}
    BY <1>2, OtherThanDUT DEF Initialize, NextEvent, EndOfEvent, Proceed
  <2>2. dut' = dut /\ assoc' = assoc /\ todo' = todo
    BY <1>2, OtherThanDUT DEF dutVars
  <2> QED
    BY <1>1, <2>1, <2>2, AssociableSame DEF DUTInv
<1>3. CASE DUTNext
  <2>1. CASE TracksArrive
    <3>1. PICK d \in Inputs :
              /\ dut' = [tracks |-> [k \in DOMAIN d.tracks |-> InEvent(event, d.tracks[k])],
                         clusters |-> [m \in DOMAIN d.clusters |-> InEvent(event, d.clusters[m])]]
              /\ assoc' = [k \in DOMAIN d.tracks |-> [associated |-> <<>>, closest |-> 0]]
      BY <2>1 DEF TracksArrive
    <3>2. d \in [tracks : Seq(DUTTracks), clusters : Seq(DUTClusters)]
      BY DUTChain DEF LoopInv
    <3>3. dut'.tracks \in Seq(DUTTracks) /\ dut'.clusters \in Seq(DUTClusters) /\ DOMAIN dut'.tracks = DOMAIN d.tracks
      BY <3>1, <3>2, InEventTypes DEF LoopInv
    <3>4. todo' = 1 /\ DOMAIN assoc' = DOMAIN dut'.tracks
      BY <2>1, <3>1, <3>3 DEF TracksArrive
    <3>5. \A k \in DOMAIN assoc' : assoc'[k] = [associated |-> <<>>, closest |-> 0]
      BY <3>1
    <3>6. [associated |-> <<>>, closest |-> 0] \in Associations'
      BY DEF Associations
    <3>7. \A k \in DOMAIN assoc' : assoc'[k] \in Associable(dut.tracks[k])'
      BY <3>5, <3>6 DEF Associable, ClosestOf
    <3> QED
      BY <3>3, <3>4, <3>7 DEF DUTInv
  <2>2. CASE AssociateTrack
    <3>1. PICK fold \in Associable(dut.tracks[todo]) : assoc' = [assoc EXCEPT ![todo] = fold]
      BY <2>2, AssociatesTrack
    <3>2. dut' = dut /\ todo \in DOMAIN dut.tracks /\ todo' = todo + 1 /\ at = "associate"
      BY <2>2 DEF AssociateTrack, Proceed
    <3>3. dut.tracks \in Seq(DUTTracks) /\ dut.clusters \in Seq(DUTClusters) /\ DOMAIN assoc = DOMAIN dut.tracks
          /\ \A k \in DOMAIN assoc : assoc[k] \in Associable(dut.tracks[k])
          /\ todo \in Nat \ {0}
      BY <3>2 DEF DUTInv
    <3>4. /\ DOMAIN assoc' = DOMAIN dut.tracks
          /\ \A k \in DOMAIN assoc' : assoc'[k] \in Associable(dut.tracks[k])
      BY <3>1, <3>2, <3>3
    <3>5. \A k \in DOMAIN assoc' : Associable(dut.tracks[k])' = Associable(dut.tracks[k])
      BY <1>1, <3>2, AssociableSame
    <3>6. todo' \in Nat \ {0}
      BY <3>2, <3>3
    <3> QED
      BY <3>2, <3>3, <3>4, <3>5, <3>6 DEF DUTInv
  <2>3. CASE ~TracksArrive /\ ~AssociateTrack
    <3>1. /\ dut' = dut /\ assoc' = assoc /\ at \notin {"initialize", "begin"}
          /\ todo' \in {todo, 1, todo + 1}
      BY <1>3, <2>3 DEF DUTNext, AssociationDone, EfficiencyTrack, EfficiencyHits, DUTTrack,
             DUTDone, EfficiencyFinalize, NextModule, Proceed, dutVars
    <3>2. todo \in Nat \ {0} => todo' \in Nat \ {0}
      BY <3>1
    <3> QED
      BY <1>1, <3>1, <3>2, AssociableSame DEF DUTInv
  <2> QED
    BY <2>1, <2>2, <2>3
<1> QED
  BY <1>2, <1>3

\* The place and the configuration, in every state.
LEMMA NextLoop == Spec => []LoopInv
<1>1. LoopInv /\ [Next]_vars => LoopInv'
  BY LoopKept
<1> QED
  BY <1>1, InitLoop, PTL DEF Spec

\* The decisions of the association, in every state.
LEMMA DUTInvCorrect == Spec => []DUTInv
<1>1. Init => DUTInv
  BY DEF Init, ChainInit, DUTInv
<1>2. LoopInv /\ DUTInv /\ [Next]_vars => DUTInv'
  BY DUTInvStep
<1> QED
  BY <1>1, <1>2, NextLoop, PTL DEF Spec

\* The clusters of the tracks that DUTAssociation has looked at, and of the others.
AllAssociated ==
    chain.module = "DUT" /\ at \notin {"initialize", "begin"} =>
        \A k \in DOMAIN assoc :
            ToSet(assoc[k].associated) = IF at = "associate" /\ k >= todo THEN {} ELSE InCuts(dut.tracks[k])

\* Every step keeps them.
LEMMA AllAssociatedStep ==
    ASSUME LoopInv, DUTInv, AllAssociated, [Next]_vars
    PROVE  AllAssociated'
<1> SUFFICES ASSUME chain.module = "DUT", at' \notin {"initialize", "begin"},
                    NEW k \in DOMAIN assoc'
             PROVE  ToSet(assoc'[k].associated)
                        = IF at' = "associate" /\ k >= todo' THEN {} ELSE InCuts(dut.tracks[k])'
  BY LoopKept DEF AllAssociated
<1>1. chain' = chain
  BY LoopKept
<1>2. CASE TracksArrive
  <2>1. assoc'[k].associated = <<>> /\ k \in Nat \ {0}
    <3>1. PICK d \in Inputs : assoc' = [n \in DOMAIN d.tracks |-> [associated |-> <<>>, closest |-> 0]]
      BY <1>2 DEF TracksArrive
    <3>2. d.tracks \in Seq(DUTTracks)
      BY DUTChain DEF LoopInv
    <3> QED
      BY <3>1, <3>2, LenProperties
  <2>2. todo' = 1 /\ at' = "associate"
    BY <1>2 DEF TracksArrive, Proceed
  <2> QED
    BY <2>1, <2>2 DEF ToSet
<1>3. CASE ~TracksArrive
  <2>1. at \notin {"initialize", "begin"}
    <3>1. CASE DUTNext
      BY <1>3, <3>1 DEF DUTNext, AssociateTrack, AssociationDone, EfficiencyTrack, EfficiencyHits, DUTTrack,
             DUTDone, EfficiencyFinalize, NextModule, Proceed
    <3>2. CASE ~DUTNext
      BY <3>2, OtherThanDUT DEF Initialize, NextEvent, EndOfEvent, Proceed
    <3> QED
      BY <3>1, <3>2
  <2>2. dut' = dut
    <3>1. CASE DUTNext
      BY <1>3, <3>1 DEF DUTNext, AssociateTrack, AssociationDone, EfficiencyTrack, EfficiencyHits, DUTTrack,
             DUTDone, EfficiencyFinalize, NextModule, Proceed, dutVars
    <3>2. CASE ~DUTNext
      BY <3>2, OtherThanDUT DEF dutVars
    <3> QED
      BY <3>1, <3>2
  <2>3. InCuts(dut.tracks[k])' = InCuts(dut.tracks[k])
    BY <1>1, <2>2, InCutsSame
  <2>4. todo \in Nat \ {0} /\ DOMAIN assoc = 1..Len(dut.tracks) /\ Len(dut.tracks) \in Nat
    BY <2>1, LenProperties DEF DUTInv
  <2>5. CASE AssociateTrack
    <3>1. PICK fold \in Associable(dut.tracks[todo]) :
              assoc' = [assoc EXCEPT ![todo] = fold] /\ InCuts(dut.tracks[todo]) \subseteq ToSet(fold.associated)
      BY <2>5, AssociatesTrack
    <3>2. todo \in DOMAIN assoc /\ at = "associate" /\ at' = "associate" /\ todo' = todo + 1
      BY <2>1, <2>5 DEF AssociateTrack, Proceed, DUTInv
    <3>3. k \in DOMAIN assoc /\ k \in Nat
      BY <2>4, <3>1
    <3>4. CASE k = todo
      <4>1. ToSet(fold.associated) \subseteq InCuts(dut.tracks[todo])
        BY DEF Associable, ClosestOf, ToSet
      <4>2. assoc'[k] = fold /\ ~(k >= todo')
        BY <2>4, <3>1, <3>2, <3>3, <3>4
      <4>3. ToSet(fold.associated) = InCuts(dut.tracks[todo])
        BY <3>1, <4>1
      <4>4. ~(at' = "associate" /\ k >= todo')
        BY <4>2
      <4>5. ToSet(assoc'[k].associated) = InCuts(dut.tracks[k])
        BY <3>4, <4>2, <4>3
      <4> QED
        BY <2>3, <4>4, <4>5
    <3>5. CASE k # todo
      <4>1. assoc'[k] = assoc[k] /\ (k >= todo' <=> k >= todo)
        BY <2>4, <3>1, <3>2, <3>3, <3>5
      <4> QED
        BY <2>1, <2>3, <3>2, <3>3, <4>1 DEF AllAssociated
    <3> QED
      BY <3>4, <3>5
  <2>6. CASE AssociationDone
    <3>1. at = "associate" /\ at' = "efficiency" /\ todo > Len(dut.tracks) /\ assoc' = assoc
      BY <2>6 DEF AssociationDone, NextModule, Proceed
    <3>2. ~(k >= todo) /\ k \in DOMAIN assoc
      BY <2>4, <3>1
    <3> QED
      BY <2>1, <2>3, <3>1, <3>2 DEF AllAssociated
  <2>7. CASE ~AssociateTrack /\ ~AssociationDone
    <3>1. /\ assoc' = assoc
          /\ UNCHANGED <<at, todo>> \/ (at # "associate" /\ at' # "associate")
      <4>1. CASE DUTNext
        BY <1>3, <2>7, <4>1 DEF DUTNext, EfficiencyTrack, EfficiencyHits, DUTTrack,
               DUTDone, EfficiencyFinalize, NextModule, Proceed, dutVars
      <4>2. CASE ~DUTNext
        BY <2>1, <4>2, OtherThanDUT DEF Initialize, NextEvent, EndOfEvent, Proceed, dutVars
      <4> QED
        BY <4>1, <4>2
    <3> QED
      BY <2>1, <2>3, <3>1 DEF AllAssociated
  <2> QED
    BY <2>5, <2>6, <2>7
<1> QED
  BY <1>2, <1>3

\* The closest cluster.
THEOREM AssociationCorrect == Spec => []AssociationClosest
<1>1. LoopInv /\ DUTInv /\ AllAssociated => AssociationClosest
  <2> SUFFICES ASSUME LoopInv, DUTInv, AllAssociated, chain.module = "DUT", at \notin {"initialize", "begin"},
                      NEW k \in DOMAIN assoc
               PROVE  LET a == assoc[k]
                          t == dut.tracks[k]
                          within == {m \in DOMAIN dut.clusters :
                                        /\ ~Outside(t.x, dut.clusters[m])
                                        /\ Abs(dut.clusters[m].time - t.time) <= chain.assoc_time_cut}
                      IN  /\ ToSet(a.associated) = IF at = "associate" /\ k >= todo THEN {} ELSE within
                          /\ IF a.associated = <<>> THEN a.closest = 0
                             ELSE /\ a.closest \in ToSet(a.associated)
                                  /\ \A m \in ToSet(a.associated) :
                                         Distance2(t.x, dut.clusters[a.closest]) <= Distance2(t.x, dut.clusters[m])
    BY DEF AssociationClosest
  <2> DEFINE a == assoc[k]
             t == dut.tracks[k]
             within == {m \in DOMAIN dut.clusters :
                           /\ ~Outside(t.x, dut.clusters[m])
                           /\ Abs(dut.clusters[m].time - t.time) <= chain.assoc_time_cut}
  <2>1. ClosestOf(t, a) /\ t \in DUTTracks
    <3>1. dut.tracks \in Seq(DUTTracks) /\ DOMAIN assoc = DOMAIN dut.tracks /\ a \in Associable(t)
      BY DEF DUTInv
    <3> HIDE DEF a
    <3> QED
      BY <3>1, ElementOfSeq, LenProperties DEF Associable
  <2>2. dut.clusters \in Seq(DUTClusters)
    BY DEF DUTInv
  <2>3. ToSet(a.associated) = IF at = "associate" /\ k >= todo THEN {} ELSE InCuts(t)
    BY DEF AllAssociated
  <2> HIDE DEF a, t
  <2>4. \A m \in DOMAIN dut.clusters :
            Cut(t, dut.clusters[m]) = "assoc_cluster_counter"
            <=> ~Outside(t.x, dut.clusters[m]) /\ Abs(dut.clusters[m].time - t.time) <= chain.assoc_time_cut
    <3> TAKE m \in DOMAIN dut.clusters
    <3>1. dut.clusters[m] \in DUTClusters
      BY <2>2, ElementOfSeq, LenProperties
    <3>2. dut.clusters[m].time \in Int /\ t.time \in Int /\ chain.assoc_time_cut \in Int
      BY <2>1, <3>1, DUTChain DEF DUTClusters, DUTTracks, LoopInv
    <3> DEFINE away == Abs(dut.clusters[m].time - t.time)
    <3>3. away \in Int
      BY <3>2 DEF Abs
    <3> HIDE DEF away
    <3>4. Cut(t, dut.clusters[m]) = "assoc_cluster_counter"
              <=> ~Outside(t.x, dut.clusters[m]) /\ ~(away > chain.assoc_time_cut)
      BY DEF Cut, away
    <3>5. ~(away > chain.assoc_time_cut) <=> away <= chain.assoc_time_cut
      BY <3>2, <3>3
    <3> QED
      BY <3>4, <3>5 DEF away
  <2>5. InCuts(t) = within
    BY <2>4 DEF InCuts
  <2> HIDE DEF within
  <2>6. IF a.associated = <<>> THEN a.closest = 0
        ELSE /\ a.closest \in ToSet(a.associated)
             /\ \A m \in ToSet(a.associated) :
                    Distance2(t.x, dut.clusters[a.closest]) <= Distance2(t.x, dut.clusters[m])
    BY <2>1 DEF ClosestOf
  <2> QED
    BY <2>3, <2>5, <2>6 DEF a, t, within
<1>2. Init => AllAssociated
  BY DEF Init, ChainInit, AllAssociated
<1>3. LoopInv /\ DUTInv /\ AllAssociated /\ [Next]_vars => AllAssociated'
  BY AllAssociatedStep
<1> QED
  BY <1>1, <1>2, <1>3, NextLoop, DUTInvCorrect, PTL DEF Spec

-----------------------------------------------------------------------------
(* The histograms that an analysis of a DUT fills *)

Entry(condition) == IF condition THEN 1 ELSE 0

\* One entry each of y and z, that of z under a condition.
Twice(s, y, z, condition) ==
    /\ s \in Seq({y, z}) /\ Count(s, y) = 1 /\ Count(s, z) = Entry(condition)
    /\ \A x : x \notin {y, z} => Count(s, x) = 0

\* Of two names that differ each is entered once.
LEMMA CountPair ==
    ASSUME NEW y, NEW z, y # z
    PROVE  Twice(<<y, z>>, y, z, TRUE)
<1>1. <<y, z>> \in Seq({y, z})
  OBVIOUS
<1>2. Count(<<y, z>>, y) = 1
  BY CountFirst
<1>3. Count(<<y, z>>, z) = 1
  BY CountTwo
<1>4. \A x : x \notin {y, z} => Count(<<y, z>>, x) = 0
  <2> DEFINE T == {y, z}
             s == <<y, z>>
  <2>1. s \in Seq(T)
    BY <1>1
  <2> HIDE DEF T, s
  <2>2. \A x : x \notin T => Count(s, x) = 0
    BY <2>1, CountOutside
  <2> QED
    BY <2>2 DEF s, T
<1> QED
  BY <1>1, <1>2, <1>3, <1>4 DEF Twice, Entry

\* A sequence of some names, in another one.
LEMMA InMoreNames ==
    ASSUME NEW S, NEW T, S \subseteq T, NEW s \in Seq(S)
    PROVE  s \in Seq(T)
OBVIOUS

\* What is entered once is entered once under a condition that holds.
LEMMA IfCounts ==
    ASSUME NEW T, NEW condition, NEW names \in Seq(T)
    PROVE  /\ If(condition, names) \in Seq(T)
           /\ \A x : Count(names, x) = 1 => Count(If(condition, names), x) = Entry(condition)
           /\ \A x : x \notin T => Count(If(condition, names), x) = 0
<1>1. If(condition, names) \in Seq(T)
  BY IfNames
<1>2. \A x : Count(If(condition, names), x) = IF condition THEN Count(names, x) ELSE 0
  BY IfNames
<1>3. \A x : x \notin T => Count(If(condition, names), x) = 0
  BY <1>1, CountOutside
<1> QED
  BY <1>1, <1>2, <1>3 DEF Entry

\* Counted enters the total always and what passed if it did.
LEMMA CountedCounts ==
    ASSUME NEW y, NEW z, y # z, NEW matched
    PROVE  Twice(Counted(<<y, z>>, matched), y, z, matched)
<1> DEFINE T == {y, z}
           s == <<y>>
           t == If(matched, <<z>>)
<1>1. Counted(<<y, z>>, matched) = s \o t
  BY DEF Counted
<1>2. s \in Seq(T) /\ Count(s, y) = 1 /\ Count(s, z) = 0
  BY CountOne
<1>3. t \in Seq({z}) /\ Count(t, z) = Entry(matched) /\ Count(t, y) = 0
  <2> DEFINE names == <<z>>
             S == {z}
  <2>1. names \in Seq(S) /\ Count(names, z) = 1 /\ y \notin S
    BY CountOne
  <2> HIDE DEF names, S
  <2>2. /\ If(matched, names) \in Seq(S)
        /\ Count(If(matched, names), z) = Entry(matched) /\ Count(If(matched, names), y) = 0
    BY <2>1, IfCounts
  <2> QED
    BY <2>2 DEF names, S
<1>4. t \in Seq(T)
  BY <1>3, InMoreNames
<1> HIDE DEF s, t, T
<1>5. s \o t \in Seq(T) /\ \A x : Count(s \o t, x) = Count(s, x) + Count(t, x)
  BY <1>2, <1>4, CountConcat
<1>6. Entry(matched) \in Int
  BY DEF Entry
<1>7. \A x : x \notin T => Count(s \o t, x) = 0
  BY <1>5, CountOutside
<1>8. Count(s \o t, y) = 1 /\ Count(s \o t, z) = Entry(matched)
  BY <1>2, <1>3, <1>5, <1>6
<1> QED
  BY <1>1, <1>5, <1>7, <1>8 DEF Twice, T

AcceptedNames ==
    BookedMaps \cup {"matched_tracks", "distanceTrackHit", "eTotalEfficiency", "eTotalEfficiency_passed",
                     "efficiencyColumns", "efficiencyVsTime", "timeDiff_clustersize", "prevTrack_assoc",
                     "prevTrack_noAssoc"}

\* The part of an accepted track in the region of interest.
LEMMA InsideCounts ==
    ASSUME NEW matched, NEW inpixel
    PROVE  LET s == Counted(<<"pixelTrackPos", "pixelTrackPos_passed">>, matched)
                    \o Counted(<<"eTotalEfficiency", "eTotalEfficiency_passed">>, matched)
                    \o <<"efficiencyColumns", "efficiencyVsTime">>
                    \o If(inpixel, Counted(<<"inPixelROI", "inPixelROI_passed">>, matched))
           IN  /\ s \in Seq(AcceptedNames \ {"matched_tracks", "clustPos_passed", "chipTrackPos_passed",
                                             "prevTrack_assoc", "prevTrack_noAssoc"})
               /\ Count(s, "eTotalEfficiency") = 1
               /\ Count(s, "eTotalEfficiency_passed") = Entry(matched)
<1> DEFINE T == AcceptedNames \ {"matched_tracks", "clustPos_passed", "chipTrackPos_passed",
                                 "prevTrack_assoc", "prevTrack_noAssoc"}
           p1 == Counted(<<"pixelTrackPos", "pixelTrackPos_passed">>, matched)
           p2 == Counted(<<"eTotalEfficiency", "eTotalEfficiency_passed">>, matched)
           p3 == <<"efficiencyColumns", "efficiencyVsTime">>
           p4 == If(inpixel, Counted(<<"inPixelROI", "inPixelROI_passed">>, matched))
           e == "eTotalEfficiency"
           f == "eTotalEfficiency_passed"
<1>1. p1 \in Seq(T) /\ Count(p1, e) = 0 /\ Count(p1, f) = 0
  <2>1. Twice(p1, "pixelTrackPos", "pixelTrackPos_passed", matched)
    BY "pixelTrackPos" # "pixelTrackPos_passed", CountedCounts, Zenon
  <2>2. {"pixelTrackPos", "pixelTrackPos_passed"} \subseteq T
    BY DEF AcceptedNames, BookedMaps
  <2> HIDE DEF p1, T
  <2> QED
    BY <2>1, <2>2, InMoreNames DEF Twice
<1>2. p2 \in Seq(T) /\ Count(p2, e) = 1 /\ Count(p2, f) = Entry(matched)
  <2>1. Twice(p2, e, f, matched)
    BY e # f, CountedCounts, Zenon
  <2>2. {e, f} \subseteq T
    BY DEF AcceptedNames
  <2> HIDE DEF p2, T
  <2> QED
    BY <2>1, <2>2, InMoreNames DEF Twice
<1>3. p3 \in Seq(T) /\ Count(p3, e) = 0 /\ Count(p3, f) = 0
  <2>1. Twice(p3, "efficiencyColumns", "efficiencyVsTime", TRUE)
    BY "efficiencyColumns" # "efficiencyVsTime", CountPair, Zenon
  <2>2. {"efficiencyColumns", "efficiencyVsTime"} \subseteq T
    BY DEF AcceptedNames
  <2> HIDE DEF p3, T
  <2> QED
    BY <2>1, <2>2, InMoreNames DEF Twice
<1>4. p4 \in Seq(T) /\ Count(p4, e) = 0 /\ Count(p4, f) = 0
  <2> DEFINE names == Counted(<<"inPixelROI", "inPixelROI_passed">>, matched)
             S == {"inPixelROI", "inPixelROI_passed"}
  <2>1. Twice(names, "inPixelROI", "inPixelROI_passed", matched)
    BY "inPixelROI" # "inPixelROI_passed", CountedCounts, Zenon
  <2>2. S \subseteq T /\ e \notin S /\ f \notin S
    BY DEF AcceptedNames, BookedMaps
  <2>3. names \in Seq(S)
    BY <2>1 DEF Twice
  <2> HIDE DEF names, S, T
  <2>4. p4 \in Seq(S) /\ Count(p4, e) = 0 /\ Count(p4, f) = 0
    BY <2>2, <2>3, IfCounts DEF names
  <2> HIDE DEF p4
  <2> QED
    BY <2>2, <2>4, InMoreNames
<1> HIDE DEF p1, p2, p3, p4, T
<1> DEFINE q2 == p1 \o p2
           q3 == q2 \o p3
           q4 == q3 \o p4
<1>5. q2 \in Seq(T) /\ \A x : Count(q2, x) = Count(p1, x) + Count(p2, x)
  BY <1>1, <1>2, CountConcat
<1> HIDE DEF q2
<1>6. q3 \in Seq(T) /\ \A x : Count(q3, x) = Count(q2, x) + Count(p3, x)
  BY <1>3, <1>5, CountConcat
<1> HIDE DEF q3
<1>7. q4 \in Seq(T) /\ \A x : Count(q4, x) = Count(q3, x) + Count(p4, x)
  BY <1>4, <1>6, CountConcat
<1> HIDE DEF q4
<1>8. Entry(matched) \in Int
  BY DEF Entry
<1>9. Count(q4, e) = 1 /\ Count(q4, f) = Entry(matched)
  BY <1>1, <1>2, <1>3, <1>4, <1>5, <1>6, <1>7, <1>8
<1>10. q4 \in Seq(T) /\ Count(q4, e) = 1 /\ Count(q4, f) = Entry(matched)
  BY <1>7, <1>9
<1> QED
  BY <1>10 DEF q4, q3, q2, p1, p2, p3, p4, T

\* What is filled together is filled at most once.
Once(s, y, condition) ==
    s \in Seq({y}) /\ Count(s, y) = Entry(condition) /\ \A x : x # y => Count(s, x) = 0

\* A single entry under a condition.
LEMMA OnceIf ==
    ASSUME NEW y, NEW condition
    PROVE  Once(If(condition, <<y>>), y, condition)
<1> DEFINE S == {y}
           names == <<y>>
<1>1. names \in Seq(S) /\ Count(names, y) = 1 /\ \A x : x # y => x \notin S
  BY CountOne
<1> HIDE DEF S, names
<1>2. /\ If(condition, names) \in Seq(S) /\ Count(If(condition, names), y) = Entry(condition)
      /\ \A x : x # y => Count(If(condition, names), x) = 0
  BY <1>1, IfCounts
<1> QED
  BY <1>2 DEF Once, S, names

AcceptedCount(s, inside, matched) ==
    /\ s \in Seq(AcceptedNames)
    /\ Count(s, "matched_tracks") = Entry(matched) /\ Count(s, "clustPos_passed") = Entry(matched)
    /\ Count(s, "chipTrackPos_passed") = Entry(matched) /\ Count(s, "eTotalEfficiency") = Entry(inside)
    /\ Count(s, "eTotalEfficiency_passed") = Entry(inside /\ matched)
    /\ Count(s, "prevTrack_assoc") = Entry(matched) /\ Count(s, "prevTrack_noAssoc") = Entry(~matched)

\* What an accepted track enters in AnalysisEfficiency.
LEMMA AcceptedCounts ==
    ASSUME NEW t, NEW a, NEW T, a.associated \in Seq(T)
    PROVE  AcceptedCount(FillAccepted(t, a), TrackWithinROI(chain.det, t.x), a.associated # <<>>)
<1> DEFINE m == a.associated # <<>>
           r == TrackWithinROI(chain.det, t.x)
           inpixel == isWithinInPixelROI(t.x)
           A == AcceptedNames
           p1 == If(m, <<"matched_tracks", "distanceTrackHit">>)
           p2 == If(inpixel /\ (m => TruncatedPixel(t.x) \in dut.clusters[a.closest].pixels), <<"pixelMatrix">>)
           p3 == Counted(<<"clustPos", "clustPos_passed">>, m)
           p4 == Counted(<<"globalTrackPos", "globalTrackPos_passed">>, m)
           p5 == Counted(<<"chipTrackPos", "chipTrackPos_passed">>, m)
           q == Counted(<<"pixelTrackPos", "pixelTrackPos_passed">>, m)
                \o Counted(<<"eTotalEfficiency", "eTotalEfficiency_passed">>, m)
                \o <<"efficiencyColumns", "efficiencyVsTime">>
                \o If(inpixel, Counted(<<"inPixelROI", "inPixelROI_passed">>, m))
           p6 == If(r, q)
           p7 == [k \in DOMAIN a.associated |-> "timeDiff_clustersize"]
           p8 == IF m THEN <<"prevTrack_assoc">> ELSE <<"prevTrack_noAssoc">>
           M == "matched_tracks"
           C == "clustPos_passed"
           H == "chipTrackPos_passed"
           E == "eTotalEfficiency"
           F == "eTotalEfficiency_passed"
           Y == "prevTrack_assoc"
           N == "prevTrack_noAssoc"
<1>1. FillAccepted(t, a) = ((((((p1 \o p2) \o p3) \o p4) \o p5) \o p6) \o p7) \o p8
  BY DEF FillAccepted
<1>2. /\ p1 \in Seq(A) /\ Count(p1, M) = Entry(m)
      /\ \A x \in {C, H, E, F, Y, N} : Count(p1, x) = 0
  <2> DEFINE S == {M, "distanceTrackHit"}
             names == <<M, "distanceTrackHit">>
  <2>1. Twice(names, M, "distanceTrackHit", TRUE)
    BY M # "distanceTrackHit", CountPair, Zenon
  <2>2. S \subseteq A /\ \A x \in {C, H, E, F, Y, N} : x \notin S
    BY DEF AcceptedNames
  <2>3. names \in Seq(S) /\ Count(names, M) = 1
    BY <2>1 DEF Twice
  <2> HIDE DEF names, S, A, m
  <2>4. /\ If(m, names) \in Seq(S) /\ Count(If(m, names), M) = Entry(m)
        /\ \A x \in {C, H, E, F, Y, N} : Count(If(m, names), x) = 0
    BY <2>2, <2>3, IfCounts
  <2>5. p1 = If(m, names)
    BY DEF names
  <2> HIDE DEF p1
  <2> QED
    BY <2>2, <2>4, <2>5, InMoreNames
<1>3. p2 \in Seq(A) /\ \A x \in {M, C, H, E, F, Y, N} : Count(p2, x) = 0
  <2>1. \E condition : p2 = If(condition, <<"pixelMatrix">>)
    OBVIOUS
  <2>2. \E condition : Once(p2, "pixelMatrix", condition)
    BY <2>1, OnceIf
  <2>3. {"pixelMatrix"} \subseteq A
    BY DEF AcceptedNames, BookedMaps
  <2> HIDE DEF p2, A
  <2> QED
    BY <2>2, <2>3, InMoreNames DEF Once
<1>4. /\ p3 \in Seq(A) /\ Count(p3, C) = Entry(m)
      /\ \A x \in {M, H, E, F, Y, N} : Count(p3, x) = 0
  <2>1. Twice(p3, "clustPos", C, m)
    BY "clustPos" # C, CountedCounts, Zenon
  <2>2. {"clustPos", C} \subseteq A
    BY DEF AcceptedNames, BookedMaps
  <2> HIDE DEF p3, A, m
  <2> QED
    BY <2>1, <2>2, InMoreNames DEF Twice
<1>5. p4 \in Seq(A) /\ \A x \in {M, C, H, E, F, Y, N} : Count(p4, x) = 0
  <2>1. Twice(p4, "globalTrackPos", "globalTrackPos_passed", m)
    BY "globalTrackPos" # "globalTrackPos_passed", CountedCounts, Zenon
  <2>2. {"globalTrackPos", "globalTrackPos_passed"} \subseteq A
    BY DEF AcceptedNames, BookedMaps
  <2> HIDE DEF p4, A, m
  <2> QED
    BY <2>1, <2>2, InMoreNames DEF Twice
<1>6. /\ p5 \in Seq(A) /\ Count(p5, H) = Entry(m)
      /\ \A x \in {M, C, E, F, Y, N} : Count(p5, x) = 0
  <2>1. Twice(p5, "chipTrackPos", H, m)
    BY "chipTrackPos" # H, CountedCounts, Zenon
  <2>2. {"chipTrackPos", H} \subseteq A
    BY DEF AcceptedNames, BookedMaps
  <2> HIDE DEF p5, A, m
  <2> QED
    BY <2>1, <2>2, InMoreNames DEF Twice
<1>7. /\ p6 \in Seq(A) /\ Count(p6, E) = Entry(r) /\ Count(p6, F) = Entry(r /\ m)
      /\ \A x \in {M, C, H, Y, N} : Count(p6, x) = 0
  <2> DEFINE S == AcceptedNames \ {M, C, H, Y, N}
  <2>1. q \in Seq(S) /\ Count(q, E) = 1 /\ Count(q, F) = Entry(m)
    BY InsideCounts
  <2>2. S \subseteq A /\ \A x \in {M, C, H, Y, N} : x \notin S
    OBVIOUS
  <2> HIDE DEF q, S, A, m, r
  <2>3. /\ p6 \in Seq(S) /\ Count(p6, E) = Entry(r)
        /\ \A x \in {M, C, H, Y, N} : Count(p6, x) = 0
    BY <2>1, <2>2, IfCounts
  <2>4. Count(p6, F) = Entry(r /\ m)
    <3>1. Count(p6, F) = IF r THEN Count(q, F) ELSE 0
      BY <2>1, IfNames
    <3> QED
      BY <2>1, <3>1 DEF Entry
  <2> HIDE DEF p6
  <2> QED
    BY <2>2, <2>3, <2>4, InMoreNames
<1>8. p7 \in Seq(A) /\ \A x \in {M, C, H, E, F, Y, N} : Count(p7, x) = 0
  <2>1. DOMAIN a.associated = 1..Len(a.associated) /\ Len(a.associated) \in Nat
    BY LenProperties
  <2>2. p7 \in Seq({"timeDiff_clustersize"})
    BY <2>1, IsASeq
  <2>3. {"timeDiff_clustersize"} \subseteq A /\ \A x \in {M, C, H, E, F, Y, N} : x \notin {"timeDiff_clustersize"}
    BY DEF AcceptedNames
  <2> HIDE DEF p7, A
  <2> QED
    BY <2>2, <2>3, InMoreNames, CountOutside
<1>9. /\ p8 \in Seq(A) /\ Count(p8, Y) = Entry(m) /\ Count(p8, N) = Entry(~m)
      /\ \A x \in {M, C, H, E, F} : Count(p8, x) = 0
  <2>1. Y \in A /\ N \in A
    BY DEF AcceptedNames
  <2> HIDE DEF A, m
  <2>2. /\ \A x : Count(<<Y>>, x) = IF Y = x THEN 1 ELSE 0
        /\ \A x : Count(<<N>>, x) = IF N = x THEN 1 ELSE 0
    BY CountOne
  <2>3. CASE m
    BY <2>1, <2>2, <2>3 DEF Entry
  <2>4. CASE ~m
    BY <2>1, <2>2, <2>4 DEF Entry
  <2> QED
    BY <2>3, <2>4
<1> HIDE DEF p1, p2, p3, p4, p5, p6, p7, p8, A, m, r
<1> DEFINE s2 == p1 \o p2
           s3 == s2 \o p3
           s4 == s3 \o p4
           s5 == s4 \o p5
           s6 == s5 \o p6
           s7 == s6 \o p7
           s8 == s7 \o p8
<1>10. s2 \in Seq(A) /\ \A x : Count(s2, x) = Count(p1, x) + Count(p2, x)
  BY <1>2, <1>3, CountConcat
<1>11. s3 \in Seq(A) /\ \A x : Count(s3, x) = Count(s2, x) + Count(p3, x)
  <2> HIDE DEF s2
  <2> QED BY <1>4, <1>10, CountConcat
<1>12. s4 \in Seq(A) /\ \A x : Count(s4, x) = Count(s3, x) + Count(p4, x)
  <2> HIDE DEF s3
  <2> QED BY <1>5, <1>11, CountConcat
<1>13. s5 \in Seq(A) /\ \A x : Count(s5, x) = Count(s4, x) + Count(p5, x)
  <2> HIDE DEF s4
  <2> QED BY <1>6, <1>12, CountConcat
<1>14. s6 \in Seq(A) /\ \A x : Count(s6, x) = Count(s5, x) + Count(p6, x)
  <2> HIDE DEF s5
  <2> QED BY <1>7, <1>13, CountConcat
<1>15. s7 \in Seq(A) /\ \A x : Count(s7, x) = Count(s6, x) + Count(p7, x)
  <2> HIDE DEF s6
  <2> QED BY <1>8, <1>14, CountConcat
<1>16. s8 \in Seq(A) /\ \A x : Count(s8, x) = Count(s7, x) + Count(p8, x)
  <2> HIDE DEF s7
  <2> QED BY <1>9, <1>15, CountConcat
<1>17. FillAccepted(t, a) = s8
  BY <1>1
<1> HIDE DEF s2, s3, s4, s5, s6, s7, s8
<1>18. /\ Entry(m) \in Int /\ Entry(r) \in Int /\ Entry(r /\ m) \in Int /\ Entry(~m) \in Int
  BY DEF Entry
<1>19. \A x : Count(s8, x) = Count(p1, x) + Count(p2, x) + Count(p3, x) + Count(p4, x) + Count(p5, x)
                            + Count(p6, x) + Count(p7, x) + Count(p8, x)
  BY <1>10, <1>11, <1>12, <1>13, <1>14, <1>15, <1>16
<1>20. /\ Count(s8, M) = Entry(m) /\ Count(s8, C) = Entry(m) /\ Count(s8, H) = Entry(m)
       /\ Count(s8, E) = Entry(r) /\ Count(s8, F) = Entry(r /\ m)
       /\ Count(s8, Y) = Entry(m) /\ Count(s8, N) = Entry(~m)
  BY <1>2, <1>3, <1>4, <1>5, <1>6, <1>7, <1>8, <1>9, <1>18, <1>19
<1> QED
  BY <1>16, <1>17, <1>20 DEF AcceptedCount, A, m, r

\* Entries of the same name.
LEMMA RepeatNames ==
    ASSUME NEW y, NEW n \in Nat
    PROVE  Repeat(y, n) \in Seq({y})
BY DEF Repeat

\* Entries of histograms that are booked for each size of a cluster.
LEMMA BySizeNames ==
    ASSUME NEW T, NEW names \in Seq(T), NEW n \in Nat
    PROVE  BySize(names, n) \in Seq(T)
<1>1. CASE n \in DOMAIN names
  <2>1. names[n] \in T
    BY <1>1, LenProperties, ElementOfSeq
  <2> QED
    BY <1>1, <2>1 DEF BySize, If
<1>2. CASE n \notin DOMAIN names
  BY <1>2, EmptySeq DEF BySize, If
<1> QED
  BY <1>1, <1>2

\* The histograms of AnalysisDUT, but for two of them.
DUTBins == {"kHighChi2Ndf", "kOutsideDUT", "kOutsideROI", "kCloseToMask", "kTimeLimit", "kPass"}

\* The names of AnalysisDUT that its cut flow is not made of.
ClusterNames == BookedDUT \ (DUTBins \cup {"kAllTrack", "hUnassociatedTracks"})

\* Entries that AnalysisDUT makes for an associated cluster.
LEMMA AssociatedNames ==
    ASSUME NEW c \in DUTClusters
    PROVE  FillAssociated(c) \in Seq(ClusterNames)
<1> DEFINE size == Cardinality(c.pixels)
           T == ClusterNames
           bySize == BySize(<<"pxTimeMinusSeedTime_2px", "pxTimeMinusSeedTime_3px", "pxTimeMinusSeedTime_4px">>,
                            size - 1)
           p1 == <<"kAssociated", "trackPos_TProfile", "globalTrackZPosOnDUT">>
           q1 == <<"clusterCharge", "seedCharge">>
           q2 == Repeat("hitMapAssoc", size)
           q3 == Repeat("pixelRawValue", size)
           p3 == <<"clusterSizeAssoc", "clusterMapAssoc", "associatedTracksVersusTime",
                   "residual_vs_col_row", "residuals_local", "residualsColLocal", "residualsRowLocal",
                   "residuals_global", "residualsColGlobal", "residualsRowGlobal",
                   "rmsvsxmym", "residualsTime", "qvsxmym">>
           p4 == Repeat("pxTimeMinusSeedTime", size - 1)
           p5 == FlattenSeq(Repeat(bySize, size - 1))
           p6 == <<"npxvsxmym">>
           p7 == BySize(<<"npxvsxmym_1px", "npxvsxmym_2px", "npxvsxmym_3px", "npxvsxmym_4px">>, size)
           p8 == <<"hAssociatedTracks">>
<1>1. size \in Nat /\ size - 1 \in Nat
  <2>1. c.pixels # {} /\ IsFiniteSet(c.pixels)
    BY DEF DUTClusters
  <2> QED
    BY <2>1, FS_CardinalityType, FS_EmptySet
<1>2. FillAssociated(c) = ((((((p1 \o ((q1 \o q2) \o q3)) \o p3) \o p4) \o p5) \o p6) \o p7) \o p8
  BY DEF FillAssociated, fillClusterHistograms
<1>3. p1 \in Seq(T) /\ q1 \in Seq(T) /\ p3 \in Seq(T) /\ p6 \in Seq(T) /\ p8 \in Seq(T)
  <2>1. {"kAssociated", "trackPos_TProfile", "globalTrackZPosOnDUT"} \subseteq T
    BY DEF ClusterNames, DUTBins, BookedDUT, BookedClusters, BookedInPixel, BookedTimes
  <2>2. {"clusterCharge", "seedCharge"} \subseteq T
    BY DEF ClusterNames, DUTBins, BookedDUT, BookedClusters
  <2>3. {"clusterSizeAssoc", "clusterMapAssoc", "associatedTracksVersusTime", "residual_vs_col_row"} \subseteq T
    BY DEF ClusterNames, DUTBins, BookedDUT, BookedClusters, BookedInPixel
  <2>4. {"residuals_local", "residualsColLocal", "residualsRowLocal", "residuals_global",
         "residualsColGlobal", "residualsRowGlobal"} \subseteq T
    BY DEF ClusterNames, DUTBins, BookedDUT, BookedLocalResiduals, BookedGlobalResiduals
  <2>5. {"rmsvsxmym", "residualsTime", "qvsxmym", "npxvsxmym", "hAssociatedTracks"} \subseteq T
    BY DEF ClusterNames, DUTBins, BookedDUT, BookedInPixel, BookedPositions
  <2> HIDE DEF T
  <2> QED
    BY <2>1, <2>2, <2>3, <2>4, <2>5
<1>4. q2 \in Seq(T) /\ q3 \in Seq(T) /\ p4 \in Seq(T)
  <2>1. {"hitMapAssoc"} \subseteq T /\ {"pixelRawValue"} \subseteq T /\ {"pxTimeMinusSeedTime"} \subseteq T
    BY DEF ClusterNames, DUTBins, BookedDUT, BookedClusters, BookedTimes
  <2> HIDE DEF T, size
  <2>2. q2 \in Seq({"hitMapAssoc"}) /\ q3 \in Seq({"pixelRawValue"}) /\ p4 \in Seq({"pxTimeMinusSeedTime"})
    BY <1>1, RepeatNames
  <2> QED
    BY <2>1, <2>2, InMoreNames
<1>5. p7 \in Seq(T) /\ bySize \in Seq(T)
  <2> DEFINE n1 == <<"npxvsxmym_1px", "npxvsxmym_2px", "npxvsxmym_3px", "npxvsxmym_4px">>
             n2 == <<"pxTimeMinusSeedTime_2px", "pxTimeMinusSeedTime_3px", "pxTimeMinusSeedTime_4px">>
  <2>1. {"npxvsxmym_1px", "npxvsxmym_2px", "npxvsxmym_3px", "npxvsxmym_4px"} \subseteq T
    BY DEF ClusterNames, DUTBins, BookedDUT, BookedPositions
  <2>2. {"pxTimeMinusSeedTime_2px", "pxTimeMinusSeedTime_3px", "pxTimeMinusSeedTime_4px"} \subseteq T
    BY DEF ClusterNames, DUTBins, BookedDUT, BookedTimes
  <2> HIDE DEF T, size
  <2>3. n1 \in Seq(T) /\ n2 \in Seq(T)
    BY <2>1, <2>2
  <2> HIDE DEF n1, n2
  <2>4. BySize(n1, size) \in Seq(T) /\ BySize(n2, size - 1) \in Seq(T)
    BY <1>1, <2>3, BySizeNames
  <2>5. p7 = BySize(n1, size) /\ bySize = BySize(n2, size - 1)
    BY DEF n1, n2
  <2> HIDE DEF p7, bySize
  <2> QED
    BY <2>4, <2>5
<1> HIDE DEF bySize, T, size
<1>6. p5 \in Seq(T)
  <2>1. Repeat(bySize, size - 1) \in Seq(Seq(T))
    BY <1>1, <1>5 DEF Repeat
  <2> QED
    BY <2>1, FlattenProperties
<1> HIDE DEF p1, p3, p4, p5, p6, p7, p8, q1, q2, q3
<1>7. ((((((p1 \o ((q1 \o q2) \o q3)) \o p3) \o p4) \o p5) \o p6) \o p7) \o p8 \in Seq(T)
  BY <1>3, <1>4, <1>5, <1>6, ConcatProperties
<1> QED
  BY <1>2, <1>7 DEF T

\* Every track falls into a bin of the cut flow of AnalysisDUT.
LEMMA BinTypes ==
    ASSUME NEW t
    PROVE  /\ Bin(t) \in BookedInPixel \ {"kAllTrack"}
           /\ Bin(t) # "hUnassociatedTracks" /\ Bin(t) \in DUTBins
BY DEF Bin, acceptTrackDUT, BookedInPixel, DUTBins

\* The clusters that are looked at: none if no cluster is associated.
LEMMA SelectedNone ==
    ASSUME NEW t, NEW a \in Associations, ClosestOf(t, a)
    PROVE  /\ Selected(a) \in Seq(DOMAIN dut.clusters)
           /\ Selected(a) = <<>> <=> a.associated = <<>>
<1> DEFINE s == a.associated
           T == DOMAIN dut.clusters
<1>1. s \in Seq(T) /\ (s # <<>> => a.closest \in ToSet(s))
  BY DEF Associations, ClosestOf
<1> HIDE DEF s, T
<1>2. CASE chain.use_closest_cluster
  <2>1. Selected(a) = Kept(s, {a.closest})
    BY <1>2 DEF Selected, s
  <2> DEFINE k == Kept(s, {a.closest})
  <2>2. k \in Seq(T) /\ \A x : Has(k, x) <=> Has(s, x) /\ x = a.closest
    BY <1>1, KeptHas
  <2> HIDE DEF k
  <2>3. s # <<>> => k # <<>>
    <3>1. SUFFICES ASSUME s # <<>> PROVE k # <<>>
      OBVIOUS
    <3>2. Has(s, a.closest)
      BY <1>1, <3>1, LenProperties DEF ToSet, Has
    <3>3. Has(k, a.closest)
      BY <2>2, <3>2
    <3> QED
      BY <3>3 DEF Has
  <2>4. k # <<>> => s # <<>>
    <3>1. SUFFICES ASSUME k # <<>> PROVE s # <<>>
      OBVIOUS
    <3>2. Len(k) # 0 /\ Len(k) \in Nat
      BY <2>2, <3>1, EmptySeq, LenProperties
    <3>3. Has(k, k[1])
      BY <3>2 DEF Has
    <3>4. Has(s, k[1])
      BY <2>2, <3>3
    <3> QED
      BY <3>4 DEF Has
  <2> QED
    BY <2>1, <2>2, <2>3, <2>4 DEF k, s, T
<1>3. CASE ~chain.use_closest_cluster
  BY <1>1, <1>3 DEF Selected, s, T
<1> QED
  BY <1>2, <1>3

-----------------------------------------------------------------------------

DUTBooks == BookedAssociation \cup BookedEfficiency \cup BookedMaps \cup BookedDUT

\* The counters of the cut flow that a track ends in.
FlowCounters == {"n_chi2", "n_dut", "n_masked", "n_frameedge", "n_requirecluster", "total_tracks"}

\* What one track adds to the histograms of AnalysisEfficiency.
TrackCount(s, selection, inside, matched) ==
    /\ s \in Seq(BookedEfficiency \cup BookedMaps)
    /\ Count(s, "n_track") = 1
    /\ \A x \in FlowCounters : Count(s, x) = IF selection = x THEN 1 ELSE 0
    /\ Count(s, "matched_tracks") = IF selection = "total_tracks" /\ matched THEN 1 ELSE 0
    /\ Count(s, "clustPos_passed") = IF selection = "total_tracks" /\ matched THEN 1 ELSE 0
    /\ Count(s, "chipTrackPos_passed") = IF selection = "total_tracks" /\ matched THEN 1 ELSE 0
    /\ Count(s, "prevTrack_assoc") = IF selection = "total_tracks" /\ matched THEN 1 ELSE 0
    /\ Count(s, "prevTrack_noAssoc") = IF selection = "total_tracks" /\ ~matched THEN 1 ELSE 0
    /\ Count(s, "eTotalEfficiency") = IF selection = "total_tracks" /\ inside THEN 1 ELSE 0
    /\ Count(s, "eTotalEfficiency_passed") = IF selection = "total_tracks" /\ inside /\ matched THEN 1 ELSE 0

\* Every track falls into a counter of AnalysisEfficiency.
LEMMA SelectionTypes ==
    ASSUME NEW t
    PROVE  Selection(t) \in FlowCounters
BY DEF Selection, FlowCounters

\* The counters, of an accepted or a rejected track.
LEMMA CounterCounts ==
    ASSUME NEW selection \in FlowCounters, NEW condition
    PROVE  LET s == <<"n_track", selection>> \o If(condition, <<"n_roi">>)
           IN  /\ s \in Seq(FlowCounters \cup {"n_track", "n_roi"})
               /\ Count(s, "n_track") = 1
               /\ \A x \in FlowCounters : Count(s, x) = IF selection = x THEN 1 ELSE 0
<1> DEFINE T == FlowCounters \cup {"n_track", "n_roi"}
           p == <<"n_track", selection>>
           q == If(condition, <<"n_roi">>)
<1>1. "n_track" # selection
  BY DEF FlowCounters
<1>2. Twice(p, "n_track", selection, TRUE)
  BY <1>1, CountPair
<1>3. Once(q, "n_roi", condition)
  BY OnceIf
<1> HIDE DEF p, q
<1>4. /\ p \in Seq(T) /\ Count(p, "n_track") = 1
      /\ \A x \in FlowCounters : Count(p, x) = IF selection = x THEN 1 ELSE 0
  <2>1. Entry(TRUE) = 1 /\ Entry(FALSE) = 0
    BY DEF Entry
  <2>2. {"n_track", selection} \subseteq T
    OBVIOUS
  <2> HIDE DEF T
  <2>3. p \in Seq(T)
    BY <1>2, <2>2, InMoreNames DEF Twice
  <2>4. ASSUME NEW x \in FlowCounters PROVE Count(p, x) = IF selection = x THEN 1 ELSE 0
    <3>1. x # "n_track"
      BY DEF FlowCounters
    <3>2. CASE selection = x
      BY <1>2, <3>2 DEF Twice, Entry
    <3>3. CASE selection # x
      BY <1>2, <3>1, <3>3 DEF Twice, Entry
    <3> QED
      BY <3>2, <3>3
  <2> QED
    BY <1>2, <2>3, <2>4 DEF Twice
<1>5. /\ q \in Seq(T) /\ Count(q, "n_track") = 0
      /\ \A x \in FlowCounters : Count(q, x) = 0
  <2>1. {"n_roi"} \subseteq T
    OBVIOUS
  <2> HIDE DEF T
  <2>2. q \in Seq(T)
    BY <1>3, <2>1, InMoreNames DEF Once
  <2> QED
    BY <1>3, <2>2 DEF Once, FlowCounters
<1> HIDE DEF T
<1>6. p \o q \in Seq(T) /\ \A x : Count(p \o q, x) = Count(p, x) + Count(q, x)
  BY <1>4, <1>5, CountConcat
<1>8. Count(p \o q, "n_track") = 1
  BY <1>4, <1>5, <1>6
<1>9. \A x \in FlowCounters : Count(p \o q, x) = IF selection = x THEN 1 ELSE 0
  BY <1>4, <1>5, <1>6
<1> QED
  BY <1>6, <1>8, <1>9 DEF p, q, T

\* What a track adds, and whether it is compared with an earlier hit.
TrackFill(s, t, a) ==
    /\ TrackCount(s, Selection(t), TrackWithinROI(chain.det, t.x), a.associated # <<>>)
    /\ Count(s, "prevHit_matched") + Count(s, "prevHit_notmatched") > 0 =>
          TruncatedPixel(t.x) \in Matrix /\ prev_hit_ts[TruncatedPixel(t.x)] # 0

\* What a step of AnalysisEfficiency enters for a track.
LEMMA EfficiencyFills ==
    ASSUME EfficiencyTrack, NEW T, assoc[todo].associated \in Seq(T)
    PROVE  \E s : Fill(s) /\ TrackFill(s, dut.tracks[todo], assoc[todo])
<1> DEFINE t == dut.tracks[todo]
           a == assoc[todo]
           selection == Selection(t)
           inside == TrackWithinROI(chain.det, t.x)
           matched == a.associated # <<>>
           pixel == TruncatedPixel(t.x)
           condition == selection \notin {"n_chi2", "n_dut"} /\ ~inside
           counters == <<"n_track", selection>> \o If(condition, <<"n_roi">>)
           entered == FillAccepted(t, a)
           previous == FillPreviousHit(t, a)
           B == BookedEfficiency \cup BookedMaps
           H == "prevHit_matched"
           J == "prevHit_notmatched"
           Maps == {"matched_tracks", "clustPos_passed", "chipTrackPos_passed", "eTotalEfficiency",
                    "eTotalEfficiency_passed", "prevTrack_assoc", "prevTrack_noAssoc"}
<1>1. selection \in FlowCounters
  BY SelectionTypes
<1>2. /\ counters \in Seq(FlowCounters \cup {"n_track", "n_roi"})
      /\ Count(counters, "n_track") = 1
      /\ \A x \in FlowCounters : Count(counters, x) = IF selection = x THEN 1 ELSE 0
  <2> HIDE DEF condition, selection
  <2> QED
    BY <1>1, CounterCounts
<1>3. AcceptedCount(entered, inside, matched)
  BY AcceptedCounts
<1>4. \/ /\ selection # "total_tracks"
         /\ Fill(counters)
      \/ /\ selection = "total_tracks"
         /\ pixel \in Matrix
         /\ Fill((counters \o entered) \o previous)
      \/ /\ selection = "total_tracks"
         /\ Fill(counters \o entered)
  BY DEF EfficiencyTrack
<1>5. /\ previous \in Seq({H, J})
      /\ Count(previous, H) + Count(previous, J) > 0 => prev_hit_ts[pixel] # 0
  <2>1. CASE prev_hit_ts[pixel] # 0
    <3>1. previous = <<H>> \/ previous = <<J>>
      BY <2>1 DEF FillPreviousHit, If
    <3> HIDE DEF previous, pixel
    <3>2. \A S : \A x \in S : <<x>> \in Seq(S)
      OBVIOUS
    <3>3. previous \in Seq({H, J})
      <4> DEFINE S == {H, J}
      <4>1. H \in S /\ J \in S
        OBVIOUS
      <4> HIDE DEF S
      <4> QED
        BY <3>1, <3>2, <4>1
    <3> QED
      BY <2>1, <3>3
  <2>2. CASE prev_hit_ts[pixel] = 0
    <3>1. previous = <<>>
      BY <2>2 DEF FillPreviousHit, If
    <3>2. Count(previous, H) = 0 /\ Count(previous, J) = 0
      BY <3>1, CountEmpty
    <3> QED
      BY <3>1, <3>2, EmptySeq
  <2> QED
    BY <2>1, <2>2
<1> HIDE DEF counters, entered, previous, matched, inside, selection, pixel
<1>6. /\ counters \in Seq(B) /\ \A x \in Maps : Count(counters, x) = 0
      /\ Count(counters, H) = 0 /\ Count(counters, J) = 0
  <2> DEFINE S == FlowCounters \cup {"n_track", "n_roi"}
  <2>1. S \subseteq B
    BY DEF FlowCounters, BookedEfficiency
  <2>2. H \notin S /\ J \notin S /\ \A x \in Maps : x \notin S
    BY DEF FlowCounters
  <2> HIDE DEF S, B, Maps
  <2>3. counters \in Seq(S)
    BY <1>2 DEF S
  <2>4. \A x : x \notin S => Count(counters, x) = 0
    BY <2>3, CountOutside
  <2> QED
    BY <2>1, <2>2, <2>3, <2>4, InMoreNames
<1>7. /\ entered \in Seq(B) /\ Count(entered, "n_track") = 0
      /\ \A x \in FlowCounters : Count(entered, x) = 0
      /\ Count(entered, H) = 0 /\ Count(entered, J) = 0
  <2>1. AcceptedNames \subseteq B
    BY DEF AcceptedNames, BookedEfficiency
  <2>2. H \notin AcceptedNames /\ J \notin AcceptedNames /\ "n_track" \notin AcceptedNames
        /\ \A x \in FlowCounters : x \notin AcceptedNames
    BY DEF AcceptedNames, BookedMaps, FlowCounters
  <2> HIDE DEF B
  <2>3. entered \in Seq(AcceptedNames)
    BY <1>3 DEF AcceptedCount
  <2>4. \A x : x \notin AcceptedNames => Count(entered, x) = 0
    BY <2>3, CountOutside
  <2> QED
    BY <2>1, <2>2, <2>3, <2>4, InMoreNames
<1>8. /\ previous \in Seq(B) /\ Count(previous, "n_track") = 0
      /\ \A x \in FlowCounters \cup Maps : Count(previous, x) = 0
  <2> DEFINE S == {H, J}
  <2>1. S \subseteq B
    BY DEF BookedEfficiency
  <2>2. "n_track" \notin S /\ \A x \in FlowCounters \cup Maps : x \notin S
    BY DEF FlowCounters
  <2> HIDE DEF S, B, Maps
  <2>3. previous \in Seq(S)
    BY <1>5 DEF S
  <2>4. \A x : x \notin S => Count(previous, x) = 0
    BY <2>3, CountOutside
  <2> QED
    BY <2>1, <2>2, <2>3, <2>4, InMoreNames
<1>9. /\ Count(entered, "matched_tracks") = IF matched THEN 1 ELSE 0
      /\ Count(entered, "clustPos_passed") = IF matched THEN 1 ELSE 0
      /\ Count(entered, "chipTrackPos_passed") = IF matched THEN 1 ELSE 0
      /\ Count(entered, "eTotalEfficiency") = IF inside THEN 1 ELSE 0
      /\ Count(entered, "eTotalEfficiency_passed") = IF inside /\ matched THEN 1 ELSE 0
      /\ Count(entered, "prevTrack_assoc") = IF matched THEN 1 ELSE 0
      /\ Count(entered, "prevTrack_noAssoc") = IF ~matched THEN 1 ELSE 0
  BY <1>3 DEF AcceptedCount, Entry
<1> DEFINE s2 == counters \o entered
           s3 == s2 \o previous
<1>10. s2 \in Seq(B) /\ \A x : Count(s2, x) = Count(counters, x) + Count(entered, x)
  <2> HIDE DEF B
  <2> QED BY <1>6, <1>7, CountConcat
<1>11. s3 \in Seq(B) /\ \A x : Count(s3, x) = Count(s2, x) + Count(previous, x)
  <2> HIDE DEF B, s2
  <2> QED BY <1>8, <1>10, CountConcat
<1> HIDE DEF s2, s3, B
<1>12. ASSUME selection # "total_tracks", Fill(counters)
       PROVE  \E s : Fill(s) /\ TrackFill(s, t, a)
  <2>1. TrackCount(counters, selection, inside, matched)
    BY <1>2, <1>6, <1>12 DEF TrackCount, B
  <2>2. TrackFill(counters, t, a)
    BY <1>6, <2>1 DEF TrackFill, selection, inside, matched
  <2> QED
    BY <1>12, <2>2
<1>13. selection = "total_tracks" => TrackCount(s2, selection, inside, matched)
  <2> SUFFICES ASSUME selection = "total_tracks" PROVE TrackCount(s2, selection, inside, matched)
    OBVIOUS
  <2>1. Count(s2, "n_track") = 1 /\ \A x \in FlowCounters : Count(s2, x) = IF selection = x THEN 1 ELSE 0
    BY <1>2, <1>7, <1>10
  <2> QED
    BY <1>6, <1>9, <1>10, <2>1 DEF TrackCount, B
<1>14. ASSUME selection = "total_tracks", Fill(s2)
       PROVE  \E s : Fill(s) /\ TrackFill(s, t, a)
  <2>1. Count(s2, H) = 0 /\ Count(s2, J) = 0
    BY <1>6, <1>7, <1>10
  <2>2. TrackFill(s2, t, a)
    BY <1>13, <1>14, <2>1 DEF TrackFill, selection, inside, matched
  <2> QED
    BY <1>14, <2>2
<1>15. ASSUME selection = "total_tracks", pixel \in Matrix, Fill(s3)
       PROVE  \E s : Fill(s) /\ TrackFill(s, t, a)
  <2>1. /\ Count(s3, H) = Count(previous, H)
        /\ Count(s3, J) = Count(previous, J)
    <3>1. Count(previous, H) \in Nat /\ Count(previous, J) \in Nat
      BY <1>8, CountNat
    <3> QED
      BY <1>6, <1>7, <1>10, <1>11, <3>1
  <2>2. TrackCount(s3, selection, inside, matched)
    <3>1. Count(s3, "n_track") = 1 /\ \A x \in FlowCounters : Count(s3, x) = IF selection = x THEN 1 ELSE 0
      BY <1>8, <1>11, <1>13, <1>15 DEF TrackCount
    <3> QED
      BY <1>8, <1>11, <1>13, <1>15, <3>1 DEF TrackCount, B
  <2>3. TrackFill(s3, t, a)
    BY <1>5, <1>15, <2>1, <2>2 DEF TrackFill, selection, inside, matched, pixel
  <2> QED
    BY <1>15, <2>3
<1> QED
  BY <1>4, <1>12, <1>14, <1>15 DEF s2, s3

\* What a track adds to the histograms of AnalysisDUT.
ResidualFill(s, t, a) ==
    /\ s \in Seq(BookedDUT)
    /\ Count(s, "kAllTrack") = 1
    /\ \A x \in DUTBins : Count(s, x) = IF Bin(t) = x THEN 1 ELSE 0
    /\ Count(s, "hUnassociatedTracks") = IF Bin(t) = "kPass" /\ a.associated = <<>> THEN 1 ELSE 0

\* What a step of AnalysisDUT enters for a track.
LEMMA DUTTrackFills ==
    ASSUME DUTTrack, NEW t, t = dut.tracks[todo], dut.tracks \in Seq(DUTTracks), dut.clusters \in Seq(DUTClusters),
           assoc[todo] \in Associable(t)
    PROVE  \E s : Fill(s) /\ ResidualFill(s, t, assoc[todo])
<1> DEFINE a == assoc[todo]
           chosen == Selected(a)
           n == Len(dut.clusters)
           bin == Bin(t)
           good == t.chi2 <= chain.chi2ndof_cut
           others == Cardinality(GoodTracks(todo))
           timely == bin \in {"kTimeLimit", "kPass"}
           each == [k \in DOMAIN chosen |-> FillAssociated(dut.clusters[chosen[k]])]
           p1 == <<"kAllTrack", bin>>
           p2 == If(chain.correlations, Repeat("trackCorrelation_beforeCuts", n))
           p3 == If(good, Repeat("track_to_track_distance", others))
           p4 == If(chain.correlations /\ timely, Repeat("trackCorrelation_afterCuts", n))
           q1 == FlattenSeq(each)
           q2 == If(chosen = <<>>, <<"hUnassociatedTracks">>)
           p5 == If(bin = "kPass", q1 \o q2)
           B == BookedDUT
           U == "hUnassociatedTracks"
           A == "kAllTrack"
           K == "kPass"
<1>1. Fill((((p1 \o p2) \o p3) \o p4) \o p5)
  BY DEF DUTTrack
<1>2. n \in Nat /\ todo \in DOMAIN dut.tracks /\ DOMAIN dut.clusters = 1..n
  BY LenProperties DEF DUTTrack
<1>3. /\ chosen \in Seq(DOMAIN dut.clusters) /\ (chosen = <<>> <=> a.associated = <<>>)
  BY SelectedNone DEF Associable
<1>4. /\ p1 \in Seq(B) /\ Count(p1, A) = 1 /\ Count(p1, U) = 0
      /\ \A x \in DUTBins : Count(p1, x) = IF bin = x THEN 1 ELSE 0
  <2>1. bin \in BookedInPixel \ {"kAllTrack"} /\ bin # U
    BY BinTypes
  <2>2. "kAllTrack" \in B /\ BookedInPixel \subseteq B /\ "kAllTrack" \notin DUTBins
    BY DEF BookedDUT, BookedInPixel, DUTBins
  <2> HIDE DEF bin, B
  <2>3. Twice(p1, "kAllTrack", bin, TRUE)
    BY <2>1, CountPair
  <2>4. p1 \in Seq(B)
    BY <2>1, <2>2
  <2> HIDE DEF p1
  <2>5. Count(p1, A) = 1 /\ Count(p1, bin) = 1 /\ Count(p1, U) = 0
    BY <2>1, <2>3 DEF Twice, Entry
  <2>6. \A x \in DUTBins : x # bin => Count(p1, x) = 0
    BY <2>2, <2>3 DEF Twice
  <2> QED
    BY <2>4, <2>5, <2>6
<1>5. p2 \in Seq(ClusterNames) /\ p4 \in Seq(ClusterNames)
  <2>1. CASE chain.correlations
    <3>1. /\ {"trackCorrelation_beforeCuts"} \subseteq ClusterNames
          /\ {"trackCorrelation_afterCuts"} \subseteq ClusterNames
      BY <2>1 DEF ClusterNames, DUTBins, BookedDUT, BookedCorrelations
    <3>2. /\ Repeat("trackCorrelation_beforeCuts", n) \in Seq({"trackCorrelation_beforeCuts"})
          /\ Repeat("trackCorrelation_afterCuts", n) \in Seq({"trackCorrelation_afterCuts"})
      BY <1>2, RepeatNames
    <3> HIDE DEF n, timely
    <3>3. /\ Repeat("trackCorrelation_beforeCuts", n) \in Seq(ClusterNames)
          /\ Repeat("trackCorrelation_afterCuts", n) \in Seq(ClusterNames)
      BY <3>1, <3>2, InMoreNames
    <3> QED
      BY <3>3, IfNames
  <2>2. CASE ~chain.correlations
    BY <2>2, EmptySeq DEF If
  <2> QED
    BY <2>1, <2>2
<1>6. p3 \in Seq(ClusterNames)
  <2>1. others \in Nat \/ p3 = <<>>
    <3>1. IsFiniteSet(GoodTracks(todo))
      <4>1. IsFiniteSet(DOMAIN dut.tracks)
        BY LenProperties, FS_Interval
      <4>2. GoodTracks(todo) \subseteq DOMAIN dut.tracks
        BY DEF GoodTracks
      <4> QED
        BY <4>1, <4>2, FS_Subset
    <3> QED
      BY <3>1, FS_CardinalityType
  <2>2. {"track_to_track_distance"} \subseteq ClusterNames
    BY DEF ClusterNames, DUTBins, BookedDUT, BookedTimes
  <2> HIDE DEF others, good
  <2>3. CASE others \in Nat
    <3>1. Repeat("track_to_track_distance", others) \in Seq(ClusterNames)
      BY <2>2, <2>3, RepeatNames, InMoreNames
    <3> QED
      BY <3>1, IfNames
  <2>4. CASE p3 = <<>>
    BY <2>4, EmptySeq
  <2> QED
    BY <2>1, <2>3, <2>4
<1>7. q1 \in Seq(ClusterNames)
  <2>1. \A k \in DOMAIN chosen : chosen[k] \in DOMAIN dut.clusters
    <3> HIDE DEF chosen
    <3> QED
      BY <1>3, LenProperties, ElementOfSeq
  <2>2. \A m \in DOMAIN dut.clusters : dut.clusters[m] \in DUTClusters
    BY LenProperties, ElementOfSeq
  <2>3. \A k \in DOMAIN chosen : FillAssociated(dut.clusters[chosen[k]]) \in Seq(ClusterNames)
    BY <2>1, <2>2, AssociatedNames
  <2>4. DOMAIN chosen = 1..Len(chosen) /\ Len(chosen) \in Nat
    BY <1>3, LenProperties
  <2> HIDE DEF chosen
  <2>5. each \in Seq(Seq(ClusterNames))
    BY <2>3, <2>4, IsASeq
  <2> QED
    BY <2>5, FlattenProperties
<1>8. /\ p5 \in Seq(B) /\ Count(p5, A) = 0 /\ \A x \in DUTBins : Count(p5, x) = 0
      /\ Count(p5, U) = IF bin = K /\ chosen = <<>> THEN 1 ELSE 0
  <2>1. Once(q2, U, chosen = <<>>)
    BY OnceIf
  <2>2. /\ ClusterNames \subseteq B /\ U \in B /\ A \notin ClusterNames /\ U \notin ClusterNames
        /\ \A x \in DUTBins : x \notin ClusterNames /\ x # U
    BY DEF ClusterNames, BookedDUT, BookedPositions, DUTBins
  <2> HIDE DEF q1, q2, B, bin, chosen
  <2>3. q1 \in Seq(B) /\ Count(q1, A) = 0 /\ Count(q1, U) = 0 /\ \A x \in DUTBins : Count(q1, x) = 0
    BY <1>7, <2>2, InMoreNames, CountOutside
  <2>4. /\ q2 \in Seq(B) /\ Count(q2, A) = 0 /\ Count(q2, U) = IF chosen = <<>> THEN 1 ELSE 0
        /\ \A x \in DUTBins : Count(q2, x) = 0
    <3>1. {U} \subseteq B
      BY <2>2
    <3>2. q2 \in Seq(B)
      BY <2>1, <3>1, InMoreNames DEF Once
    <3> QED
      BY <2>1, <2>2, <3>2 DEF Once, Entry
  <2>5. q1 \o q2 \in Seq(B) /\ \A x : Count(q1 \o q2, x) = Count(q1, x) + Count(q2, x)
    BY <2>3, <2>4, CountConcat
  <2> DEFINE q == q1 \o q2
             passed == bin = K
  <2>6. /\ q \in Seq(B) /\ Count(q, A) = 0 /\ Count(q, U) = IF chosen = <<>> THEN 1 ELSE 0
        /\ \A x \in DUTBins : Count(q, x) = 0
    BY <2>3, <2>4, <2>5
  <2>8. p5 = If(passed, q)
    BY DEF q
  <2> HIDE DEF p5, passed, q
  <2>7. If(passed, q) \in Seq(B) /\ \A x : Count(If(passed, q), x) = IF passed THEN Count(q, x) ELSE 0
    BY <2>6, IfNames
  <2> QED
    BY <2>6, <2>7, <2>8 DEF passed
<1>9. /\ p2 \in Seq(B) /\ p3 \in Seq(B) /\ p4 \in Seq(B)
      /\ \A x \in DUTBins \cup {A} : Count(p2, x) = 0 /\ Count(p3, x) = 0 /\ Count(p4, x) = 0
      /\ Count(p2, U) = 0 /\ Count(p3, U) = 0 /\ Count(p4, U) = 0
  <2>1. ClusterNames \subseteq B /\ U \notin ClusterNames /\ \A x \in DUTBins \cup {A} : x \notin ClusterNames
    BY DEF ClusterNames
  <2> HIDE DEF p2, p3, p4, B
  <2> QED
    BY <1>5, <1>6, <2>1, InMoreNames, CountOutside
<1> DEFINE s2 == p1 \o p2
           s3 == s2 \o p3
           s4 == s3 \o p4
           s5 == s4 \o p5
<1> HIDE DEF p1, p2, p3, p4, p5, B, bin, chosen
<1>10. s2 \in Seq(B) /\ \A x : Count(s2, x) = Count(p1, x) + Count(p2, x)
  BY <1>4, <1>9, CountConcat
<1>11. s3 \in Seq(B) /\ \A x : Count(s3, x) = Count(s2, x) + Count(p3, x)
  <2> HIDE DEF s2
  <2> QED BY <1>9, <1>10, CountConcat
<1>12. s4 \in Seq(B) /\ \A x : Count(s4, x) = Count(s3, x) + Count(p4, x)
  <2> HIDE DEF s3
  <2> QED BY <1>9, <1>11, CountConcat
<1>13. s5 \in Seq(B) /\ \A x : Count(s5, x) = Count(s4, x) + Count(p5, x)
  <2> HIDE DEF s4
  <2> QED BY <1>8, <1>12, CountConcat
<1>14. Fill(s5)
  BY <1>1
<1> HIDE DEF s2, s3, s4, s5
<1>15. /\ Count(s5, A) = 1 /\ \A x \in DUTBins : Count(s5, x) = IF bin = x THEN 1 ELSE 0
       /\ Count(s5, U) = IF bin = K /\ chosen = <<>> THEN 1 ELSE 0
  BY <1>4, <1>8, <1>9, <1>10, <1>11, <1>12, <1>13
<1> QED
  BY <1>3, <1>13, <1>14, <1>15 DEF ResidualFill, B, bin, a

\* The places of a chain with a DUT, and the track a module looks at next.
DUTPlaces ==
    chain.module = "DUT" =>
        /\ at \in {"initialize", "begin", "associate", "efficiency", "aborted", "dut", "end", "finalize", "done"}
        /\ at \in {"associate", "efficiency", "dut"} => todo <= Len(dut.tracks) + 1

\* Every step keeps the number of the track in range.
LEMMA DUTPlacesStep ==
    ASSUME LoopInv, DUTInv, DUTPlaces, [Next]_vars
    PROVE  DUTPlaces'
<1> SUFFICES ASSUME chain.module = "DUT" PROVE DUTPlaces'
  BY LoopKept DEF DUTPlaces
<1>1. CASE ~DUTNext
  BY <1>1, OtherThanDUT DEF DUTPlaces, Initialize, NextEvent, EndOfEvent, Proceed, dutVars
<1>2. CASE DUTNext
  <2> USE DEF DUTPlaces, Proceed, NextModule
  <2>1. CASE TracksArrive
    <3>1. at' = "associate" /\ todo' = 1
      BY <2>1 DEF TracksArrive
    <3>2. DUTInv'
      BY DUTInvStep
    <3>3. Len(dut.tracks)' \in Nat
      BY <3>1, <3>2, LoopKept, LenProperties DEF DUTInv
    <3> QED
      BY <3>1, <3>3
  <2>2. CASE AssociateTrack \/ EfficiencyTrack \/ DUTTrack
    <3>1. at \notin {"initialize", "begin"} /\ dut' = dut /\ todo \in DOMAIN dut.tracks /\ todo' = todo + 1
      BY <2>2 DEF AssociateTrack, EfficiencyTrack, DUTTrack
    <3>2. at' \in {"associate", "efficiency", "dut", "aborted"}
      BY <2>2 DEF AssociateTrack, EfficiencyTrack, DUTTrack
    <3>3. DOMAIN dut.tracks = 1..Len(dut.tracks) /\ Len(dut.tracks) \in Nat
      BY <3>1, LenProperties DEF DUTInv
    <3> QED
      BY <3>1, <3>2, <3>3
  <2>3. CASE AssociationDone \/ EfficiencyHits \/ DUTDone
    <3>1. at \notin {"initialize", "begin"} /\ dut' = dut /\ todo' = 1
      BY <2>3 DEF AssociationDone, EfficiencyHits, DUTDone
    <3>2. at' \in {"efficiency", "dut", "end"}
      BY <2>3 DEF AssociationDone, EfficiencyHits, DUTDone
    <3>3. Len(dut.tracks) \in Nat
      BY <3>1, LenProperties DEF DUTInv
    <3> QED
      BY <3>1, <3>2, <3>3
  <2>4. CASE EfficiencyFinalize
    BY <2>4 DEF EfficiencyFinalize
  <2> QED
    BY <1>2, <2>1, <2>2, <2>3, <2>4 DEF DUTNext
<1> QED
  BY <1>1, <1>2

-----------------------------------------------------------------------------
(* Counters of the analyses of a DUT *)

DUTCounts ==
    chain.module = "DUT" /\ at # "initialize" =>
        DOMAIN filled = DUTBooks /\ \A h \in DUTBooks : filled[h] \in Nat

\* The names that cut flows and efficiencies are not made of.
OtherNames ==
    DUTBooks \ (FlowCounters \cup {"n_track", "matched_tracks", "clustPos_passed", "chipTrackPos_passed",
                                   "eTotalEfficiency", "eTotalEfficiency_passed", "prevTrack_assoc",
                                   "prevTrack_noAssoc", "kAllTrack", "hUnassociatedTracks", "prevHit_matched",
                                   "prevHit_notmatched"} \cup DUTBins)

\* What DUTAssociation enters for a track.
LEMMA AssociationFills ==
    ASSUME AssociateTrack, dut.clusters \in Seq(DUTClusters)
    PROVE  \E s : Fill(s) /\ s \in Seq(BookedAssociation)
<1> DEFINE t == dut.tracks[todo]
           cuts == [m \in DOMAIN dut.clusters |-> Cut(t, dut.clusters[m])]
           added == Kept([m \in DOMAIN cuts |-> m], {m \in DOMAIN cuts : cuts[m] = "assoc_cluster_counter"})
           T == BookedAssociation
           p1 == <<"total_tracks_", "no_assoc_cls">>
           p2 == [m \in DOMAIN cuts |-> "num_cluster"]
           p3 == [m \in DOMAIN cuts |-> "clusterDistance"]
           p4 == If(added # <<>>, <<"track_w_assoc_cls">>)
<1>1. Fill((((p1 \o cuts) \o p2) \o p3) \o p4)
  BY DEF AssociateTrack
<1>2. DOMAIN cuts = 1..Len(dut.clusters) /\ Len(dut.clusters) \in Nat
  BY LenProperties
<1>3. \A m \in DOMAIN cuts : cuts[m] \in T
  BY DEF Cut, BookedAssociation
<1>4. {"total_tracks_", "no_assoc_cls", "num_cluster", "clusterDistance", "track_w_assoc_cls"} \subseteq T
  BY DEF BookedAssociation
<1> HIDE DEF T, cuts, added
<1>5. cuts \in Seq(T)
  <2> DEFINE n == Len(dut.clusters)
  <2>1. cuts = [m \in 1..n |-> cuts[m]] /\ n \in Nat /\ \A m \in 1..n : cuts[m] \in T
    BY <1>2, <1>3 DEF cuts
  <2> HIDE DEF n
  <2> QED
    BY <2>1, IsASeq
<1>6. p1 \in Seq(T) /\ p2 \in Seq(T) /\ p3 \in Seq(T) /\ <<"track_w_assoc_cls">> \in Seq(T)
  BY <1>2, <1>4
<1>7. p4 \in Seq(T)
  BY <1>6, EmptySeq DEF If
<1> HIDE DEF p1, p2, p3, p4
<1>8. (((p1 \o cuts) \o p2) \o p3) \o p4 \in Seq(T)
  BY <1>5, <1>6, <1>7, ConcatProperties
<1> QED
  BY <1>1, <1>8 DEF T

\* What AnalysisEfficiency enters when it is finalized.
LEMMA EfficiencyFinalFills ==
    ASSUME EfficiencyFinalize, filled["chipTrackPos_passed"] \in Nat, filled["pixelMatrix"] \in Nat,
           IsFiniteSet(Matrix)
    PROVE  \E s : Fill(s) /\ s \in Seq({"hPixelEfficiency", "hPixelEfficiencyMatrix"})
<1> DEFINE c == Cardinality(Matrix)
           T == {"hPixelEfficiency", "hPixelEfficiencyMatrix"}
<1>1. c \in Nat
  BY FS_CardinalityType
<1> HIDE DEF c
<1>2. \A n \in Nat : Min({n, c}) \in Nat
  <2> TAKE n \in Nat
  <2>1. \E x \in {n, c} : \A y \in {n, c} : x <= y
    BY <1>1
  <2>2. Min({n, c}) \in {n, c}
    BY <2>1, Zenon DEF Min
  <2> QED
    BY <1>1, <2>2
<1>3. PICK passed \in 0..Min({filled["chipTrackPos_passed"], c}),
           matching \in 0..Min({filled["pixelMatrix"], c}) :
        Fill([n \in 1..passed |-> "hPixelEfficiency"] \o [n \in 1..matching |-> "hPixelEfficiencyMatrix"])
  BY DEF EfficiencyFinalize, c
<1>4. passed \in Nat /\ matching \in Nat
  BY <1>2, <1>3
<1> DEFINE p == [n \in 1..passed |-> "hPixelEfficiency"]
           q == [n \in 1..matching |-> "hPixelEfficiencyMatrix"]
<1>5. p \in Seq(T) /\ q \in Seq(T)
  BY <1>4
<1> HIDE DEF p, q
<1>6. p \o q \in Seq(T)
  BY <1>5, ConcatProperties
<1> QED
  BY <1>3, <1>6 DEF p, q, T

\* The matrix of a detector is finite.
LEMMA MatrixFinite ==
    ASSUME Configured, chain.module = "DUT"
    PROVE  IsFiniteSet(Matrix)
<1>1. chain.det.columns \in Nat /\ chain.det.rows \in Nat
  BY DUTChain
<1> DEFINE A == 0..(chain.det.columns - 1)
           B == 0..(chain.det.rows - 1)
<1>2. IsFiniteSet(A) /\ IsFiniteSet(B)
  <2>1. \A b \in Int : IsFiniteSet(0..b)
    BY FS_Interval
  <2> QED
    BY <1>1, <2>1
<1> HIDE DEF A, B
<1>3. IsFiniteSet(A \X B)
  BY <1>2, FS_Product, Zenon
<1> QED
  BY <1>3 DEF Matrix, A, B

\* A step of an analysis of a DUT changes the histograms of one module, if any.
DUTFill(s) ==
    /\ Fill(s)
    /\ \/ AssociateTrack /\ s \in Seq(OtherNames)
       \/ EfficiencyTrack /\ TrackFill(s, dut.tracks[todo], assoc[todo])
       \/ DUTTrack /\ ResidualFill(s, dut.tracks[todo], assoc[todo])
       \/ EfficiencyFinalize /\ s \in Seq(OtherNames)

\* Every step of a chain with a DUT enters what DUTFill says, or nothing.
LEMMA DUTFills ==
    ASSUME LoopInv, DUTInv, DUTCounts, DUTNext
    PROVE  \/ /\ filled' = filled
              /\ TracksArrive \/ AssociationDone \/ EfficiencyHits \/ DUTDone
           \/ \E s : DUTFill(s)
<1>1. chain.module = "DUT" /\ Configured
  BY OwnSteps DEF LoopInv
<1>2. at \notin {"initialize", "begin"} =>
        /\ dut.tracks \in Seq(DUTTracks) /\ dut.clusters \in Seq(DUTClusters)
        /\ DOMAIN assoc = DOMAIN dut.tracks
        /\ \A k \in DOMAIN assoc : assoc[k] \in Associable(dut.tracks[k])
  BY <1>1 DEF DUTInv
<1>3. CASE TracksArrive \/ AssociationDone \/ EfficiencyHits \/ DUTDone
  BY <1>3 DEF TracksArrive, AssociationDone, EfficiencyHits, DUTDone, NextModule
<1>4. CASE AssociateTrack
  <2>1. at \notin {"initialize", "begin"}
    BY <1>4 DEF AssociateTrack, Proceed
  <2>2. PICK s : Fill(s) /\ s \in Seq(BookedAssociation)
    BY <1>2, <1>4, <2>1, AssociationFills
  <2>3. BookedAssociation \subseteq OtherNames
    BY DEF BookedAssociation, OtherNames, DUTBooks, FlowCounters, DUTBins
  <2>4. s \in Seq(OtherNames)
    BY <2>2, <2>3, InMoreNames
  <2> QED
    BY <1>4, <2>2, <2>4 DEF DUTFill
<1>5. CASE EfficiencyTrack
  <2>1. at \notin {"initialize", "begin"} /\ todo \in DOMAIN dut.tracks
    BY <1>5 DEF EfficiencyTrack, Proceed
  <2>2. assoc[todo].associated \in Seq(DOMAIN dut.clusters)
    BY <1>2, <2>1 DEF Associable, Associations
  <2>3. PICK s : Fill(s) /\ TrackFill(s, dut.tracks[todo], assoc[todo])
    BY <1>5, <2>2, EfficiencyFills
  <2> QED
    BY <1>5, <2>3 DEF DUTFill
<1>6. CASE DUTTrack
  <2>1. at \notin {"initialize", "begin"} /\ todo \in DOMAIN dut.tracks
    BY <1>6 DEF DUTTrack, Proceed
  <2>2. assoc[todo] \in Associable(dut.tracks[todo])
    BY <1>2, <2>1
  <2>3. PICK s : Fill(s) /\ ResidualFill(s, dut.tracks[todo], assoc[todo])
    BY <1>2, <1>6, <2>1, <2>2, DUTTrackFills
  <2> QED
    BY <1>6, <2>3 DEF DUTFill
<1>7. CASE EfficiencyFinalize
  <2>1. at # "initialize"
    BY <1>7 DEF EfficiencyFinalize, Proceed
  <2>2. "chipTrackPos_passed" \in DUTBooks /\ "pixelMatrix" \in DUTBooks
    BY DEF DUTBooks, BookedMaps
  <2>3. filled["chipTrackPos_passed"] \in Nat /\ filled["pixelMatrix"] \in Nat
    BY <1>1, <2>1, <2>2 DEF DUTCounts
  <2>4. PICK s : Fill(s) /\ s \in Seq({"hPixelEfficiency", "hPixelEfficiencyMatrix"})
    BY <1>1, <1>7, <2>3, MatrixFinite, EfficiencyFinalFills
  <2>5. {"hPixelEfficiency", "hPixelEfficiencyMatrix"} \subseteq OtherNames
    BY DEF OtherNames, DUTBooks, BookedEfficiency, FlowCounters, DUTBins
  <2>6. s \in Seq(OtherNames)
    BY <2>4, <2>5, InMoreNames
  <2> QED
    BY <1>7, <2>4, <2>6 DEF DUTFill
<1> QED
  BY <1>3, <1>4, <1>5, <1>6, <1>7 DEF DUTNext

\* What is filled is booked, so every histogram has its entries and new ones.
LEMMA DUTFilled ==
    ASSUME chain.module = "DUT", DUTCounts, at # "initialize", NEW s, DUTFill(s)
    PROVE  /\ DOMAIN filled' = DUTBooks
           /\ \A h \in DUTBooks : /\ filled'[h] = filled[h] + Count(s, h)
                                  /\ filled'[h] \in Nat /\ filled[h] \in Nat
<1>1. DOMAIN filled = DUTBooks /\ \A h \in DUTBooks : filled[h] \in Nat
  BY DEF DUTCounts
<1>2. s \in Seq(DUTBooks)
  <2>1. OtherNames \subseteq DUTBooks /\ (BookedEfficiency \cup BookedMaps) \subseteq DUTBooks
        /\ BookedDUT \subseteq DUTBooks
    BY DEF OtherNames, DUTBooks
  <2>2. \/ s \in Seq(OtherNames) \/ s \in Seq(BookedEfficiency \cup BookedMaps) \/ s \in Seq(BookedDUT)
    BY DEF DUTFill, TrackFill, TrackCount, ResidualFill
  <2> QED
    BY <2>1, <2>2, InMoreNames
<1>3. Fill(s)
  BY DEF DUTFill
<1> HIDE DEF DUTBooks
<1> QED
  BY <1>1, <1>2, <1>3, FillCounts

\* Every step keeps the histograms booked and their entries numbers.
LEMMA DUTCountsStep ==
    ASSUME LoopInv, DUTInv, DUTCounts, [Next]_vars
    PROVE  DUTCounts'
<1> SUFFICES ASSUME chain.module = "DUT", at' # "initialize" PROVE DUTCounts'
  BY LoopKept DEF DUTCounts
<1>1. chain' = chain
  BY LoopKept
<1>2. DUTBooks' = DUTBooks
  BY <1>1 DEF DUTBooks, BookedDUT, BookedCorrelations
<1>3. CASE ~DUTNext
  <2>1. CASE Initialize
    <3>1. filled' = [h \in Books |-> 0]
      BY <2>1 DEF Initialize, Booked
    <3>2. Books = DUTBooks
      BY DEF Books, DUTBooks
    <3> QED
      BY <1>2, <3>1, <3>2 DEF DUTCounts
  <2>2. CASE ~Initialize
    <3>1. filled' = filled /\ at # "initialize"
      BY <1>3, <2>2, OtherThanDUT DEF NextEvent, EndOfEvent
    <3> QED
      BY <1>2, <3>1 DEF DUTCounts
  <2> QED
    BY <2>1, <2>2
<1>4. CASE DUTNext
  <2>1. at # "initialize"
    BY <1>4 DEF DUTNext, TracksArrive, AssociateTrack, AssociationDone, EfficiencyTrack, EfficiencyHits,
           DUTTrack, DUTDone, EfficiencyFinalize, NextModule, Proceed
  <2>2. CASE filled' = filled
    BY <1>2, <2>1, <2>2 DEF DUTCounts
  <2>3. ASSUME NEW s, DUTFill(s) PROVE DUTCounts'
    BY <1>2, <2>1, <2>3, DUTFilled DEF DUTCounts
  <2> QED
    BY <1>4, <2>2, <2>3, DUTFills
<1> QED
  BY <1>3, <1>4

\* The counters that cut flow and efficiency maps are made of.
FlowNames ==
    FlowCounters \cup {"n_track", "matched_tracks", "clustPos_passed", "chipTrackPos_passed",
                       "prevTrack_assoc", "prevTrack_noAssoc"}

\* The names of the cut flows are booked, and no other module enters them.
LEMMA FlowNamesBooked ==
    /\ FlowNames \subseteq DUTBooks
    /\ \A x \in FlowNames : x \notin OtherNames /\ x \notin BookedDUT
<1>1. \A x \in FlowNames : x \in DUTBooks
  BY DEF FlowNames, FlowCounters, DUTBooks, BookedEfficiency, BookedMaps
<1>2. \A x \in FlowNames : x \notin OtherNames
  BY DEF FlowNames, OtherNames
<1>3. \A x \in FlowNames : x \notin BookedDUT
  BY DEF FlowNames, FlowCounters, BookedDUT, BookedGlobalResiduals, BookedLocalResiduals, BookedCorrelations,
         BookedClusters, BookedInPixel, BookedPositions, BookedTimes
<1> QED
  BY <1>1, <1>2, <1>3

\* Every step keeps the cut flows balanced.
LEMMA BalanceStep ==
    ASSUME LoopInv, DUTInv, DUTCounts, CutFlowBalances, [Next]_vars
    PROVE  CutFlowBalances'
<1> SUFFICES ASSUME chain.module = "DUT", at' # "initialize" PROVE CutFlowBalances'
  BY LoopKept DEF CutFlowBalances
<1>1. CASE ~DUTNext
  <2>1. CASE Initialize
    <3>1. filled' = [h \in Books |-> 0]
      BY <2>1 DEF Initialize, Booked
    <3>2. Books = DUTBooks
      BY DEF Books, DUTBooks
    <3>3. \A x \in FlowNames : filled'[x] = 0
      BY <3>1, <3>2, FlowNamesBooked
    <3> HIDE DEF FlowNames
    <3>4. FlowCounters \subseteq FlowNames /\ {"n_track", "matched_tracks", "clustPos_passed", "chipTrackPos_passed",
                       "prevTrack_assoc", "prevTrack_noAssoc"} \subseteq FlowNames
      BY DEF FlowNames
    <3> QED
      BY <3>3, <3>4 DEF CutFlowBalances, FlowCounters
  <2>2. CASE ~Initialize
    <3>1. filled' = filled /\ at # "initialize"
      BY <1>1, <2>2, OtherThanDUT DEF NextEvent, EndOfEvent
    <3> QED
      BY <3>1 DEF CutFlowBalances
  <2> QED
    BY <2>1, <2>2
<1>2. CASE DUTNext
  <2>1. at # "initialize"
    BY <1>2 DEF DUTNext, TracksArrive, AssociateTrack, AssociationDone, EfficiencyTrack, EfficiencyHits,
           DUTTrack, DUTDone, EfficiencyFinalize, NextModule, Proceed
  <2>2. CASE filled' = filled
    BY <2>1, <2>2 DEF CutFlowBalances
  <2>3. ASSUME NEW s, DUTFill(s) PROVE CutFlowBalances'
    <3>1. \A x \in FlowNames : filled'[x] = filled[x] + Count(s, x) /\ filled[x] \in Nat
      BY <2>1, <2>3, DUTFilled, FlowNamesBooked
    <3>2. CASE \A x \in FlowNames : Count(s, x) = 0
      <4>1. \A x \in FlowNames : filled'[x] = filled[x]
        BY <3>1, <3>2
      <4>2. FlowCounters \subseteq FlowNames /\ {"n_track", "matched_tracks", "clustPos_passed",
                 "chipTrackPos_passed", "prevTrack_assoc", "prevTrack_noAssoc"} \subseteq FlowNames
        BY DEF FlowNames
      <4> HIDE DEF FlowNames
      <4> QED
        BY <2>1, <4>1, <4>2 DEF CutFlowBalances, FlowCounters
    <3>3. ASSUME NEW t, NEW a, TrackFill(s, t, a) PROVE CutFlowBalances'
      <4> DEFINE matched == a.associated # <<>>
                 selection == Selection(t)
                 d(x) == Count(s, x)
      <4>1. selection \in FlowCounters
        BY SelectionTypes
      <4>2. /\ d("n_track") = 1
            /\ \A x \in FlowCounters : d(x) = IF selection = x THEN 1 ELSE 0
            /\ d("matched_tracks") = IF selection = "total_tracks" /\ matched THEN 1 ELSE 0
            /\ d("clustPos_passed") = IF selection = "total_tracks" /\ matched THEN 1 ELSE 0
            /\ d("chipTrackPos_passed") = IF selection = "total_tracks" /\ matched THEN 1 ELSE 0
            /\ d("prevTrack_assoc") = IF selection = "total_tracks" /\ matched THEN 1 ELSE 0
            /\ d("prevTrack_noAssoc") = IF selection = "total_tracks" /\ ~matched THEN 1 ELSE 0
        BY <3>3 DEF TrackFill, TrackCount
      <4> HIDE DEF selection, matched, d
      <4>3. /\ d("n_chi2") = (IF selection = "n_chi2" THEN 1 ELSE 0)
            /\ d("n_dut") = (IF selection = "n_dut" THEN 1 ELSE 0)
            /\ d("n_masked") = (IF selection = "n_masked" THEN 1 ELSE 0)
            /\ d("n_frameedge") = (IF selection = "n_frameedge" THEN 1 ELSE 0)
            /\ d("n_requirecluster") = (IF selection = "n_requirecluster" THEN 1 ELSE 0)
            /\ d("total_tracks") = (IF selection = "total_tracks" THEN 1 ELSE 0)
        BY <4>2 DEF FlowCounters
      <4>4. /\ d("n_track") = d("n_chi2") + d("n_dut") + d("n_masked") + d("n_frameedge")
                              + d("n_requirecluster") + d("total_tracks")
            /\ d("total_tracks") = d("prevTrack_assoc") + d("prevTrack_noAssoc")
            /\ d("prevTrack_assoc") = d("matched_tracks")
            /\ d("clustPos_passed") = d("chipTrackPos_passed")
        BY <4>1, <4>2, <4>3 DEF FlowCounters
      <4>5. \A x \in FlowNames : filled'[x] = filled[x] + d(x) /\ filled[x] \in Nat /\ d(x) \in Nat
        <5>1. \A x : d(x) \in Nat
          <6>1. s \in Seq(BookedEfficiency \cup BookedMaps)
            BY <3>3 DEF TrackFill, TrackCount
          <6> QED
            BY <6>1, CountNat DEF d
        <5> QED
          BY <3>1, <5>1 DEF d
      <4>6. FlowCounters \subseteq FlowNames /\ {"n_track", "matched_tracks", "clustPos_passed",
                 "chipTrackPos_passed", "prevTrack_assoc", "prevTrack_noAssoc"} \subseteq FlowNames
        BY DEF FlowNames
      <4>7. \A x \in {"n_track", "n_chi2", "n_dut", "n_masked", "n_frameedge", "n_requirecluster", "total_tracks",
                      "matched_tracks", "clustPos_passed", "chipTrackPos_passed", "prevTrack_assoc",
                      "prevTrack_noAssoc"} : filled'[x] = filled[x] + d(x) /\ filled[x] \in Nat /\ d(x) \in Nat
        <5> HIDE DEF FlowNames
        <5> QED
          BY <4>5, <4>6 DEF FlowCounters
      <4>8. /\ filled["n_track"] = filled["n_chi2"] + filled["n_dut"] + filled["n_masked"]
                    + filled["n_frameedge"] + filled["n_requirecluster"] + filled["total_tracks"]
            /\ filled["total_tracks"] = filled["prevTrack_assoc"] + filled["prevTrack_noAssoc"]
            /\ filled["prevTrack_assoc"] = filled["matched_tracks"]
            /\ filled["clustPos_passed"] = filled["chipTrackPos_passed"]
        BY <2>1 DEF CutFlowBalances
      <4>9. filled'["n_track"] = filled'["n_chi2"] + filled'["n_dut"] + filled'["n_masked"]
                    + filled'["n_frameedge"] + filled'["n_requirecluster"] + filled'["total_tracks"]
        BY <4>4, <4>7, <4>8
      <4>10. /\ filled'["total_tracks"] = filled'["prevTrack_assoc"] + filled'["prevTrack_noAssoc"]
             /\ filled'["prevTrack_assoc"] = filled'["matched_tracks"]
             /\ filled'["clustPos_passed"] = filled'["chipTrackPos_passed"]
        BY <4>4, <4>7, <4>8
      <4> QED
        BY <4>9, <4>10 DEF CutFlowBalances
    <3>4. CASE s \in Seq(OtherNames) \/ s \in Seq(BookedDUT)
      <4>1. \A x \in FlowNames : Count(s, x) = 0
        BY <3>4, FlowNamesBooked, CountOutside
      <4> QED
        BY <3>2, <4>1
    <3> QED
      BY <2>3, <3>3, <3>4 DEF DUTFill, ResidualFill
  <2> QED
    BY <1>2, <2>2, <2>3, DUTFills
<1> QED
  BY <1>1, <1>2

\* The counters that the cut flow of AnalysisDUT is made of.
ResidualNames == DUTBins \cup {"kAllTrack", "hUnassociatedTracks"}

\* They are booked, and no other module enters them.
LEMMA ResidualNamesBooked ==
    /\ ResidualNames \subseteq DUTBooks
    /\ \A x \in ResidualNames : x \notin OtherNames /\ x \notin BookedEfficiency \cup BookedMaps
<1>1. \A x \in ResidualNames : x \in DUTBooks
  BY DEF ResidualNames, DUTBins, DUTBooks, BookedDUT, BookedInPixel, BookedPositions
<1>2. \A x \in ResidualNames : x \notin OtherNames
  BY DEF ResidualNames, OtherNames
<1>3. \A x \in ResidualNames : x \notin BookedEfficiency \cup BookedMaps
  BY DEF ResidualNames, DUTBins, BookedEfficiency, BookedMaps
<1> QED
  BY <1>1, <1>2, <1>3

\* Every step keeps the cut flow of AnalysisDUT balanced.
LEMMA ResidualStep ==
    ASSUME LoopInv, DUTInv, DUTCounts, ResidualFlowBalances, [Next]_vars
    PROVE  ResidualFlowBalances'
<1> SUFFICES ASSUME chain.module = "DUT", at' # "initialize" PROVE ResidualFlowBalances'
  BY LoopKept DEF ResidualFlowBalances
<1> USE DEF ResidualNames, DUTBins
<1>1. CASE ~DUTNext
  <2>1. CASE Initialize
    <3>1. filled' = [h \in Books |-> 0]
      BY <2>1 DEF Initialize, Booked
    <3>2. Books = DUTBooks
      BY DEF Books, DUTBooks
    <3>3. \A x \in ResidualNames : filled'[x] = 0
      BY <3>1, <3>2, ResidualNamesBooked
    <3> QED
      BY <3>3 DEF ResidualFlowBalances
  <2>2. CASE ~Initialize
    <3>1. filled' = filled /\ at # "initialize"
      BY <1>1, <2>2, OtherThanDUT DEF NextEvent, EndOfEvent
    <3> QED
      BY <3>1 DEF ResidualFlowBalances
  <2> QED
    BY <2>1, <2>2
<1>2. CASE DUTNext
  <2>1. at # "initialize"
    BY <1>2 DEF DUTNext, TracksArrive, AssociateTrack, AssociationDone, EfficiencyTrack, EfficiencyHits,
           DUTTrack, DUTDone, EfficiencyFinalize, NextModule, Proceed
  <2>2. CASE filled' = filled
    BY <2>1, <2>2 DEF ResidualFlowBalances
  <2>3. ASSUME NEW s, DUTFill(s) PROVE ResidualFlowBalances'
    <3>1. \A x \in ResidualNames : filled'[x] = filled[x] + Count(s, x) /\ filled[x] \in Nat
      BY <2>1, <2>3, DUTFilled, ResidualNamesBooked
    <3>2. /\ filled["kAllTrack"] = filled["kHighChi2Ndf"] + filled["kOutsideDUT"] + filled["kOutsideROI"]
                  + filled["kCloseToMask"] + filled["kTimeLimit"] + filled["kPass"]
          /\ filled["hUnassociatedTracks"] <= filled["kPass"]
      BY <2>1 DEF ResidualFlowBalances
    <3>3. ASSUME NEW t, NEW a, ResidualFill(s, t, a) PROVE ResidualFlowBalances'
      <4> DEFINE d(x) == Count(s, x)
                 bin == Bin(t)
      <4>1. bin \in DUTBins
        BY BinTypes
      <4>2. /\ d("kAllTrack") = 1 /\ \A x \in DUTBins : d(x) = IF bin = x THEN 1 ELSE 0
            /\ d("hUnassociatedTracks") = IF bin = "kPass" /\ a.associated = <<>> THEN 1 ELSE 0
        BY <3>3 DEF ResidualFill
      <4>3. \A x \in ResidualNames : filled'[x] = filled[x] + d(x) /\ filled[x] \in Nat
        BY <3>1
      <4> HIDE DEF d, bin
      <4>4. /\ d("kAllTrack") = d("kHighChi2Ndf") + d("kOutsideDUT") + d("kOutsideROI")
                    + d("kCloseToMask") + d("kTimeLimit") + d("kPass")
            /\ d("hUnassociatedTracks") <= d("kPass")
            /\ \A x \in ResidualNames : d(x) \in Nat
        BY <4>1, <4>2
      <4> QED
        BY <3>2, <4>3, <4>4 DEF ResidualFlowBalances
    <3>4. CASE s \in Seq(OtherNames) \/ s \in Seq(BookedEfficiency \cup BookedMaps)
      <4>1. \A x \in ResidualNames : Count(s, x) = 0
        BY <3>4, ResidualNamesBooked, CountOutside
      <4>2. \A x \in ResidualNames : filled'[x] = filled[x]
        BY <3>1, <4>1
      <4> QED
        BY <3>2, <4>2 DEF ResidualFlowBalances
    <3> QED
      BY <2>3, <3>3, <3>4 DEF DUTFill, TrackFill, TrackCount
  <2> QED
    BY <1>2, <2>2, <2>3, DUTFills
<1> QED
  BY <1>1, <1>2

SameCuts ==
    /\ chain.module = "DUT" /\ chain.dut_sensoredge = chain.spatial_cut_sensoredge
    /\ chain.masked_pixel_distance_cut = 1 /\ ~chain.require_associated_cluster_on

\* With the same cuts both analyses choose the same tracks.
LEMMA SameSelection ==
    ASSUME SameCuts, NEW t
    PROVE  Bin(t) = "kPass" <=> Selection(t) = "total_tracks" /\ TrackWithinROI(chain.det, t.x)
BY DEF SameCuts, Bin, acceptTrackDUT, Selection

\* Of the tracks before the k-th, those that pass, and those of them that have a cluster.
PassedTracks(k) == {l \in 1..(k - 1) : Bin(dut.tracks[l]) = "kPass"}

PassedMatched(k) == {l \in PassedTracks(k) : assoc[l].associated # <<>>}

Difference(total, passed, behind, matched) ==
    /\ total = filled["kPass"] + behind
    /\ passed + filled["hUnassociatedTracks"] = filled["kPass"] + matched

\* AnalysisDUT looks at the tracks of an event after AnalysisEfficiency did.
SameTracksAhead ==
    SameCuts /\ at \notin {"initialize", "aborted"} =>
        LET total == filled["eTotalEfficiency"]
            passed == filled["eTotalEfficiency_passed"]
            all == Len(dut.tracks) + 1
        IN  /\ at \notin {"efficiency", "dut"} => Difference(total, passed, 0, 0)
            /\ at = "efficiency" =>
                Difference(total, passed, Cardinality(PassedTracks(todo)), Cardinality(PassedMatched(todo)))
            /\ at = "dut" =>
                Difference(total + Cardinality(PassedTracks(todo)), passed + Cardinality(PassedMatched(todo)),
                           Cardinality(PassedTracks(all)), Cardinality(PassedMatched(all)))

\* One more track.
LEMMA PassedOneMore ==
    ASSUME NEW k \in Nat \ {0}
    PROVE  /\ Cardinality(PassedTracks(k)) \in Nat /\ Cardinality(PassedMatched(k)) \in Nat
           /\ Cardinality(PassedTracks(1)) = 0 /\ Cardinality(PassedMatched(1)) = 0
           /\ Cardinality(PassedTracks(k + 1))
                = Cardinality(PassedTracks(k)) + IF Bin(dut.tracks[k]) = "kPass" THEN 1 ELSE 0
           /\ Cardinality(PassedMatched(k + 1))
                = Cardinality(PassedMatched(k))
                  + IF Bin(dut.tracks[k]) = "kPass" /\ assoc[k].associated # <<>> THEN 1 ELSE 0
<1> DEFINE A == PassedTracks(k)
           B == PassedMatched(k)
           C == PassedTracks(k + 1)
           D == PassedMatched(k + 1)
           pass == Bin(dut.tracks[k]) = "kPass"
           matched == assoc[k].associated # <<>>
<1>1. /\ C = (IF pass THEN A \cup {k} ELSE A) /\ k \notin A
      /\ D = (IF pass /\ matched THEN B \cup {k} ELSE B) /\ k \notin B
  <2>1. 1..((k + 1) - 1) = (1..(k - 1)) \cup {k} /\ k \notin 1..(k - 1)
    OBVIOUS
  <2>2. C = (IF pass THEN A \cup {k} ELSE A) /\ k \notin A
    BY <2>1 DEF PassedTracks
  <2>3. D = (IF pass /\ matched THEN B \cup {k} ELSE B) /\ k \notin B
    <3> HIDE DEF pass
    <3> QED
      BY <2>2 DEF PassedMatched
  <2> QED
    BY <2>2, <2>3
<1>2. IsFiniteSet(A) /\ IsFiniteSet(B)
  <2>1. IsFiniteSet(1..(k - 1))
    BY FS_Interval
  <2>2. A \subseteq 1..(k - 1) /\ B \subseteq 1..(k - 1)
    BY DEF PassedTracks, PassedMatched
  <2> HIDE DEF A, B
  <2> QED
    BY <2>1, <2>2, FS_Subset
<1>3. PassedTracks(1) = {} /\ PassedMatched(1) = {}
  BY DEF PassedTracks, PassedMatched
<1> HIDE DEF A, B, C, D, pass, matched
<1>4. Cardinality(A) \in Nat /\ Cardinality(B) \in Nat
  BY <1>2, FS_CardinalityType
<1>5. Cardinality(C) = Cardinality(A) + IF pass THEN 1 ELSE 0
  <2>1. Cardinality(A \cup {k}) = Cardinality(A) + 1
    BY <1>1, <1>2, FS_AddElement
  <2> QED
    BY <1>1, <1>4, <2>1
<1>6. Cardinality(D) = Cardinality(B) + IF pass /\ matched THEN 1 ELSE 0
  <2>1. Cardinality(B \cup {k}) = Cardinality(B) + 1
    BY <1>1, <1>2, FS_AddElement
  <2> QED
    BY <1>1, <1>4, <2>1
<1> QED
  BY <1>3, <1>4, <1>5, <1>6, FS_EmptySet DEF A, B, C, D, pass, matched

\* What decides the bin of a track does not change within an event.
LEMMA EdgeSame ==
    ASSUME chain' = chain, event' = event
    PROVE  \A t, cut : AtFrameEdge(t, cut)' <=> AtFrameEdge(t, cut)
BY DEF AtFrameEdge, EventStart

\* What AnalysisDUT accepts depends on the chain and the clipboard only,
LEMMA acceptSame ==
    ASSUME chain' = chain
    PROVE  \A t : acceptTrackDUT(t)' = acceptTrackDUT(t)
BY DEF acceptTrackDUT

\* and so does the bin of its cut flow,
LEMMA BinSame ==
    ASSUME chain' = chain, event' = event
    PROVE  \A t : Bin(t)' = Bin(t)
BY EdgeSame, acceptSame DEF Bin

\* and whether a track passes.
LEMMA PassedSame ==
    ASSUME chain' = chain, event' = event, dut' = dut, assoc' = assoc
    PROVE  /\ \A k : PassedTracks(k)' = PassedTracks(k)
           /\ \A k : PassedMatched(k)' = PassedMatched(k)
<1>1. \A k : PassedTracks(k)' = PassedTracks(k)
  BY BinSame DEF PassedTracks
<1> QED
  BY <1>1 DEF PassedMatched

SameNames == {"eTotalEfficiency", "eTotalEfficiency_passed", "kPass", "hUnassociatedTracks"}

\* The names that the two analyses share out.
LEMMA SameNamesBooked ==
    /\ SameNames \subseteq DUTBooks
    /\ \A x \in SameNames : x \notin OtherNames
    /\ "eTotalEfficiency" \notin BookedDUT /\ "eTotalEfficiency_passed" \notin BookedDUT
    /\ "kPass" \notin BookedEfficiency \cup BookedMaps
    /\ "hUnassociatedTracks" \notin BookedEfficiency \cup BookedMaps
<1>1. \A x \in SameNames : x \in DUTBooks
  BY DEF SameNames, DUTBooks, BookedEfficiency, BookedDUT, BookedInPixel, BookedPositions
<1>2. \A x \in SameNames : x \notin OtherNames
  BY DEF SameNames, OtherNames, DUTBins
<1>3. "eTotalEfficiency" \notin BookedDUT /\ "eTotalEfficiency_passed" \notin BookedDUT
  BY DEF BookedDUT, BookedGlobalResiduals, BookedLocalResiduals, BookedCorrelations,
         BookedClusters, BookedInPixel, BookedPositions, BookedTimes
<1>4. /\ "kPass" \notin BookedEfficiency \cup BookedMaps
      /\ "hUnassociatedTracks" \notin BookedEfficiency \cup BookedMaps
  BY DEF BookedEfficiency, BookedMaps
<1> QED
  BY <1>1, <1>2, <1>3, <1>4

\* Every step keeps what one analysis is ahead of the other.
LEMMA SameTracksStep ==
    ASSUME LoopInv, DUTInv, DUTPlaces, DUTCounts, SameTracksAhead, [Next]_vars
    PROVE  SameTracksAhead'
<1> SUFFICES ASSUME SameCuts, at' \notin {"initialize", "aborted"} PROVE SameTracksAhead'
  BY LoopKept DEF SameTracksAhead, SameCuts
<1> USE DEF Proceed
<1>1. chain' = chain /\ SameCuts' /\ chain.module = "DUT"
  BY LoopKept DEF SameCuts
<1> DEFINE E == filled["eTotalEfficiency"]
           P == filled["eTotalEfficiency_passed"]
           K == filled["kPass"]
           U == filled["hUnassociatedTracks"]
           Tracks(k) == Cardinality(PassedTracks(k))
           Matched(k) == Cardinality(PassedMatched(k))
           all == Len(dut.tracks) + 1
<1>2. at # "initialize" => E \in Nat /\ P \in Nat /\ K \in Nat /\ U \in Nat
  BY <1>1, SameNamesBooked DEF DUTCounts, SameNames
<1>3. at' \notin {"efficiency", "dut"} /\ Difference(E, P, 0, 0)' => SameTracksAhead'
  BY DEF SameTracksAhead
<1>4. CASE ~DUTNext
  <2>1. CASE Initialize
    <3>1. filled' = [h \in Books |-> 0] /\ at' = "begin"
      BY <2>1 DEF Initialize, Booked
    <3>2. Books = DUTBooks
      BY <1>1 DEF Books, DUTBooks
    <3>3. \A x \in SameNames : filled'[x] = 0
      BY <3>1, <3>2, SameNamesBooked
    <3>4. Difference(E, P, 0, 0)'
      BY <3>3 DEF SameNames, Difference
    <3> QED
      BY <3>1, <3>4 DEF SameTracksAhead
  <2>2. CASE NextEvent
    <3>1. filled' = filled /\ at = "end" /\ at' \notin {"efficiency", "dut"}
      BY <2>2 DEF NextEvent, EndOfEvent
    <3> QED
      BY <3>1 DEF SameTracksAhead, Difference
  <2>3. CASE UNCHANGED <<dutVars, at, event, filled, prev_hit_ts>>
    <3>1. /\ \A k : PassedTracks(k)' = PassedTracks(k)
          /\ \A k : PassedMatched(k)' = PassedMatched(k)
      BY <1>1, <2>3, PassedSame DEF dutVars
    <3>2. filled' = filled /\ at' = at /\ todo' = todo /\ dut' = dut
      BY <2>3 DEF dutVars
    <3>3. SameTracksAhead' <=> SameTracksAhead
      BY <1>1, <3>1, <3>2 DEF SameTracksAhead, Difference
    <3> QED
      BY <3>3
  <2> QED
    BY <1>1, <1>4, <2>1, <2>2, <2>3, OtherThanDUT
<1>5. CASE DUTNext
  <2>1. at \notin {"initialize", "aborted"} /\ (at # "begin" => todo \in Nat \ {0})
    BY <1>1, <1>5 DEF DUTNext, TracksArrive, AssociateTrack, AssociationDone, EfficiencyTrack, EfficiencyHits,
           DUTTrack, DUTDone, EfficiencyFinalize, NextModule, DUTInv
  <2>2. CASE filled' = filled /\ (TracksArrive \/ AssociationDone \/ EfficiencyHits \/ DUTDone)
    <3>1. CASE TracksArrive
      <4>1. at = "begin" /\ at' = "associate"
        BY <3>1 DEF TracksArrive
      <4> QED
        BY <2>2, <4>1, <1>3 DEF SameTracksAhead, Difference
    <3>2. CASE AssociationDone
      <4>1. at = "associate" /\ at' = "efficiency" /\ todo' = 1
        BY <3>2 DEF AssociationDone, NextModule
      <4>2. Difference(E, P, 0, 0)
        BY <4>1 DEF SameTracksAhead
      <4>3. Tracks(1)' = 0 /\ Matched(1)' = 0
        <5>1. PassedTracks(1)' = {} /\ PassedMatched(1)' = {}
          BY DEF PassedTracks, PassedMatched
        <5> QED
          BY <5>1, FS_EmptySet
      <4>4. Difference(E, P, Tracks(todo), Matched(todo))'
        BY <2>2, <4>1, <4>2, <4>3 DEF Difference
      <4> QED
        BY <4>1, <4>4 DEF SameTracksAhead
    <3>3. CASE EfficiencyHits
      <4>1. at = "efficiency" /\ at' = "dut" /\ todo' = 1 /\ todo > Len(dut.tracks) /\ dut' = dut /\ assoc' = assoc
            /\ event' = event
        BY <3>3 DEF EfficiencyHits, NextModule
      <4>2. todo = all
        <5>1. Len(dut.tracks) \in Nat /\ todo \in Nat
          BY <1>1, <4>1, LenProperties DEF DUTInv
        <5> QED
          BY <1>1, <4>1, <5>1 DEF DUTPlaces
      <4>3. Difference(E, P, Tracks(all), Matched(all))
        BY <4>1, <4>2 DEF SameTracksAhead
      <4>4. /\ PassedTracks(1)' = PassedTracks(1) /\ PassedMatched(1)' = PassedMatched(1)
            /\ PassedTracks(all)' = PassedTracks(all) /\ PassedMatched(all)' = PassedMatched(all)
        BY <1>1, <4>1, PassedSame
      <4>5. Tracks(1) = 0 /\ Matched(1) = 0
        BY PassedOneMore
      <4>6. Difference(E + Tracks(todo), P + Matched(todo), Tracks(all), Matched(all))'
        BY <1>2, <2>2, <4>1, <4>3, <4>4, <4>5 DEF Difference
      <4> QED
        BY <4>1, <4>6 DEF SameTracksAhead
    <3>4. CASE DUTDone
      <4>1. at = "dut" /\ at' = "end" /\ todo > Len(dut.tracks)
        BY <3>4 DEF DUTDone, NextModule
      <4>2. todo = all /\ todo \in Nat \ {0}
        <5>1. Len(dut.tracks) \in Nat /\ todo \in Nat \ {0}
          BY <1>1, <4>1, LenProperties DEF DUTInv
        <5> QED
          BY <1>1, <4>1, <5>1 DEF DUTPlaces
      <4>3. Difference(E + Tracks(all), P + Matched(all), Tracks(all), Matched(all))
        BY <4>1, <4>2 DEF SameTracksAhead
      <4>4. Tracks(all) \in Nat /\ Matched(all) \in Nat
        BY <4>2, PassedOneMore
      <4>5. Difference(E, P, 0, 0)
        <5> DEFINE a == Tracks(all)
                   b == Matched(all)
        <5>1. /\ E + a = K + a /\ (P + b) + U = K + b /\ a \in Nat /\ b \in Nat
              /\ E \in Nat /\ P \in Nat /\ K \in Nat /\ U \in Nat
          BY <1>2, <4>1, <4>3, <4>4 DEF Difference
        <5> HIDE DEF a, b, E, P, K, U
        <5>2. E = K + 0 /\ P + U = K + 0
          BY <5>1
        <5> QED
          BY <5>2 DEF Difference, E, P, K, U
      <4> QED
        BY <1>3, <2>2, <4>1, <4>5 DEF Difference
    <3> QED
      BY <2>2, <3>1, <3>2, <3>3, <3>4
  <2>3. ASSUME NEW s, DUTFill(s) PROVE SameTracksAhead'
    <3> DEFINE t == dut.tracks[todo]
               matched == assoc[todo].associated # <<>>
    <3>1. /\ E' = E + Count(s, "eTotalEfficiency") /\ P' = P + Count(s, "eTotalEfficiency_passed")
          /\ K' = K + Count(s, "kPass") /\ U' = U + Count(s, "hUnassociatedTracks")
      BY <1>1, <2>1, <2>3, DUTFilled, SameNamesBooked DEF SameNames
    <3>2. CASE (AssociateTrack \/ EfficiencyFinalize) /\ s \in Seq(OtherNames)
      <4>1. \A x \in SameNames : Count(s, x) = 0
        BY <3>2, SameNamesBooked, CountOutside
      <4>2. E' = E /\ P' = P /\ K' = K /\ U' = U
        BY <1>2, <2>1, <3>1, <4>1 DEF SameNames
      <4>3. at \in {"associate", "finalize"} /\ at' \in {"associate", "done"}
        BY <3>2 DEF AssociateTrack, EfficiencyFinalize
      <4> QED
        BY <1>3, <4>2, <4>3 DEF SameTracksAhead, Difference
    <3>3. CASE EfficiencyTrack /\ TrackFill(s, t, assoc[todo])
      <4>1. at = "efficiency" /\ at' = "efficiency" /\ todo' = todo + 1 /\ dut' = dut /\ assoc' = assoc
            /\ event' = event
        BY <3>3 DEF EfficiencyTrack
      <4>2. /\ Count(s, "eTotalEfficiency") = IF Bin(t) = "kPass" THEN 1 ELSE 0
            /\ Count(s, "eTotalEfficiency_passed") = IF Bin(t) = "kPass" /\ matched THEN 1 ELSE 0
        <5> HIDE DEF t
        <5>1. Bin(t) = "kPass" <=> Selection(t) = "total_tracks" /\ TrackWithinROI(chain.det, t.x)
          BY SameSelection
        <5> QED
          BY <3>3, <5>1 DEF TrackFill, TrackCount
      <4>3. Count(s, "kPass") = 0 /\ Count(s, "hUnassociatedTracks") = 0
        <5>1. s \in Seq(BookedEfficiency \cup BookedMaps)
          BY <3>3 DEF TrackFill, TrackCount
        <5> QED
          BY <5>1, SameNamesBooked, CountOutside
      <4>4. todo \in Nat \ {0} /\ todo + 1 \in Nat \ {0}
        BY <2>1, <4>1
      <4>5. /\ Tracks(todo + 1) = Tracks(todo) + IF Bin(t) = "kPass" THEN 1 ELSE 0
            /\ Matched(todo + 1) = Matched(todo) + IF Bin(t) = "kPass" /\ matched THEN 1 ELSE 0
            /\ Tracks(todo) \in Nat /\ Matched(todo) \in Nat
        BY <4>4, PassedOneMore
      <4>6. Tracks(todo)' = Tracks(todo + 1) /\ Matched(todo)' = Matched(todo + 1)
        BY <1>1, <4>1, PassedSame
      <4>7. Difference(E, P, Tracks(todo), Matched(todo))
        BY <4>1 DEF SameTracksAhead
      <4> DEFINE pass == Bin(t) = "kPass"
      <4>8. Difference(E, P, Tracks(todo), Matched(todo))'
        <5>1. E' = E + (IF pass THEN 1 ELSE 0) /\ P' = P + (IF pass /\ matched THEN 1 ELSE 0)
              /\ K' = K /\ U' = U
          BY <1>2, <2>1, <3>1, <4>2, <4>3
        <5>2. /\ Tracks(todo)' = Tracks(todo) + (IF pass THEN 1 ELSE 0)
              /\ Matched(todo)' = Matched(todo) + (IF pass /\ matched THEN 1 ELSE 0)
          BY <4>5, <4>6
        <5>3. E \in Nat /\ P \in Nat /\ K \in Nat /\ U \in Nat /\ Tracks(todo) \in Nat /\ Matched(todo) \in Nat
          BY <1>2, <2>1, <4>5
        <5> HIDE DEF pass, matched
        <5> QED
          BY <4>7, <5>1, <5>2, <5>3 DEF Difference
      <4> QED
        BY <4>1, <4>8 DEF SameTracksAhead
    <3>4. CASE DUTTrack /\ ResidualFill(s, t, assoc[todo])
      <4>1. at = "dut" /\ at' = "dut" /\ todo' = todo + 1 /\ dut' = dut /\ assoc' = assoc
            /\ event' = event
        BY <3>4 DEF DUTTrack
      <4> DEFINE pass == Bin(t) = "kPass"
      <4>2. /\ Count(s, "kPass") = IF pass THEN 1 ELSE 0
            /\ Count(s, "hUnassociatedTracks") = IF pass /\ ~matched THEN 1 ELSE 0
        BY <3>4 DEF ResidualFill, DUTBins
      <4>3. Count(s, "eTotalEfficiency") = 0 /\ Count(s, "eTotalEfficiency_passed") = 0
        <5>1. s \in Seq(BookedDUT)
          BY <3>4 DEF ResidualFill
        <5> QED
          BY <5>1, SameNamesBooked, CountOutside
      <4>4. todo \in Nat \ {0} /\ all \in Nat \ {0}
        <5>1. Len(dut.tracks) \in Nat
          BY <1>1, <4>1, LenProperties DEF DUTInv
        <5> QED
          BY <2>1, <4>1, <5>1
      <4>5. /\ Tracks(todo + 1) = Tracks(todo) + (IF pass THEN 1 ELSE 0)
            /\ Matched(todo + 1) = Matched(todo) + (IF pass /\ matched THEN 1 ELSE 0)
            /\ Tracks(todo) \in Nat /\ Matched(todo) \in Nat
        BY <4>4, PassedOneMore
      <4>6. Tracks(all) \in Nat /\ Matched(all) \in Nat
        BY <4>4, PassedOneMore
      <4>7. /\ Tracks(todo)' = Tracks(todo + 1) /\ Matched(todo)' = Matched(todo + 1)
            /\ Tracks(all)' = Tracks(all) /\ Matched(all)' = Matched(all)
        BY <1>1, <4>1, PassedSame
      <4>8. Difference(E + Tracks(todo), P + Matched(todo), Tracks(all), Matched(all))
        BY <4>1 DEF SameTracksAhead
      <4>9. Difference(E + Tracks(todo), P + Matched(todo), Tracks(all), Matched(all))'
        <5>1. K' = K + (IF pass THEN 1 ELSE 0) /\ U' = U + (IF pass /\ ~matched THEN 1 ELSE 0)
              /\ E' = E /\ P' = P
          BY <1>2, <2>1, <3>1, <4>2, <4>3
        <5>2. /\ Tracks(todo)' = Tracks(todo) + (IF pass THEN 1 ELSE 0)
              /\ Matched(todo)' = Matched(todo) + (IF pass /\ matched THEN 1 ELSE 0)
              /\ Tracks(all)' = Tracks(all) /\ Matched(all)' = Matched(all)
          BY <4>5, <4>7
        <5>3. E \in Nat /\ P \in Nat /\ K \in Nat /\ U \in Nat
          BY <1>2, <2>1
        <5> DEFINE a == Tracks(todo)
                   b == Matched(todo)
                   c == Tracks(all)
                   d == Matched(all)
                   x == IF pass THEN 1 ELSE 0
                   y == IF pass /\ matched THEN 1 ELSE 0
                   z == IF pass /\ ~matched THEN 1 ELSE 0
        <5>4. x \in Nat /\ y \in Nat /\ z \in Nat /\ x = y + z
          OBVIOUS
        <5>5. K' = K + x /\ U' = U + z /\ E' = E /\ P' = P /\ a' = a + x /\ b' = b + y /\ c' = c /\ d' = d
          BY <5>1, <5>2
        <5>6. a \in Nat /\ b \in Nat /\ c \in Nat /\ d \in Nat /\ E + a = K + c /\ (P + b) + U = K + d
          BY <4>5, <4>6, <4>8 DEF Difference
        <5>7. E' + a' = K' + c' /\ (P' + b') + U' = K' + d'
          <6> HIDE DEF E, P, K, U, a, b, c, d, x, y, z
          <6> QED
            BY <5>3, <5>4, <5>5, <5>6
        <5> QED
          BY <5>7 DEF Difference
      <4> QED
        BY <4>1, <4>9 DEF SameTracksAhead
    <3> QED
      BY <2>3, <3>2, <3>3, <3>4 DEF DUTFill
  <2> QED
    BY <1>5, <2>2, <2>3, DUTFills
<1> QED
  BY <1>4, <1>5

\* The hits AnalysisEfficiency remembers are of the events before, and then of this one.
HitHistory ==
    chain.module = "DUT" /\ at # "initialize" =>
        LET before == IF at \in {"begin", "associate", "efficiency", "aborted"} THEN event ELSE event + 1
        IN  \A p \in Matrix : prev_hit_ts[p] = 0 \/ prev_hit_ts[p] \in 0..(EventStart(before) - 1)

ClusterTimes ==
    chain.module = "DUT" /\ at \notin {"initialize", "begin"} =>
        \A m \in DOMAIN dut.clusters : dut.clusters[m].time \in EventStart(event)..(EventStart(event + 1) - 1)

\* Events follow each other.
LEMMA EventStarts ==
    ASSUME Configured, chain.module = "DUT", event \in Nat \ {0}
    PROVE  /\ EventStart(event) \in Nat /\ EventStart(event + 1) = EventStart(event) + chain.length
           /\ chain.length \in Nat /\ EventStart(event + 1) \in Nat
<1>1. chain.length \in Nat
  BY DUTChain
<1>2. EventStart(event) = (event - 1) * chain.length /\ EventStart(event + 1) = ((event + 1) - 1) * chain.length
  BY DEF EventStart
<1>3. ((event + 1) - 1) * chain.length = (event - 1) * chain.length + chain.length
  BY <1>1
<1>4. \A m, n \in Nat : m * n \in Nat
  OBVIOUS
<1>5. (event - 1) * chain.length \in Nat
  BY <1>1, <1>4
<1> QED
  BY <1>1, <1>2, <1>3, <1>5

\* The start of an event depends on the chain only.
LEMMA StartSame ==
    ASSUME chain' = chain
    PROVE  \A n : EventStart(n)' = EventStart(n)
BY DEF EventStart

\* Clusters are of the event they are in.
LEMMA ClusterTimesStep ==
    ASSUME LoopInv, DUTInv, ClusterTimes, [Next]_vars
    PROVE  ClusterTimes'
<1> SUFFICES ASSUME chain.module = "DUT", at' \notin {"initialize", "begin"} PROVE ClusterTimes'
  BY LoopKept DEF ClusterTimes
<1> USE DEF Proceed
<1>1. chain' = chain /\ \A n : EventStart(n)' = EventStart(n)
  BY LoopKept, StartSame
<1>2. CASE ~TracksArrive
  <2>1. at \notin {"initialize", "begin"} /\ dut' = dut /\ event' = event
    BY <1>2, OtherThanDUT DEF Initialize, NextEvent, EndOfEvent, dutVars, DUTNext, AssociateTrack,
           AssociationDone, EfficiencyTrack, EfficiencyHits, DUTTrack, DUTDone, EfficiencyFinalize, NextModule
  <2>2. EventStart(event)' = EventStart(event) /\ EventStart(event + 1)' = EventStart(event + 1)
    BY <1>1, <2>1 DEF EventStart
  <2> QED
    BY <2>1, <2>2 DEF ClusterTimes
<1>3. CASE TracksArrive
  <2>1. PICK d \in Inputs :
            dut' = [tracks |-> [k \in DOMAIN d.tracks |-> InEvent(event, d.tracks[k])],
                    clusters |-> [m \in DOMAIN d.clusters |-> InEvent(event, d.clusters[m])]]
    BY <1>3 DEF TracksArrive
  <2>2. /\ d \in [tracks : Seq(DUTTracks), clusters : Seq(DUTClusters)]
        /\ \A m \in DOMAIN d.clusters : d.clusters[m].time \in 0..(chain.length - 1)
    BY DUTChain DEF LoopInv
  <2>3. event' = event
    BY <1>3 DEF TracksArrive
  <2>4. /\ EventStart(event) \in Nat /\ EventStart(event + 1) = EventStart(event) + chain.length
        /\ chain.length \in Nat
    BY EventStarts DEF LoopInv
  <2>5. ASSUME NEW m \in DOMAIN dut'.clusters
        PROVE  dut'.clusters[m].time \in EventStart(event)..(EventStart(event + 1) - 1)
    <3>1. m \in DOMAIN d.clusters /\ dut'.clusters[m] = InEvent(event, d.clusters[m])
      BY <2>1
    <3> DEFINE c == d.clusters[m]
    <3>2. c \in DUTClusters /\ c.time \in 0..(chain.length - 1)
      BY <2>2, <3>1, LenProperties, ElementOfSeq
    <3> HIDE DEF c
    <3> DEFINE Shapes == {P \in SUBSET (Int \X Int) : P # {} /\ IsFiniteSet(P)}
    <3>3. DUTClusters = [pixels : Shapes, time : Int]
      BY DEF DUTClusters
    <3> HIDE DEF Shapes
    <3>4. InEvent(event, c).time = EventStart(event) + c.time
      BY <3>2, <3>3 DEF InEvent
    <3>5. EventStart(event) + c.time \in EventStart(event)..(EventStart(event + 1) - 1)
      BY <2>4, <3>2
    <3> QED
      BY <3>1, <3>4, <3>5 DEF c
  <2>6. EventStart(event)' = EventStart(event) /\ EventStart(event + 1)' = EventStart(event + 1)
    BY <1>1, <2>3 DEF EventStart
  <2> QED
    BY <2>5, <2>6 DEF ClusterTimes
<1> QED
  BY <1>2, <1>3

\* The time of the previous hit is of an earlier event until AnalysisEfficiency has seen all tracks.
LEMMA HitHistoryStep ==
    ASSUME LoopInv, DUTInv, ClusterTimes, HitHistory, [Next]_vars
    PROVE  HitHistory'
<1> SUFFICES ASSUME chain.module = "DUT", at' # "initialize" PROVE HitHistory'
  BY LoopKept DEF HitHistory
<1> USE DEF Proceed
<1>1. chain' = chain /\ (\A n : EventStart(n)' = EventStart(n)) /\ Matrix' = Matrix
  BY LoopKept, StartSame DEF Matrix
<1>2. /\ EventStart(event) \in Nat /\ EventStart(event + 1) = EventStart(event) + chain.length
      /\ chain.length \in Nat
  BY EventStarts DEF LoopInv
<1> DEFINE early == {"begin", "associate", "efficiency", "aborted"}
           Bound == IF at \in early THEN EventStart(event) ELSE EventStart(event + 1)
           Bounded(n) == \A p \in Matrix : prev_hit_ts[p] = 0 \/ prev_hit_ts[p] \in 0..(n - 1)
<1>3. at # "initialize" => Bounded(Bound)
  BY DEF HitHistory
<1>4. /\ EventStart(event)' = EventStart(event)' /\ Bound' \in {EventStart(event)', EventStart(event + 1)'}
  OBVIOUS
<1>5. at' # "initialize" /\ Bounded(Bound)' => HitHistory'
  BY DEF HitHistory
<1>6. CASE Initialize
  <2>1. prev_hit_ts' = [p \in Matrix |-> 0]
    BY <1>6 DEF Initialize, EfficiencyInitialize
  <2> QED
    BY <1>1, <1>5, <2>1
<1>7. CASE NextEvent
  <2>1. /\ at = "end" /\ prev_hit_ts' = prev_hit_ts
        /\ \/ at' = "begin" /\ event' = event + 1
           \/ at' = "finalize" /\ event' = event
    BY <1>7 DEF NextEvent, EndOfEvent, analysisVars, effVars
  <2>2. Bound' = Bound
    BY <1>1, <2>1 DEF EventStart
  <2> QED
    BY <1>1, <1>3, <1>5, <2>1, <2>2
<1>8. CASE ~DUTNext /\ ~Initialize /\ ~NextEvent
  <2>1. at' = at /\ event' = event /\ prev_hit_ts' = prev_hit_ts
    BY <1>8, OtherThanDUT
  <2>2. Bound' = Bound
    BY <1>1, <2>1 DEF EventStart
  <2> QED
    BY <1>1, <1>3, <1>5, <2>1, <2>2
<1>9. CASE DUTNext /\ ~EfficiencyHits
  <2>1. /\ at # "initialize" /\ event' = event /\ prev_hit_ts' = prev_hit_ts /\ (at' \in early <=> at \in early)
    BY <1>9 DEF DUTNext, TracksArrive, AssociateTrack, AssociationDone, EfficiencyTrack,
           DUTTrack, DUTDone, EfficiencyFinalize, NextModule
  <2>2. Bound' = Bound
    BY <1>1, <2>1
  <2> HIDE DEF Bound
  <2> QED
    BY <1>1, <1>3, <1>5, <2>1, <2>2
<1>10. CASE EfficiencyHits
  <2>1. at = "efficiency" /\ at' = "dut" /\ event' = event
    BY <1>10 DEF EfficiencyHits, NextModule
  <2>2. Bound' = EventStart(event + 1)
    BY <1>1, <2>1 DEF EventStart
  <2>3. \A p \in Matrix : prev_hit_ts[p] = 0 \/ prev_hit_ts[p] \in 0..(EventStart(event) - 1)
    BY <1>3, <2>1
  <2>4. ASSUME NEW p \in Matrix
        PROVE  prev_hit_ts'[p] = 0 \/ prev_hit_ts'[p] \in 0..(EventStart(event + 1) - 1)
    <3> DEFINE there == Kept(dut.clusters, {c \in ToSet(dut.clusters) : p \in c.pixels})
    <3>1. prev_hit_ts'[p] = IF there = <<>> THEN prev_hit_ts[p] ELSE Last(there).time
      BY <1>10 DEF EfficiencyHits
    <3>2. CASE there = <<>>
      BY <1>2, <2>3, <3>1, <3>2
    <3>3. CASE there # <<>>
      <4>1. dut.clusters \in Seq(DUTClusters)
        BY <2>1 DEF DUTInv
      <4>2. there \in Seq(DUTClusters) /\ \A x : Has(there, x) => Has(dut.clusters, x)
        BY <4>1, KeptHas
      <4> HIDE DEF there
      <4>3. Len(there) \in Nat /\ Len(there) # 0
        BY <3>3, <4>2, LenProperties, EmptySeq
      <4>4. Has(there, Last(there))
        BY <4>3 DEF Has, Last
      <4>5. PICK m \in 1..Len(dut.clusters) : dut.clusters[m] = Last(there)
        BY <4>2, <4>4 DEF Has
      <4>6. m \in DOMAIN dut.clusters
        BY <4>1, LenProperties
      <4>7. dut.clusters[m].time \in EventStart(event)..(EventStart(event + 1) - 1)
        BY <2>1, <4>6 DEF ClusterTimes
      <4> QED
        BY <1>2, <3>1, <3>3, <4>5, <4>7
    <3> QED
      BY <3>2, <3>3
  <2> QED
    BY <1>1, <1>5, <2>2, <2>4
<1> QED
  BY <1>6, <1>7, <1>8, <1>9, <1>10

\* The rest of the invariant holds at the start.
LEMMA DUTRest ==
    ASSUME Init
    PROVE  DUTPlaces /\ DUTCounts /\ CutFlowBalances /\ ResidualFlowBalances
           /\ SameTracksAhead /\ ClusterTimes /\ HitHistory
BY DEF Init, ChainInit, DUTPlaces, DUTCounts, CutFlowBalances, ResidualFlowBalances, SameTracksAhead,
       ClusterTimes, HitHistory

\* The clusters of a track are those within the cuts and its closest one is the closest; the counters of a cut flow add up, the two analyses agree, and the history is of earlier events.
THEOREM DUTCorrect ==
    Spec => [](LoopInv /\ DUTInv /\ DUTPlaces /\ DUTCounts /\ CutFlowBalances /\ ResidualFlowBalances
               /\ SameTracksAhead /\ ClusterTimes /\ HitHistory)
<1> DEFINE Inv == DUTInv /\ DUTPlaces /\ DUTCounts /\ CutFlowBalances /\ ResidualFlowBalances
                  /\ SameTracksAhead /\ ClusterTimes /\ HitHistory
<1>1. Init => Inv
  BY DUTRest DEF Init, ChainInit, DUTInv
<1>2. LoopInv /\ Inv /\ [Next]_vars => Inv'
  BY DUTInvStep, DUTPlacesStep, DUTCountsStep, BalanceStep, ResidualStep, SameTracksStep, ClusterTimesStep, HitHistoryStep
<1> QED
  BY <1>1, <1>2, NextLoop, PTL DEF Spec

\* The previous hit a track is compared with.
THEOREM HistoryCorrect == Spec => HistoryFromEarlierEvents
<1> DEFINE Shown ==
        at = "efficiency" /\ at' = "efficiency"
        /\ filled'["prevHit_matched"] + filled'["prevHit_notmatched"]
             > filled["prevHit_matched"] + filled["prevHit_notmatched"]
        => /\ prev_hit_ts[TruncatedPixel(dut.tracks[todo].x)] < EventStart(event)
           /\ prev_hit_ts[TruncatedPixel(dut.tracks[todo].x)] > 0
<1>1. ASSUME LoopInv, DUTInv, DUTCounts, HitHistory, [Next]_vars
      PROVE  [Shown]_<<loopVars, filled, effVars>>
  <2> SUFFICES ASSUME at = "efficiency", at' = "efficiency",
                      filled'["prevHit_matched"] + filled'["prevHit_notmatched"]
                        > filled["prevHit_matched"] + filled["prevHit_notmatched"]
               PROVE  /\ prev_hit_ts[TruncatedPixel(dut.tracks[todo].x)] < EventStart(event)
                      /\ prev_hit_ts[TruncatedPixel(dut.tracks[todo].x)] > 0
    OBVIOUS
  <2>1. chain.module = "DUT" /\ Configured
    BY <1>1 DEF LoopInv, Placed
  <2> DEFINE H == "prevHit_matched"
             J == "prevHit_notmatched"
  <2>2. H \in DUTBooks /\ J \in DUTBooks /\ H \notin OtherNames /\ J \notin OtherNames
    BY DEF DUTBooks, BookedEfficiency, OtherNames
  <2>3. filled[H] \in Nat /\ filled[J] \in Nat
    BY <1>1, <2>1, <2>2 DEF DUTCounts
  <2>4. filled' # filled
    BY <2>3
  <2>5. DUTNext
    BY <1>1, <2>1, <2>4, OtherThanDUT DEF Initialize, NextEvent, EndOfEvent, Proceed
  <2>6. PICK s : DUTFill(s)
    BY <1>1, <2>4, <2>5, DUTFills
  <2>7. filled'[H] = filled[H] + Count(s, H) /\ filled'[J] = filled[J] + Count(s, J)
    BY <1>1, <2>1, <2>2, <2>6, DUTFilled
  <2>8. EfficiencyTrack
    <3>1. AssociateTrack \/ DUTTrack \/ EfficiencyFinalize => at # "efficiency"
      BY DEF AssociateTrack, DUTTrack, EfficiencyFinalize, Proceed
    <3> QED
      BY <2>6, <3>1 DEF DUTFill
  <2>9. TrackFill(s, dut.tracks[todo], assoc[todo])
    <3>1. AssociateTrack \/ DUTTrack \/ EfficiencyFinalize => at # "efficiency"
      BY DEF AssociateTrack, DUTTrack, EfficiencyFinalize, Proceed
    <3> QED
      BY <2>6, <3>1 DEF DUTFill
  <2>10. Count(s, H) + Count(s, J) > 0
    <3>1. s \in Seq(BookedEfficiency \cup BookedMaps)
      BY <2>9 DEF TrackFill, TrackCount
    <3>2. Count(s, H) \in Nat /\ Count(s, J) \in Nat
      BY <3>1, CountNat
    <3> QED
      BY <2>3, <2>7, <3>2
  <2> DEFINE pixel == TruncatedPixel(dut.tracks[todo].x)
  <2>11. pixel \in Matrix /\ prev_hit_ts[pixel] # 0
    BY <2>9, <2>10 DEF TrackFill
  <2> HIDE DEF pixel
  <2>12. prev_hit_ts[pixel] \in 0..(EventStart(event) - 1)
    BY <1>1, <2>1, <2>11 DEF HitHistory
  <2>13. EventStart(event) \in Nat
    BY <1>1, <2>1, EventStarts DEF LoopInv
  <2> QED
    BY <2>11, <2>12, <2>13 DEF pixel
<1> QED
  BY <1>1, DUTCorrect, PTL DEF Spec, HistoryFromEarlierEvents

\* Two analyses with the same cuts have counted the same tracks after each event.
LEMMA SameTracksCorrect == Spec => []SameTracks
<1>1. LoopInv /\ DUTCounts /\ SameTracksAhead => SameTracks
  <2> SUFFICES ASSUME DUTCounts, SameTracksAhead, SameCuts, at \in {"end", "finalize", "done"}
               PROVE  /\ filled["kPass"] = filled["eTotalEfficiency"]
                      /\ filled["kPass"] - filled["hUnassociatedTracks"] = filled["eTotalEfficiency_passed"]
    BY DEF SameTracks, SameCuts
  <2>1. Difference(filled["eTotalEfficiency"], filled["eTotalEfficiency_passed"], 0, 0)
    BY DEF SameTracksAhead
  <2>2. \A x \in SameNames : filled[x] \in Nat
    BY SameNamesBooked DEF DUTCounts, SameCuts
  <2> QED
    BY <2>1, <2>2 DEF Difference, SameNames
<1> QED
  BY <1>1, DUTCorrect, PTL

-----------------------------------------------------------------------------
(* The dead time of an oscilloscope *)

\* The parameters of a chain with AnalysisFASTPIX, by DeadtimeAssumption.
LEMMA DeadtimeChain ==
    ASSUME Configured, chain.module = "AnalysisFASTPIX"
    PROVE  /\ chain.length \in Nat /\ chain.chi2ndof_cut \in Int /\ chain.time_cut_frameedge \in Int
           /\ chain.time_cut_trigger \in Nat /\ chain.time_cut_deadtime \in Int
           /\ chain.use_closest_cluster \in BOOLEAN
           /\ Inputs \subseteq [triggers : SUBSET Signals, tracks : Seq(PassingTracks)]
           /\ \A d \in Inputs :
                /\ IsFiniteSet(d.triggers) /\ \A s \in d.triggers : s.time < chain.length
                /\ \A k \in DOMAIN d.tracks : d.tracks[k].time < chain.length
<1> DEFINE c == Chains[setup]
<1>1. c.module = "AnalysisFASTPIX"
  BY ChainsAssumption DEF Configured
<1>2. /\ c \in DeadtimeConfigurations
      /\ \A d \in c.inputs :
            /\ IsFiniteSet(d.triggers) /\ \A s \in d.triggers : s.time < c.length
            /\ \A k \in DOMAIN d.tracks : d.tracks[k].time < c.length
  BY <1>1, DeadtimeAssumption DEF Configured
<1> HIDE DEF c
<1>3. chain = [key \in DOMAIN c \ {"inputs"} |-> c[key]] /\ Inputs = c.inputs
  BY DEF Configured, Inputs, c
<1>4. /\ DOMAIN c = {"module", "events", "length", "chi2ndof_cut", "time_cut_frameedge", "time_cut_trigger",
                     "time_cut_deadtime", "use_closest_cluster", "inputs"}
      /\ c.length \in Nat /\ c.chi2ndof_cut \in Int /\ c.time_cut_frameedge \in Int
      /\ c.time_cut_trigger \in Nat /\ c.time_cut_deadtime \in Int
      /\ c.use_closest_cluster \in BOOLEAN
      /\ c.inputs \in SUBSET [triggers : SUBSET Signals, tracks : Seq(PassingTracks)]
  BY <1>2 DEF DeadtimeConfigurations
<1> QED
  BY <1>2, <1>3, <1>4

\* A step that is not one of AnalysisFASTPIX, of a chain with this module.
LEMMA OtherThanDeadtime ==
    ASSUME LoopInv, [Next]_vars, chain.module = "AnalysisFASTPIX", ~DeadtimeNext
    PROVE  /\ UNCHANGED <<at, event, filled>> \/ Initialize \/ NextEvent
           /\ UNCHANGED deadtimeVars
<1> USE DEF deadtimeVars, loadingVars, otherVars, analysisVars, vars, chainVars, loopVars
<1>1. CASE UNCHANGED vars
  BY <1>1
<1>2. CASE Initialize
  BY <1>2 DEF Initialize
<1>3. CASE NextEvent
  BY <1>3 DEF NextEvent
<1>4. ASSUME Next, ~Initialize, ~NextEvent PROVE FALSE
  BY <1>4, NextSteps, OwnSteps DEF LoopInv
<1> QED
  BY <1>1, <1>2, <1>3, <1>4

\* Its events follow each other.
LEMMA Starts ==
    ASSUME Configured, chain.module = "AnalysisFASTPIX", event \in Nat \ {0}
    PROVE  /\ Start(event) \in Nat /\ Start(event + 1) \in Nat
           /\ Start(event + 1) = Start(event) + chain.length /\ chain.length \in Nat
<1>1. chain.length \in Nat
  BY DeadtimeChain
<1>2. (event + 1) * chain.length = event * chain.length + chain.length
  <2>1. \A m, n \in Nat : (m + 1) * n = m * n + n
    OBVIOUS
  <2> QED
    BY <1>1, <2>1
<1>3. \A m, n \in Nat : m * n \in Nat
  OBVIOUS
<1>4. event * chain.length \in Nat
  BY <1>1, <1>3
<1>5. Start(event) = event * chain.length /\ Start(event + 1) = (event + 1) * chain.length
  BY DEF Start
<1> QED
  BY <1>1, <1>2, <1>4, <1>5

\* The time of an event; in the next one, all is later.
During(n) == Start(n)..(Start(n + 1) - 1)

PassageInv ==
    chain.module = "AnalysisFASTPIX" /\ at \notin {"initialize", "begin"} =>
        /\ passage.triggers \in SUBSET Signals /\ IsFiniteSet(passage.triggers)
        /\ \A s \in passage.triggers : s.time \in During(event)
        /\ passage.tracks \in Seq(PassingTracks)
        /\ \A k \in DOMAIN passage.tracks : passage.tracks[k].time \in During(event)

\* Triggers of which the oscilloscope may be dead: in the event, those before the track.
Dead(t, s) == t - s > chain.time_cut_trigger /\ t - s < chain.time_cut_deadtime

Known == seen \cup IF at = "fastpixTracks" THEN {s.time : s \in passage.triggers} ELSE {}

DeadtimeHistory ==
    chain.module = "AnalysisFASTPIX" =>
        /\ at \in {"initialize", "begin", "fastpixTracks", "end", "finalize", "done"}
        /\ last_timestamp \in Nat
        /\ \A s \in seen : s \in Nat /\ s <= last_timestamp
        /\ \A t \in counted : t \in Nat
        /\ at \in {"initialize", "begin"} => \A t \in counted : t < Start(event)
        /\ at \notin {"initialize", "begin"} => \A t \in counted : t < Start(event + 1)
        /\ \A t \in counted, s \in Known : ~Dead(t, s)

\* Every step keeps what an event has on the clipboard well formed.
LEMMA PassageStep ==
    ASSUME LoopInv, PassageInv, [Next]_vars
    PROVE  PassageInv'
<1> SUFFICES ASSUME chain.module = "AnalysisFASTPIX", at' \notin {"initialize", "begin"} PROVE PassageInv'
  BY LoopKept DEF PassageInv
<1>1. chain' = chain
  BY LoopKept
<1> DEFINE Held ==
        /\ at \notin {"initialize", "begin"} /\ event' = event
        /\ passage'.triggers = passage.triggers /\ passage'.tracks = passage.tracks
<1>2. Held => PassageInv'
  BY <1>1 DEF PassageInv, During, Start
<1>3. CASE ~DeadtimeNext
  <2>1. Held
    BY <1>3, OtherThanDeadtime DEF Initialize, NextEvent, EndOfEvent, Proceed, deadtimeVars
  <2> QED
    BY <1>2, <2>1
<1>4. CASE FASTPIXTrack
  <2>1. passage' = [passage EXCEPT !.todo = @ + 1] /\ at = "fastpixTracks" /\ event' = event
    BY <1>4 DEF FASTPIXTrack, Proceed
  <2>2. passage'.triggers = passage.triggers /\ passage'.tracks = passage.tracks
    BY <2>1
  <2> QED
    BY <1>2, <2>1, <2>2
<1>5. CASE FASTPIXTracksDone
  <2>1. Held
    BY <1>5 DEF FASTPIXTracksDone, Proceed
  <2> QED
    BY <1>2, <2>1
<1>6. CASE PassageArrives
  <2> DEFINE b == Start(event)
             Signal(s) == [s EXCEPT !.time = b + @]
             Passed(t) == [t EXCEPT !.time = b + @]
  <2>1. PICK d \in Inputs :
            passage' = [triggers |-> {Signal(s) : s \in d.triggers},
                        tracks |-> [k \in DOMAIN d.tracks |-> Passed(d.tracks[k])],
                        todo |-> 1]
    BY <1>6 DEF PassageArrives
  <2>2. event' = event /\ During(event)' = During(event)
    BY <1>1, <1>6 DEF PassageArrives, Proceed, During, Start
  <2>3. /\ b \in Nat /\ Start(event + 1) = b + chain.length /\ chain.length \in Nat
    BY Starts DEF LoopInv
  <2>4. /\ d.triggers \in SUBSET Signals /\ d.tracks \in Seq(PassingTracks)
        /\ IsFiniteSet(d.triggers) /\ \A s \in d.triggers : s.time < chain.length
        /\ \A k \in DOMAIN d.tracks : d.tracks[k].time < chain.length
    BY DeadtimeChain DEF LoopInv
  <2> DEFINE S == d.triggers
             ts == d.tracks
             T == {Signal(s) : s \in S}
             us == [k \in DOMAIN ts |-> Passed(ts[k])]
  <2>5. passage'.triggers = T /\ passage'.tracks = us
    BY <2>1
  <2>6. \A x \in Nat : x < chain.length => b + x \in During(event)
    BY <2>3 DEF During
  <2> HIDE DEF b
  <2>7. \A s \in Signals : Signal(s) \in Signals /\ Signal(s).time = b + s.time /\ s.time \in Nat
    BY <2>3 DEF Signals
  <2>8. \A t \in PassingTracks : Passed(t) \in PassingTracks /\ Passed(t).time = b + t.time /\ t.time \in Nat
    BY <2>3 DEF PassingTracks
  <2>9. S \in SUBSET Signals /\ IsFiniteSet(S) /\ \A s \in S : s.time < chain.length
    BY <2>4
  <2>10. ts \in Seq(PassingTracks) /\ \A k \in DOMAIN ts : ts[k].time < chain.length
    BY <2>4
  <2> HIDE DEF S, ts, Signal, Passed
  <2>11. T \in SUBSET Signals /\ \A s \in T : s.time \in During(event)
    BY <2>6, <2>7, <2>9
  <2>12. IsFiniteSet(T)
    <3> DEFINE f == [s \in S |-> Signal(s)]
    <3>1. f \in Surjection(S, T)
      BY DEF Surjection
    <3> HIDE DEF f, T
    <3> QED
      BY <2>9, <3>1, FS_Surjection, Zenon
  <2>13. us \in Seq(PassingTracks) /\ \A k \in DOMAIN us : us[k].time \in During(event)
    <3>1. DOMAIN ts = 1..Len(ts) /\ Len(ts) \in Nat /\ \A k \in 1..Len(ts) : ts[k] \in PassingTracks
      BY <2>10, LenProperties, ElementOfSeq
    <3>2. \A k \in DOMAIN ts : Passed(ts[k]) \in PassingTracks /\ Passed(ts[k]).time \in During(event)
      BY <2>6, <2>8, <2>10, <3>1
    <3>3. us \in Seq(PassingTracks)
      BY <3>1, <3>2, IsASeq
    <3> QED
      BY <3>2, <3>3
  <2> HIDE DEF T, us
  <2> QED
    BY <2>2, <2>5, <2>11, <2>12, <2>13 DEF PassageInv
<1> QED
  BY <1>3, <1>4, <1>5, <1>6 DEF DeadtimeNext, DeadtimeStep

\* Numbers up to a bound have a greatest one.
LEMMA FiniteMaximum ==
    ASSUME NEW n \in Nat, NEW S \in SUBSET (0..n), S # {}
    PROVE  Max(S) \in S /\ \A x \in S : x <= Max(S)
<1> DEFINE P == {k \in Nat : k <= n => (S \cap (0..k) # {} =>
                                \E x \in S \cap (0..k) : \A y \in S \cap (0..k) : y <= x)}
<1>1. 0 \in P
  <2>1. \A y \in S \cap (0..0) : y = 0
    OBVIOUS
  <2> QED
    BY <2>1
<1>2. \A k \in P : k + 1 \in P
  <2> TAKE k \in P
  <2>1. SUFFICES ASSUME k + 1 <= n, S \cap (0..(k + 1)) # {}
                 PROVE  \E x \in S \cap (0..(k + 1)) : \A y \in S \cap (0..(k + 1)) : y <= x
    OBVIOUS
  <2>2. k \in Nat /\ k <= n
    BY <2>1
  <2>3. \A y \in S \cap (0..(k + 1)) : y = k + 1 \/ y \in S \cap (0..k)
    BY <2>2
  <2>4. CASE k + 1 \in S
    <3>1. k + 1 \in S \cap (0..(k + 1)) /\ \A y \in S \cap (0..(k + 1)) : y <= k + 1
      BY <2>2, <2>4
    <3> QED
      BY <3>1
  <2>5. CASE k + 1 \notin S
    <3>1. S \cap (0..(k + 1)) = S \cap (0..k)
      BY <2>2, <2>3, <2>5
    <3> QED
      BY <2>1, <2>2, <3>1
  <2> QED
    BY <2>4, <2>5
<1>3. P = Nat
  <2>1. P \in SUBSET Nat
    OBVIOUS
  <2> HIDE DEF P
  <2> QED
    BY <1>1, <1>2, <2>1, NumberInduction
<1>4. S \cap (0..n) = S
  OBVIOUS
<1>5. \E x \in S : \A y \in S : y <= x
  <2>1. n \in P
    BY <1>3
  <2> QED
    BY <1>4, <2>1
<1>6. \E x \in S : \A y \in S : x >= y
  BY <1>5
<1>7. Max(S) \in S /\ \A y \in S : Max(S) >= y
  BY <1>6, Zenon DEF Max
<1> QED
  BY <1>7

\* No trigger has been seen before the first event.
LEMMA DeadtimeStart ==
    ASSUME chain.module = "AnalysisFASTPIX", DeadtimeInit, at = "initialize"
    PROVE  DeadtimeHistory
BY DEF DeadtimeInit, DeadtimeHistory, Known

\* A step that adds neither triggers nor tracks to what is known.
LEMMA SameHistory ==
    ASSUME LoopInv, DeadtimeHistory, chain.module = "AnalysisFASTPIX", chain' = chain, event \in Nat \ {0},
           UNCHANGED deadtimeVars,
           \/ UNCHANGED <<at, event>>
           \/ at = "initialize" /\ at' = "begin" /\ event' = event
           \/ at = "end" /\ at' = "begin" /\ event' = event + 1
           \/ at = "end" /\ at' = "finalize" /\ event' = event
    PROVE  DeadtimeHistory'
<1> USE DEF deadtimeVars
<1>1. /\ Start(event)' = event' * chain.length /\ Start(event + 1)' = (event' + 1) * chain.length
      /\ Start(event) = event * chain.length /\ Start(event + 1) = (event + 1) * chain.length
  BY DEF Start
<1>2. Known' = Known
  BY DEF Known
<1>3. \A t, s : Dead(t, s)' <=> Dead(t, s)
  BY DEF Dead
<1> QED
  BY <1>1, <1>2, <1>3 DEF DeadtimeHistory

\* Every step keeps the time of the latest trigger and the tracks away from the dead time.
LEMMA DeadtimeHistoryStep ==
    ASSUME LoopInv, PassageInv, DeadtimeHistory, [Next]_vars
    PROVE  DeadtimeHistory'
<1> SUFFICES ASSUME chain.module = "AnalysisFASTPIX" PROVE DeadtimeHistory'
  BY LoopKept DEF DeadtimeHistory
<1>1. chain' = chain /\ event \in Nat \ {0} /\ Configured /\ PassageInv'
  BY LoopKept, PassageStep DEF LoopInv
<1>2. /\ Start(event) \in Nat /\ Start(event + 1) = Start(event) + chain.length
      /\ chain.length \in Nat /\ Start(event + 1) \in Nat
  BY <1>1, Starts
<1>3. chain.time_cut_trigger \in Nat /\ chain.time_cut_deadtime \in Int
  BY <1>1, DeadtimeChain
<1>4. CASE ~DeadtimeNext
  <2>1. \/ UNCHANGED <<at, event>>
        \/ at = "initialize" /\ at' = "begin" /\ event' = event
        \/ at = "end" /\ at' = "begin" /\ event' = event + 1
        \/ at = "end" /\ at' = "finalize" /\ event' = event
    BY <1>4, OtherThanDeadtime DEF Initialize, NextEvent, EndOfEvent, Proceed
  <2> QED
    BY <1>1, <1>4, <2>1, OtherThanDeadtime, SameHistory
<1> USE DEF Proceed
<1>5. \A t, s : Dead(t, s)' <=> Dead(t, s)
  BY <1>1 DEF Dead
<1>6. event' = event => Start(event)' = Start(event) /\ Start(event + 1)' = Start(event + 1)
  BY <1>1 DEF Start
<1>7. CASE PassageArrives
  <2>1. /\ at = "begin" /\ at' = "fastpixTracks" /\ event' = event /\ last_timestamp' = last_timestamp
        /\ seen' = seen /\ counted' = counted
    BY <1>7 DEF PassageArrives
  <2>2. \A t \in counted : t \in Nat /\ t < Start(event)
    BY <2>1 DEF DeadtimeHistory
  <2>3. \A s \in passage'.triggers : s.time \in Start(event)..(Start(event + 1) - 1)
    BY <1>1, <1>6, <2>1 DEF PassageInv, During
  <2>4. \A t \in counted : \A s \in seen \cup {s.time : s \in passage'.triggers} : ~Dead(t, s)
    <3> TAKE t \in counted
    <3>1. \A s \in seen : ~Dead(t, s)
      BY DEF DeadtimeHistory, Known
    <3>2. \A s \in passage'.triggers : ~Dead(t, s.time)
      BY <1>2, <1>3, <2>2, <2>3 DEF Dead
    <3> QED
      BY <3>1, <3>2
  <2>5. Known' = seen \cup {s.time : s \in passage'.triggers}
    BY <2>1 DEF Known
  <2>6. \A t \in counted : t < Start(event + 1)
    BY <1>2, <2>2
  <2>7. \A t \in counted', s \in Known' : ~Dead(t, s)'
    BY <1>5, <2>1, <2>4, <2>5
  <2>8. \A t \in counted' : t \in Nat /\ t < Start(event + 1)'
    BY <1>6, <2>1, <2>2, <2>6
  <2>9. last_timestamp' \in Nat /\ \A s \in seen' : s \in Nat /\ s <= last_timestamp'
    BY <2>1 DEF DeadtimeHistory
  <2> QED
    BY <2>1, <2>7, <2>8, <2>9 DEF DeadtimeHistory
<1>8. CASE FASTPIXTrack
  <2> DEFINE t == passage.tracks[passage.todo]
             alive == t.chi2 <= chain.chi2ndof_cut /\ ~CutInTime(t) /\ ~InDeadTime(t)
  <2>1. /\ at = "fastpixTracks" /\ at' = at /\ event' = event /\ last_timestamp' = last_timestamp
        /\ seen' = seen /\ passage'.triggers = passage.triggers
        /\ counted' = IF alive THEN counted \cup {t.time} ELSE counted
        /\ passage.todo \in DOMAIN passage.tracks
    <3>1. passage' = [passage EXCEPT !.todo = @ + 1]
      BY <1>8 DEF FASTPIXTrack
    <3>2. passage'.triggers = passage.triggers
      BY <3>1
    <3> QED
      BY <1>8, <3>2 DEF FASTPIXTrack
  <2>2. t.time \in Start(event)..(Start(event + 1) - 1) /\ t.time \in Nat
    BY <1>2, <2>1 DEF PassageInv, During
  <2>3. ASSUME alive PROVE \A s \in Known : ~Dead(t.time, s)
    <3>1. t.time - last_timestamp >= chain.time_cut_deadtime
      BY <1>3, <2>2, <2>3 DEF CutInTime, DeadtimeHistory
    <3>2. \A s \in seen : ~Dead(t.time, s)
      BY <1>3, <2>2, <3>1 DEF Dead, DeadtimeHistory
    <3>3. \A s \in passage.triggers : ~Dead(t.time, s.time)
      BY <2>3 DEF InDeadTime, Dead
    <3> QED
      BY <2>1, <3>2, <3>3 DEF Known
  <2>4. Known' = Known
    BY <2>1 DEF Known
  <2> HIDE DEF alive, t
  <2> DEFINE x == t.time
  <2>5. x \in Nat /\ x < Start(event + 1)
    BY <1>2, <2>2
  <2>6. \A y \in counted : y \in Nat /\ y < Start(event + 1) /\ \A s \in Known : ~Dead(y, s)
    BY <2>1 DEF DeadtimeHistory
  <2>7. alive => \A s \in Known : ~Dead(x, s)
    BY <2>3
  <2>8. counted' = IF alive THEN counted \cup {x} ELSE counted
    BY <2>1
  <2> HIDE DEF x
  <2>9. \A y \in counted' : y \in Nat /\ y < Start(event + 1) /\ \A s \in Known : ~Dead(y, s)
    BY <2>5, <2>6, <2>7, <2>8
  <2>10. \A y \in counted', s \in Known' : ~Dead(y, s)'
    BY <1>5, <2>4, <2>9
  <2>11. last_timestamp' \in Nat /\ \A s \in seen' : s \in Nat /\ s <= last_timestamp'
    BY <2>1 DEF DeadtimeHistory
  <2> QED
    BY <1>6, <2>1, <2>9, <2>10, <2>11 DEF DeadtimeHistory
<1>9. CASE FASTPIXTracksDone
  <2> DEFINE times == {s.time : s \in passage.triggers}
             S == times \cup {last_timestamp}
  <2>1. /\ at = "fastpixTracks" /\ at' = "end" /\ event' = event /\ counted' = counted
        /\ last_timestamp' = Max(S) /\ seen' = seen \cup times
    BY <1>9 DEF FASTPIXTracksDone, LatestTrigger
  <2>2. times \subseteq Nat /\ \A s \in times : s < Start(event + 1)
    BY <1>2, <2>1 DEF PassageInv, During
  <2>3. last_timestamp \in Nat /\ \A s \in seen : s \in Nat /\ s <= last_timestamp
    BY DEF DeadtimeHistory
  <2>4. \A y \in counted : y \in Nat /\ y < Start(event + 1) /\ \A s \in seen \cup times : ~Dead(y, s)
    BY <2>1 DEF DeadtimeHistory, Known
  <2> HIDE DEF times
  <2>5. Max(S) \in S /\ \A x \in S : x <= Max(S)
    <3> DEFINE n == Start(event + 1) + last_timestamp
    <3>1. n \in Nat /\ S \in SUBSET (0..n) /\ S # {}
      BY <1>2, <2>2, <2>3
    <3> HIDE DEF n, S
    <3> QED
      BY <3>1, FiniteMaximum
  <2>6. Max(S) \in Nat /\ \A s \in seen \cup times : s \in Nat /\ s <= Max(S)
    <3>1. Max(S) \in Nat /\ last_timestamp <= Max(S) /\ \A s \in times : s <= Max(S)
      BY <2>2, <2>3, <2>5
    <3> DEFINE m == Max(S)
    <3>2. m \in Nat /\ last_timestamp <= m /\ \A s \in times : s <= m
      BY <3>1
    <3> HIDE DEF m, S
    <3>3. \A s \in seen : s \in Nat /\ s <= m
      BY <2>3, <3>2
    <3>4. \A s \in times : s \in Nat /\ s <= m
      BY <2>2, <3>2
    <3> QED
      BY <3>2, <3>3, <3>4 DEF m
  <2>7. Known' = seen \cup times
    BY <2>1 DEF Known
  <2>8. \A y \in counted', s \in Known' : ~Dead(y, s)'
    BY <1>5, <2>1, <2>4, <2>7
  <2>9. last_timestamp' \in Nat /\ \A s \in seen' : s \in Nat /\ s <= last_timestamp'
    BY <2>1, <2>6
  <2>10. \A y \in counted' : y \in Nat /\ y < Start(event + 1)'
    BY <1>6, <2>1, <2>4
  <2> QED
    BY <2>1, <2>8, <2>9, <2>10 DEF DeadtimeHistory
<1> QED
  BY <1>4, <1>7, <1>8, <1>9 DEF DeadtimeNext, DeadtimeStep

\* The entries of the maps of a pixel.
InPixel(name) == <<name, "inpix">>

PassNames ==
    {"hitmapTrigger", "hitmapDeadtimeTrigger", "hitmapTriggerAssoc", "hitmapAssoc", "hitmapNoAssoc",
     "hitmapDeadtime"}

Relevant == {InPixel(name) : name \in PassNames}

\* Entries of which none is in one of these maps.
Irrelevant(s) == s \in Seq(BookedFASTPIX) /\ \A name \in PassNames : Count(s, InPixel(name)) = 0

\* Entries that matter for none of the promises.
LEMMA OtherEntries ==
    ASSUME NEW s, s \in Seq(BookedFASTPIX \ Relevant)
    PROVE  Irrelevant(s)
<1> DEFINE T == BookedFASTPIX \ Relevant
<1>1. T \subseteq BookedFASTPIX /\ \A name \in PassNames : InPixel(name) \notin T
  BY DEF Relevant
<1> HIDE DEF T
<1>2. s \in Seq(T)
  BY DEF T
<1> QED
  BY <1>1, <1>2, InMoreNames, CountOutside DEF Irrelevant

\* They may be made under a condition,
LEMMA IrrelevantIf ==
    ASSUME NEW condition, NEW s, Irrelevant(s)
    PROVE  Irrelevant(If(condition, s))
<1> HIDE DEF BookedFASTPIX
<1> QED
  BY IfNames DEF Irrelevant

\* and one after the other.
LEMMA IrrelevantConcat ==
    ASSUME NEW s, NEW t, Irrelevant(s), Irrelevant(t)
    PROVE  Irrelevant(s \o t)
<1>1. /\ s \o t \in Seq(BookedFASTPIX)
      /\ \A x : Count(s \o t, x) = Count(s, x) + Count(t, x)
  BY CountConcat DEF Irrelevant
<1> QED
  BY <1>1 DEF Irrelevant

\* The entries of one map, and of that of a pixel.
MapEntries(s, name, inside) ==
    /\ s \in Seq(BookedFASTPIX)
    /\ \A x : Count(s, InPixel(x)) = IF x = name /\ inside THEN 1 ELSE 0

\* FillMap makes an entry for the matrix, and one for the pixel within the region of interest.
LEMMA MapFill ==
    ASSUME NEW t, NEW name \in BookedMatrixMaps
    PROVE  MapEntries(FillMap(t, name), name, t.inRoi)
<1> DEFINE y == <<name, "all">>
           z == <<name, "inpix">>
           inside == t.inRoi
           s == FillMap(t, name)
<1>1. y # z
  OBVIOUS
<1>2. s = Counted(<<y, z>>, inside)
  BY DEF FillMap, Counted
<1>3. \A x : InPixel(x) = z <=> x = name
  BY DEF InPixel
<1>4. \A x : InPixel(x) # y
  BY DEF InPixel
<1>5. {y, z} \subseteq BookedFASTPIX
  BY DEF BookedFASTPIX
<1> HIDE DEF y, z, s, inside
<1>6. Twice(s, y, z, inside)
  BY <1>1, <1>2, CountedCounts
<1>7. s \in Seq(BookedFASTPIX)
  BY <1>5, <1>6, InMoreNames DEF Twice
<1>8. \A x : Count(s, InPixel(x)) = IF x = name /\ inside THEN 1 ELSE 0
  BY <1>3, <1>4, <1>6 DEF Twice, Entry
<1> QED
  BY <1>7, <1>8 DEF MapEntries, s, inside

\* Maps that no promise is about.
LEMMA MapFillIrrelevant ==
    ASSUME NEW t, NEW name \in BookedMatrixMaps \ PassNames
    PROVE  Irrelevant(FillMap(t, name))
<1>1. MapEntries(FillMap(t, name), name, t.inRoi)
  BY MapFill
<1> QED
  BY <1>1 DEF MapEntries, Irrelevant

\* FillEither makes the entries of one of its two maps.
LEMMA EitherFill ==
    ASSUME NEW t, NEW condition, NEW is \in BookedMatrixMaps, NEW isNot \in BookedMatrixMaps
    PROVE  \/ condition /\ MapEntries(FillEither(t, condition, is, isNot), is, t.inRoi)
           \/ ~condition /\ MapEntries(FillEither(t, condition, is, isNot), isNot, t.inRoi)
<1>1. CASE condition
  BY <1>1, MapFill DEF FillEither
<1>2. CASE ~condition
  BY <1>2, MapFill DEF FillEither
<1> QED
  BY <1>1, <1>2

\* Maps without one of a pixel.
Plain ==
    {"hitmap", "hitmapIntercept", "hitmapNoIntercept", "hitmapNoAssocMissing", "clusterCharge",
     "clusterChargeROI", "clusterSize", "clusterSizeROI", "inefficientTriggerAssocTime",
     "inefficientTriggerAssocDt", "inefficientAssocDt", "inefficientAssocDist",
     "inefficientAssocEventStatus", "clusterSizeMapROI"}

\* Histograms that have no map of the pixel.
LEMMA PlainEntries ==
    ASSUME NEW s, s \in Seq(Plain \X {"all"})
    PROVE  Irrelevant(s)
<1> DEFINE S == Plain \X {"all"}
<1>1. \A x \in S : x \in BookedFASTPIX \ Relevant
  BY DEF Plain, BookedFASTPIX, Relevant, InPixel
<1>2. s \in Seq(S)
  OBVIOUS
<1> HIDE DEF S
<1>3. s \in Seq(BookedFASTPIX \ Relevant)
  BY <1>1, <1>2, InMoreNames
<1> QED
  BY <1>3, OtherEntries

\* One entry of such a histogram,
LEMMA PlainOne ==
    ASSUME NEW name \in Plain
    PROVE  Irrelevant(<<<<name, "all">>>>)
<1> DEFINE S == Plain \X {"all"}
           x == <<name, "all">>
<1>1. x \in S
  OBVIOUS
<1> HIDE DEF S, x
<1>2. <<x>> \in Seq(S)
  BY <1>1
<1> QED
  BY <1>2, PlainEntries DEF S, x

\* and many of it.
LEMMA PlainMany ==
    ASSUME NEW name \in Plain, NEW n \in Nat
    PROVE  Irrelevant([k \in 1..n |-> <<name, "all">>])
<1> DEFINE S == Plain \X {"all"}
           x == <<name, "all">>
<1>1. x \in S
  OBVIOUS
<1> HIDE DEF S, x
<1>2. [k \in 1..n |-> x] \in Seq(S)
  BY <1>1, IsASeq
<1> QED
  BY <1>2, PlainEntries DEF S, x

\* To enter nothing matters for none either.
LEMMA IrrelevantEmpty == Irrelevant(<<>>)
<1>1. <<>> \in Seq(BookedFASTPIX)
  BY EmptySeq
<1> QED
  BY <1>1, CountEmpty DEF Irrelevant

\* The clusters of a track that counts.
LEMMA ClustersFill ==
    ASSUME NEW t, t.associated \in Nat
    PROVE  Irrelevant(FillClusters(t))
<1> DEFINE n == IF chain.use_closest_cluster THEN Min({1, t.associated}) ELSE t.associated
           p1 == FillMap(t, "clusterSizeMap")
           p2 == FillMap(t, "clusterChargeMap")
           p3 == FillMap(t, "seedChargeMap")
           p4 == <<<<"clusterSize", "all">>, <<"clusterCharge", "all">>>>
           p5 == If(t.inRoi, <<<<"clusterSizeMapROI", "all">>, <<"clusterSizeROI", "all">>, <<"clusterChargeROI", "all">>>>)
           each == (((p1 \o p2) \o p3) \o p4) \o p5
           T == BookedFASTPIX
<1>1. FillClusters(t) = FlattenSeq([c \in 1..n |-> each])
  BY DEF FillClusters
<1>2. n \in Nat
  <2>1. \A m \in Nat : Min({1, m}) \in Nat
    <3> TAKE m \in Nat
    <3>1. \E x \in {1, m} : \A y \in {1, m} : x <= y
      OBVIOUS
    <3>2. Min({1, m}) \in {1, m}
      BY <3>1, Zenon DEF Min
    <3> QED
      BY <3>2
  <2> QED
    BY <2>1
<1>3. Irrelevant(p1) /\ Irrelevant(p2) /\ Irrelevant(p3)
  <2>1. {"clusterSizeMap", "clusterChargeMap", "seedChargeMap"} \subseteq BookedMatrixMaps \ PassNames
    BY DEF BookedMatrixMaps, PassNames
  <2> QED
    BY <2>1, MapFillIrrelevant
<1>4. Irrelevant(p4)
  <2> DEFINE S == Plain \X {"all"}
             x == <<"clusterSize", "all">>
             y == <<"clusterCharge", "all">>
  <2>1. x \in S /\ y \in S
    BY DEF Plain
  <2> HIDE DEF S, x, y
  <2>2. <<x, y>> \in Seq(S)
    BY <2>1
  <2> QED
    BY <2>2, PlainEntries DEF S, x, y
<1>5. Irrelevant(p5)
  <2> DEFINE S == Plain \X {"all"}
             x == <<"clusterSizeMapROI", "all">>
             y == <<"clusterSizeROI", "all">>
             z == <<"clusterChargeROI", "all">>
  <2>1. x \in S /\ y \in S /\ z \in S
    BY DEF Plain
  <2> HIDE DEF S, x, y, z
  <2>2. <<x, y, z>> \in Seq(S)
    BY <2>1
  <2>3. Irrelevant(<<x, y, z>>)
    BY <2>2, PlainEntries DEF S
  <2> QED
    BY <2>3, IrrelevantIf DEF x, y, z
<1> HIDE DEF n, p1, p2, p3, p4, p5
<1>6. Irrelevant(each)
  BY <1>3, <1>4, <1>5, IrrelevantConcat
<1>7. [c \in 1..n |-> each] \in Seq(Seq(T \ Relevant)) => Irrelevant(FlattenSeq([c \in 1..n |-> each]))
  <2> DEFINE seqs == [c \in 1..n |-> each]
             S == T \ Relevant
  <2> HIDE DEF seqs, S
  <2>1. seqs \in Seq(Seq(S)) => FlattenSeq(seqs) \in Seq(S)
    BY FlattenProperties
  <2> QED
    BY <2>1, OtherEntries DEF S, seqs
<1>8. \A s : Irrelevant(s) => s \in Seq(T \ Relevant)
  <2> TAKE s
  <2> SUFFICES ASSUME Irrelevant(s) PROVE s \in Seq(T \ Relevant)
    OBVIOUS
  <2>1. s \in Seq(T) /\ \A name \in PassNames : Count(s, InPixel(name)) = 0
    BY DEF Irrelevant
  <2>2. \A k \in DOMAIN s : s[k] \notin Relevant
    <3> SUFFICES ASSUME NEW k \in DOMAIN s, NEW name \in PassNames, s[k] = InPixel(name) PROVE FALSE
      BY DEF Relevant
    <3> DEFINE x == InPixel(name)
    <3>1. Count(s, x) = 0
      BY <2>1
    <3> HIDE DEF x, T
    <3>2. IsFiniteSet({j \in DOMAIN s : s[j] = x})
      BY <2>1, CountNat
    <3>3. {j \in DOMAIN s : s[j] = x} = {}
      BY <3>1, <3>2, FS_EmptySet DEF Count
    <3> QED
      BY <3>3 DEF x
  <2> DEFINE S == T \ Relevant
             m == Len(s)
  <2> HIDE DEF T
  <2>3. m \in Nat /\ DOMAIN s = 1..m /\ s = [k \in 1..m |-> s[k]] /\ \A k \in 1..m : s[k] \in T
    BY <2>1, LenProperties, ElementOfSeq
  <2>4. \A k \in 1..m : s[k] \in S
    BY <2>2, <2>3
  <2> HIDE DEF m, S
  <2> QED
    BY <2>3, <2>4, IsASeq DEF S
<1>9. [c \in 1..n |-> each] \in Seq(Seq(T \ Relevant))
  <2> DEFINE S == Seq(T \ Relevant)
  <2>1. each \in S
    BY <1>6, <1>8
  <2> HIDE DEF S, each
  <2>2. [c \in 1..n |-> each] \in Seq(S)
    BY <1>2, <2>1, IsASeq
  <2> QED
    BY <2>2 DEF S
<1> QED
  BY <1>1, <1>7, <1>9

\* A track without a trigger, without a cluster,
LEMMA NoTriggerFill ==
    ASSUME IsFiniteSet(passage.triggers)
    PROVE  Irrelevant(FillNoTrigger)
<1>1. Cardinality(passage.triggers) \in Nat
  BY FS_CardinalityType
<1>2. Irrelevant(PerTrigger("inefficientTriggerAssocDt"))
  BY <1>1, PlainMany DEF PerTrigger, Plain
<1>3. Irrelevant(<<<<"inefficientTriggerAssocTime", "all">>>>)
  BY PlainOne DEF Plain
<1> QED
  BY <1>2, <1>3, IrrelevantConcat DEF FillNoTrigger

\* a track that no cluster is associated with,
LEMMA NoClusterFill ==
    ASSUME NEW t, IsFiniteSet(passage.triggers)
    PROVE  Irrelevant(FillNoCluster(t))
<1> DEFINE missing == Cardinality({s \in passage.triggers : s.status = "missing"})
           p1 == [k \in 1..missing |-> <<"hitmapNoAssocMissing", "all">>]
           p2 == PerTrigger("inefficientAssocEventStatus")
           p3 == PerTrigger("inefficientAssocDt")
           p4 == If(t.otherClusters, <<<<"inefficientAssocDist", "all">>>>)
<1>1. Cardinality(passage.triggers) \in Nat
  BY FS_CardinalityType
<1>2. missing \in Nat
  <2>1. IsFiniteSet({s \in passage.triggers : s.status = "missing"})
    BY FS_Subset
  <2> QED
    BY <2>1, FS_CardinalityType
<1> HIDE DEF missing
<1>3. Irrelevant(p1)
  BY <1>2, PlainMany DEF Plain
<1>4. Irrelevant(p2) /\ Irrelevant(p3)
  BY <1>1, PlainMany DEF PerTrigger, Plain
<1>5. Irrelevant(p4)
  <2>1. Irrelevant(<<<<"inefficientAssocDist", "all">>>>)
    BY PlainOne DEF Plain
  <2> QED
    BY <2>1, IrrelevantIf
<1>6. FillNoCluster(t) = ((p1 \o p2) \o p3) \o p4
  BY DEF FillNoCluster, missing
<1> HIDE DEF p1, p2, p3, p4
<1> QED
  BY <1>3, <1>4, <1>5, <1>6, IrrelevantConcat

\* Entries of a track in the maps of a pixel: as many for a trigger of its time as there
\* are for a trigger at all, and one for a cluster or for none.
Balanced(s) ==
    /\ s \in Seq(BookedFASTPIX)
    /\ Count(s, InPixel("hitmapTriggerAssoc")) <= Count(s, InPixel("hitmapDeadtimeTrigger"))
    /\ Count(s, InPixel("hitmapAssoc")) + Count(s, InPixel("hitmapNoAssoc")) = Count(s, InPixel("hitmapDeadtime"))

\* and a track outside the dead time.
LEMMA AliveFill ==
    ASSUME NEW t, t.associated \in Nat, IsFiniteSet(passage.triggers)
    PROVE  /\ Balanced(FillAlive(t)) /\ Count(FillAlive(t), InPixel("hitmapTrigger")) = 0
           /\ Count(FillAlive(t), InPixel("hitmapDeadtimeTrigger"))
                = IF passage.triggers # {} /\ t.inRoi THEN 1 ELSE 0
<1> DEFINE triggered == passage.triggers # {}
           triggerAssoc == \E s \in passage.triggers : Abs(t.time - s.time) < chain.time_cut_trigger
           assigned == t.associated > 0
           inside == t.inRoi
           B == BookedFASTPIX
           p1 == FillMap(t, "hitmapDeadtime")
           p2 == FillEither(t, triggered, "hitmapDeadtimeTrigger", "hitmapDeadtimeNoTrigger")
           p3 == FillEither(t, triggerAssoc, "hitmapTriggerAssoc", "hitmapNoTriggerAssoc")
           p4 == If(t.inRoi /\ ~triggerAssoc, FillNoTrigger)
           p5 == FillEither(t, assigned, "hitmapAssoc", "hitmapNoAssoc")
           p6 == If(t.inRoi /\ ~assigned, FillNoCluster(t))
           p7 == FillClusters(t)
<1>1. FillAlive(t) = (((((p1 \o p2) \o p3) \o p4) \o p5) \o p6) \o p7
  BY DEF FillAlive
<1>2. {"hitmapDeadtime", "hitmapDeadtimeTrigger", "hitmapDeadtimeNoTrigger", "hitmapTriggerAssoc",
       "hitmapNoTriggerAssoc", "hitmapAssoc", "hitmapNoAssoc"} \subseteq BookedMatrixMaps
  BY DEF BookedMatrixMaps
<1>3. triggerAssoc => triggered
  OBVIOUS
<1>4. MapEntries(p1, "hitmapDeadtime", inside)
  BY <1>2, MapFill
<1>5. \/ triggered /\ MapEntries(p2, "hitmapDeadtimeTrigger", inside)
      \/ ~triggered /\ MapEntries(p2, "hitmapDeadtimeNoTrigger", inside)
  BY <1>2, EitherFill
<1>6. \/ triggerAssoc /\ MapEntries(p3, "hitmapTriggerAssoc", inside)
      \/ ~triggerAssoc /\ MapEntries(p3, "hitmapNoTriggerAssoc", inside)
  <2> HIDE DEF triggerAssoc
  <2> QED
    BY <1>2, EitherFill
<1>7. \/ assigned /\ MapEntries(p5, "hitmapAssoc", inside)
      \/ ~assigned /\ MapEntries(p5, "hitmapNoAssoc", inside)
  BY <1>2, EitherFill
<1>8. Irrelevant(p4)
  BY NoTriggerFill, IrrelevantIf
<1>9. Irrelevant(p6)
  BY NoClusterFill, IrrelevantIf
<1>10. Irrelevant(p7)
  BY ClustersFill
<1> HIDE DEF p1, p2, p3, p4, p5, p6, p7, triggered, triggerAssoc, assigned, inside, B
<1> DEFINE s2 == p1 \o p2
           s3 == s2 \o p3
           s4 == s3 \o p4
           s5 == s4 \o p5
           s6 == s5 \o p6
           s7 == s6 \o p7
<1>11. /\ p1 \in Seq(B) /\ p2 \in Seq(B) /\ p3 \in Seq(B) /\ p4 \in Seq(B) /\ p5 \in Seq(B) /\ p6 \in Seq(B)
       /\ p7 \in Seq(B)
  BY <1>4, <1>5, <1>6, <1>7, <1>8, <1>9, <1>10 DEF MapEntries, Irrelevant, B
<1>12. s2 \in Seq(B) /\ \A x : Count(s2, x) = Count(p1, x) + Count(p2, x)
  BY <1>11, CountConcat
<1>13. s3 \in Seq(B) /\ \A x : Count(s3, x) = Count(s2, x) + Count(p3, x)
  <2> HIDE DEF s2
  <2> QED BY <1>11, <1>12, CountConcat
<1>14. s4 \in Seq(B) /\ \A x : Count(s4, x) = Count(s3, x) + Count(p4, x)
  <2> HIDE DEF s3
  <2> QED BY <1>11, <1>13, CountConcat
<1>15. s5 \in Seq(B) /\ \A x : Count(s5, x) = Count(s4, x) + Count(p5, x)
  <2> HIDE DEF s4
  <2> QED BY <1>11, <1>14, CountConcat
<1>16. s6 \in Seq(B) /\ \A x : Count(s6, x) = Count(s5, x) + Count(p6, x)
  <2> HIDE DEF s5
  <2> QED BY <1>11, <1>15, CountConcat
<1>17. s7 \in Seq(B) /\ \A x : Count(s7, x) = Count(s6, x) + Count(p7, x)
  <2> HIDE DEF s6
  <2> QED BY <1>11, <1>16, CountConcat
<1>18. FillAlive(t) = s7
  BY <1>1
<1> HIDE DEF s2, s3, s4, s5, s6, s7
<1> DEFINE d(name) == Count(s7, InPixel(name))
           one(s, name) == Count(s, InPixel(name))
<1>19. \A name \in PassNames : one(p4, name) = 0 /\ one(p6, name) = 0 /\ one(p7, name) = 0
  BY <1>8, <1>9, <1>10 DEF Irrelevant
<1>20. \A name \in PassNames : /\ one(p1, name) \in Nat /\ one(p2, name) \in Nat /\ one(p3, name) \in Nat
                               /\ one(p5, name) \in Nat
  BY <1>11, CountNat
<1>21. \A name \in PassNames : d(name) = one(p1, name) + one(p2, name) + one(p3, name) + one(p5, name)
  BY <1>12, <1>13, <1>14, <1>15, <1>16, <1>17, <1>19, <1>20
<1>22. \A name \in {"hitmapTrigger", "hitmapDeadtimeTrigger", "hitmapTriggerAssoc", "hitmapAssoc", "hitmapNoAssoc",
                    "hitmapDeadtime"} : d(name) = one(p1, name) + one(p2, name) + one(p3, name) + one(p5, name)
  BY <1>21 DEF PassNames
<1>23. \A x : one(p1, x) = IF x = "hitmapDeadtime" /\ inside THEN 1 ELSE 0
  BY <1>4 DEF MapEntries
<1>24. \A x : one(p2, x) = IF x = (IF triggered THEN "hitmapDeadtimeTrigger" ELSE "hitmapDeadtimeNoTrigger") /\ inside THEN 1 ELSE 0
  BY <1>5 DEF MapEntries
<1>25. \A x : one(p3, x) = IF x = (IF triggerAssoc THEN "hitmapTriggerAssoc" ELSE "hitmapNoTriggerAssoc") /\ inside THEN 1 ELSE 0
  BY <1>6 DEF MapEntries
<1>26. \A x : one(p5, x) = IF x = (IF assigned THEN "hitmapAssoc" ELSE "hitmapNoAssoc") /\ inside THEN 1 ELSE 0
  BY <1>7 DEF MapEntries
<1>27. /\ d("hitmapTrigger") = 0
       /\ d("hitmapDeadtimeTrigger") = IF triggered /\ inside THEN 1 ELSE 0
       /\ d("hitmapTriggerAssoc") <= d("hitmapDeadtimeTrigger")
       /\ d("hitmapAssoc") + d("hitmapNoAssoc") = d("hitmapDeadtime")
  <2> HIDE DEF one, d
  <2>1. d("hitmapTrigger") = 0
    BY <1>22, <1>23, <1>24, <1>25, <1>26
  <2>2. d("hitmapDeadtimeTrigger") = IF triggered /\ inside THEN 1 ELSE 0
    BY <1>22, <1>23, <1>24, <1>25, <1>26
  <2>3. d("hitmapTriggerAssoc") = IF triggerAssoc /\ inside THEN 1 ELSE 0
    BY <1>22, <1>23, <1>24, <1>25, <1>26
  <2>4. d("hitmapAssoc") = IF assigned /\ inside THEN 1 ELSE 0
    BY <1>22, <1>23, <1>24, <1>25, <1>26
  <2>5. d("hitmapNoAssoc") = IF ~assigned /\ inside THEN 1 ELSE 0
    BY <1>22, <1>23, <1>24, <1>25, <1>26
  <2>6. d("hitmapDeadtime") = IF inside THEN 1 ELSE 0
    BY <1>22, <1>23, <1>24, <1>25, <1>26
  <2> QED
    BY <1>3, <2>1, <2>2, <2>3, <2>4, <2>5, <2>6
<1> QED
  BY <1>17, <1>18, <1>27 DEF Balanced, B, triggered, inside

\* What a track fills: an event with a trigger has entries of its own.
PassFill(s) ==
    /\ Balanced(s)
    /\ Count(s, InPixel("hitmapDeadtimeTrigger")) <= Count(s, InPixel("hitmapTrigger"))

\* A step that makes no entry of a promise keeps the balance.
LEMMA NothingFill ==
    ASSUME NEW s, Irrelevant(s)
    PROVE  PassFill(s)
BY DEF PassFill, Balanced, Irrelevant, PassNames

\* What AnalysisFASTPIX enters for a track.
LEMMA TrackPasses ==
    ASSUME FASTPIXTrack, passage.tracks \in Seq(PassingTracks), IsFiniteSet(passage.triggers)
    PROVE  \E s : Fill(s) /\ PassFill(s)
<1> DEFINE t == passage.tracks[passage.todo]
           good == t.chi2 <= chain.chi2ndof_cut
           timely == ~CutInTime(t)
           triggered == passage.triggers # {}
           alive == t.chi2 <= chain.chi2ndof_cut /\ ~CutInTime(t) /\ ~InDeadTime(t)
           inside == t.inRoi
           q == <<<<"hitmap", "all">>, <<IF t.intercept THEN "hitmapIntercept" ELSE "hitmapNoIntercept", "all">>>>
           p1 == FillMap(t, "hitmapTimecuts")
           p2 == FillEither(t, triggered, "hitmapTrigger", "hitmapNoTrigger")
           p3 == If(alive, FillAlive(t))
           B == BookedFASTPIX
<1>1. Fill(If(good, q \o If(timely, (p1 \o p2) \o p3)))
  BY DEF FASTPIXTrack
<1>2. t \in PassingTracks
  BY ElementOfSeq, LenProperties DEF FASTPIXTrack
<1>3. t.associated \in Nat /\ t.inRoi \in BOOLEAN
  BY <1>2 DEF PassingTracks
<1>4. Irrelevant(q)
  <2> DEFINE S == Plain \X {"all"}
             x == <<"hitmap", "all">>
             y == <<IF t.intercept THEN "hitmapIntercept" ELSE "hitmapNoIntercept", "all">>
  <2>1. x \in S /\ y \in S
    BY DEF Plain
  <2> HIDE DEF S, x, y
  <2>2. <<x, y>> \in Seq(S)
    BY <2>1
  <2> QED
    BY <2>2, PlainEntries DEF S, x, y
<1>5. {"hitmapTimecuts", "hitmapTrigger", "hitmapNoTrigger"} \subseteq BookedMatrixMaps
  BY DEF BookedMatrixMaps
<1>6. Irrelevant(p1)
  <2>1. "hitmapTimecuts" \in BookedMatrixMaps \ PassNames
    BY DEF BookedMatrixMaps, PassNames
  <2> QED
    BY <2>1, MapFillIrrelevant
<1>7. \/ triggered /\ MapEntries(p2, "hitmapTrigger", inside)
      \/ ~triggered /\ MapEntries(p2, "hitmapNoTrigger", inside)
  BY <1>5, EitherFill
<1>8. /\ Balanced(FillAlive(t)) /\ Count(FillAlive(t), InPixel("hitmapTrigger")) = 0
      /\ Count(FillAlive(t), InPixel("hitmapDeadtimeTrigger")) = IF triggered /\ inside THEN 1 ELSE 0
  <2> HIDE DEF t
  <2> QED
    BY <1>3, AliveFill
<1> HIDE DEF t, q, p1, p2, good, timely, triggered, alive, B
<1>9. /\ p3 \in Seq(B)
      /\ Count(p3, InPixel("hitmapTriggerAssoc")) <= Count(p3, InPixel("hitmapDeadtimeTrigger"))
      /\ Count(p3, InPixel("hitmapAssoc")) + Count(p3, InPixel("hitmapNoAssoc")) = Count(p3, InPixel("hitmapDeadtime"))
      /\ Count(p3, InPixel("hitmapTrigger")) = 0
      /\ Count(p3, InPixel("hitmapDeadtimeTrigger")) <= IF triggered /\ inside THEN 1 ELSE 0
  <2> DEFINE r == FillAlive(t)
  <2>1. r \in Seq(B)
    BY <1>8 DEF Balanced, B
  <2> HIDE DEF r
  <2>2. p3 \in Seq(B) /\ \A x : Count(p3, x) = IF alive THEN Count(r, x) ELSE 0
    BY <2>1, IfNames DEF r
  <2> HIDE DEF p3
  <2> QED
    BY <1>8, <2>2 DEF Balanced, r
<1> HIDE DEF p3, inside
<1>10. /\ p2 \in Seq(B)
       /\ Count(p2, InPixel("hitmapTrigger")) = IF triggered /\ inside THEN 1 ELSE 0
       /\ \A name \in PassNames \ {"hitmapTrigger"} : Count(p2, InPixel(name)) = 0
  BY <1>7 DEF MapEntries, B, PassNames
<1> DEFINE s2 == p1 \o p2
           s3 == s2 \o p3
<1>11. s2 \in Seq(B) /\ \A x : Count(s2, x) = Count(p1, x) + Count(p2, x)
  BY <1>6, <1>10, CountConcat DEF Irrelevant, B
<1>12. s3 \in Seq(B) /\ \A x : Count(s3, x) = Count(s2, x) + Count(p3, x)
  <2> HIDE DEF s2
  <2> QED BY <1>9, <1>11, CountConcat
<1>13. /\ \A name \in PassNames : Count(p1, InPixel(name)) = 0
       /\ \A name \in PassNames : Count(p3, InPixel(name)) \in Nat
  BY <1>6, <1>9, CountNat DEF Irrelevant
<1>14. /\ \A name \in PassNames \ {"hitmapTrigger"} : Count(s3, InPixel(name)) = Count(p3, InPixel(name))
       /\ Count(s3, InPixel("hitmapTrigger")) = IF triggered /\ inside THEN 1 ELSE 0
  <2>1. \A name \in PassNames : Count(s3, InPixel(name)) = Count(p2, InPixel(name)) + Count(p3, InPixel(name))
    <3>1. \A name \in PassNames : Count(p2, InPixel(name)) \in Nat
      BY <1>10, CountNat
    <3> HIDE DEF s2, s3
    <3> QED
      BY <1>11, <1>12, <1>13, <3>1
  <2> HIDE DEF s3
  <2>2. "hitmapTrigger" \in PassNames
    BY DEF PassNames
  <2> QED
    BY <1>9, <1>10, <1>13, <2>1, <2>2
<1>15. PassFill(s3)
  <2> HIDE DEF s3
  <2> QED
    BY <1>9, <1>12, <1>14 DEF PassFill, Balanced, PassNames, B
<1> HIDE DEF s2, s3
<1>16. PassFill(If(timely, s3))
  <2>1. CASE timely
    BY <1>15, <2>1 DEF If
  <2>2. CASE ~timely
    BY <2>2, IrrelevantEmpty, NothingFill DEF If
  <2> QED
    BY <2>1, <2>2
<1> DEFINE r == If(timely, s3)
<1>17. PassFill(q \o r)
  <2> HIDE DEF r
  <2>1. r \in Seq(B) /\ q \in Seq(B)
    BY <1>4, <1>16 DEF r, PassFill, Balanced, Irrelevant, B
  <2>2. q \o r \in Seq(B) /\ \A x : Count(q \o r, x) = Count(q, x) + Count(r, x)
    BY <2>1, CountConcat
  <2>3. \A name \in PassNames : Count(q, InPixel(name)) = 0 /\ Count(r, InPixel(name)) \in Nat
    BY <1>4, <2>1, CountNat DEF Irrelevant
  <2>4. \A name \in PassNames : Count(q \o r, InPixel(name)) = Count(r, InPixel(name))
    BY <2>2, <2>3
  <2>5. PassFill(r)
    BY <1>16 DEF r
  <2> QED
    BY <2>2, <2>4, <2>5 DEF PassFill, Balanced, PassNames, B
<1> HIDE DEF r
<1>18. PassFill(If(good, q \o r))
  <2>1. CASE good
    BY <1>17, <2>1 DEF If
  <2>2. CASE ~good
    BY <2>2, IrrelevantEmpty, NothingFill DEF If
  <2> QED
    BY <2>1, <2>2
<1>19. Fill(If(good, q \o r))
  BY <1>1 DEF r, s3, s2
<1> QED
  BY <1>18, <1>19

DeadtimeCounts ==
    chain.module = "AnalysisFASTPIX" /\ at # "initialize" =>
        /\ DOMAIN filled = BookedFASTPIX /\ \A h \in BookedFASTPIX : filled[h] \in Nat
        /\ filled[InPixel("hitmapTriggerAssoc")] <= filled[InPixel("hitmapDeadtimeTrigger")]
        /\ filled[InPixel("hitmapDeadtimeTrigger")] <= filled[InPixel("hitmapTrigger")]
        /\ filled[InPixel("hitmapAssoc")] + filled[InPixel("hitmapNoAssoc")] = filled[InPixel("hitmapDeadtime")]

\* The histograms of the promises are booked.
LEMMA RelevantBooked == Relevant \subseteq BookedFASTPIX
<1> SUFFICES ASSUME NEW name \in PassNames PROVE InPixel(name) \in BookedFASTPIX
  BY DEF Relevant
<1>1. name \in BookedMatrixMaps
  BY DEF PassNames, BookedMatrixMaps
<1> QED
  BY <1>1 DEF BookedFASTPIX, InPixel

\* Every step keeps the balance of the histograms.
LEMMA DeadtimeCountsStep ==
    ASSUME LoopInv, PassageInv, DeadtimeCounts, [Next]_vars
    PROVE  DeadtimeCounts'
<1> SUFFICES ASSUME chain.module = "AnalysisFASTPIX", at' # "initialize" PROVE DeadtimeCounts'
  BY LoopKept DEF DeadtimeCounts
<1>1. filled' = filled /\ at # "initialize" => DeadtimeCounts'
  BY DEF DeadtimeCounts
<1>2. CASE Initialize
  <2>1. filled' = [h \in BookedFASTPIX |-> 0]
    BY <1>2 DEF Initialize, Booked, Books
  <2>2. \A name \in PassNames : filled'[InPixel(name)] = 0
    BY <2>1, RelevantBooked DEF Relevant
  <2> HIDE DEF BookedFASTPIX
  <2>3. DOMAIN filled' = BookedFASTPIX /\ \A h \in BookedFASTPIX : filled'[h] \in Nat
    BY <2>1
  <2> QED
    BY <2>2, <2>3 DEF DeadtimeCounts, PassNames
<1>3. CASE ~DeadtimeNext /\ ~Initialize
  <2>1. filled' = filled /\ at # "initialize"
    BY <1>3, OtherThanDeadtime DEF NextEvent, EndOfEvent
  <2> QED
    BY <1>1, <2>1
<1>4. CASE PassageArrives \/ FASTPIXTracksDone
  <2>1. filled' = filled /\ at # "initialize"
    BY <1>4 DEF PassageArrives, FASTPIXTracksDone, Proceed
  <2> QED
    BY <1>1, <2>1
<1>5. CASE FASTPIXTrack
  <2>1. at = "fastpixTracks"
    BY <1>5 DEF FASTPIXTrack, Proceed
  <2>2. PICK s : Fill(s) /\ PassFill(s)
    BY <1>5, <2>1, TrackPasses DEF PassageInv
  <2>3. DOMAIN filled = BookedFASTPIX /\ \A h \in BookedFASTPIX : filled[h] \in Nat
    BY <2>1 DEF DeadtimeCounts
  <2>4. s \in Seq(BookedFASTPIX)
    BY <2>2 DEF PassFill, Balanced
  <2> DEFINE B == BookedFASTPIX
             was(name) == filled[InPixel(name)]
             new(name) == Count(s, InPixel(name))
             is(name) == filled'[InPixel(name)]
  <2> HIDE DEF B
  <2>5. DOMAIN filled' = B /\ \A h \in B : filled'[h] = filled[h] + Count(s, h) /\ filled[h] \in Nat
    BY <2>2, <2>3, <2>4, FillCounts DEF B
  <2>6. \A h \in B : Count(s, h) \in Nat
    BY <2>4, CountNat DEF B
  <2>7. \A h \in B : filled'[h] \in Nat
    BY <2>5, <2>6
  <2>8. \A name \in PassNames : is(name) = was(name) + new(name) /\ was(name) \in Nat /\ new(name) \in Nat
    <3>1. \A name \in PassNames : InPixel(name) \in B
      BY RelevantBooked DEF Relevant, B
    <3> QED
      BY <2>5, <2>6, <3>1
  <2>9. /\ was("hitmapTriggerAssoc") <= was("hitmapDeadtimeTrigger")
        /\ was("hitmapDeadtimeTrigger") <= was("hitmapTrigger")
        /\ was("hitmapAssoc") + was("hitmapNoAssoc") = was("hitmapDeadtime")
    BY <2>1 DEF DeadtimeCounts
  <2>10. /\ new("hitmapTriggerAssoc") <= new("hitmapDeadtimeTrigger")
         /\ new("hitmapDeadtimeTrigger") <= new("hitmapTrigger")
         /\ new("hitmapAssoc") + new("hitmapNoAssoc") = new("hitmapDeadtime")
    BY <2>2 DEF PassFill, Balanced
  <2>11. /\ is("hitmapTriggerAssoc") <= is("hitmapDeadtimeTrigger")
         /\ is("hitmapDeadtimeTrigger") <= is("hitmapTrigger")
         /\ is("hitmapAssoc") + is("hitmapNoAssoc") = is("hitmapDeadtime")
    <3> HIDE DEF was, new, is
    <3> QED
      BY <2>8, <2>9, <2>10 DEF PassNames
  <2> QED
    BY <2>5, <2>7, <2>11 DEF DeadtimeCounts, B
<1> QED
  BY <1>2, <1>3, <1>4, <1>5 DEF DeadtimeNext, DeadtimeStep

\* AnalysisFASTPIX keeps its invariant in every run.
LEMMA DeadtimeInvCorrect == Spec => [](PassageInv /\ DeadtimeHistory /\ DeadtimeCounts)
<1> DEFINE Inv == PassageInv /\ DeadtimeHistory /\ DeadtimeCounts
<1>1. Init => Inv
  BY DeadtimeStart DEF Init, ChainInit, AnalysisInit, PassageInv, DeadtimeHistory, DeadtimeCounts
<1>2. LoopInv /\ Inv /\ [Next]_vars => Inv'
  BY PassageStep, DeadtimeHistoryStep, DeadtimeCountsStep
<1> QED
  BY <1>1, <1>2, NextLoop, PTL DEF Spec

\* No track in the dead time is counted, and of the tracks that count no more have a trigger or a cluster than there are.
LEMMA DeadtimeCorrect == Spec => []DeadTimeRespected
<1>1. PassageInv /\ DeadtimeHistory /\ DeadtimeCounts => DeadTimeRespected
  <2> SUFFICES ASSUME PassageInv, DeadtimeHistory, DeadtimeCounts,
                      chain.module = "AnalysisFASTPIX", at # "initialize"
               PROVE  DeadTimeRespected
    BY DEF DeadTimeRespected
  <2>1. \A t \in counted, s \in seen : ~(t - s > chain.time_cut_trigger /\ t - s < chain.time_cut_deadtime)
    BY DEF DeadtimeHistory, Known, Dead
  <2>2. /\ filled[<<"hitmapTriggerAssoc", "inpix">>] <= filled[<<"hitmapDeadtimeTrigger", "inpix">>]
        /\ filled[<<"hitmapDeadtimeTrigger", "inpix">>] <= filled[<<"hitmapTrigger", "inpix">>]
        /\ filled[<<"hitmapAssoc", "inpix">>] + filled[<<"hitmapNoAssoc", "inpix">>]
                = filled[<<"hitmapDeadtime", "inpix">>]
    BY DEF DeadtimeCounts, InPixel
  <2> QED
    BY <2>1, <2>2 DEF DeadTimeRespected
<1> QED
  BY <1>1, DeadtimeInvCorrect, PTL

\* For every chain: the cut flows of AnalysisEfficiency and AnalysisDUT add up, both have
\* the same tracks if their cuts are the same, and AnalysisFASTPIX counts no track that
\* came while the oscilloscope was dead from a trigger of this or of an earlier event.
THEOREM AnalysesCorrect == Spec => []AnalysesAgree
<1>1. AnalysesAgree <=> CutFlowBalances /\ ResidualFlowBalances /\ SameTracks /\ DeadTimeRespected
  BY DEF AnalysesAgree
<1> QED
  BY <1>1, DUTCorrect, SameTracksCorrect, DeadtimeCorrect, PTL

-----------------------------------------------------------------------------
(* Prealignment *)

\* The sum over a part of a sequence.
PartSums(seq) ==
    CHOOSE iter : iter = [s \in SUBSET DOMAIN seq |->
        IF s = {} THEN 0 ELSE seq[AnyOf(s)] + iter[s \ {AnyOf(s)}]]

\* A sum is built up from partial sums,
LEMMA SumSteps ==
    ASSUME NEW seq \in Seq(Int)
    PROVE  /\ SumOf(seq) = PartSums(seq)[DOMAIN seq]
           /\ PartSums(seq)[{}] = 0
           /\ \A s \in (SUBSET DOMAIN seq) \ {{}} :
                  PartSums(seq)[s] = seq[AnyOf(s)] + PartSums(seq)[s \ {AnyOf(s)}]
<1> DEFINE D == DOMAIN seq
           pick == [s \in (SUBSET D) \ {{}} |-> AnyOf(s)]
           step == [x \in D |-> [v \in Int |-> seq[x] + v]]
<1>1. /\ pick \in [(SUBSET D) \ {{}} -> D]
      /\ \A s \in (SUBSET D) \ {{}} : pick[s] \in s
  <2>1. \A s \in (SUBSET D) \ {{}} : AnyOf(s) \in s
    BY DEF AnyOf
  <2> QED
    BY <2>1
<1>2. IsFiniteSet(D) /\ \A x \in D : seq[x] \in Int
  BY LenProperties, ElementOfSeq, FS_Interval
<1>3. step \in [D -> [Int -> Int]]
  BY <1>2
<1>4. PICK f \in [SUBSET D -> Int] : IsFold(f, D, pick, step, 0)
  <2> HIDE DEF pick, step, D
  <2>1. 0 \in Int
    OBVIOUS
  <2> QED
    BY <1>1, <1>2, <1>3, <2>1, SetFold
<1>5. \A s \in (SUBSET D) \ {{}} : f[s] = seq[pick[s]] + f[s \ {pick[s]}]
  <2> TAKE s \in (SUBSET D) \ {{}}
  <2>1. f[s] = step[pick[s]][f[s \ {pick[s]}]] /\ f[s \ {pick[s]}] \in Int /\ pick[s] \in D
    BY <1>1, <1>4 DEF IsFold
  <2> QED
    BY <2>1
<1>6. f = [s \in SUBSET D |-> IF s = {} THEN 0 ELSE seq[AnyOf(s)] + f[s \ {AnyOf(s)}]]
  <2>1. f = [s \in SUBSET D |-> f[s]] /\ f[{}] = 0
    BY <1>4 DEF IsFold
  <2>2. ASSUME NEW s \in SUBSET D
        PROVE  f[s] = IF s = {} THEN 0 ELSE seq[AnyOf(s)] + f[s \ {AnyOf(s)}]
    BY <1>5, <2>1
  <2> HIDE DEF pick, step, D
  <2> QED
    BY <2>1, <2>2, Zenon
<1> DEFINE k == PartSums(seq)
<1>7. k = [s \in SUBSET D |-> IF s = {} THEN 0 ELSE seq[AnyOf(s)] + k[s \ {AnyOf(s)}]]
  <2> HIDE DEF pick, step
  <2> QED
    BY <1>6, Zenon DEF PartSums
<1> HIDE DEF k
<1>8. k[{}] = 0
  BY <1>7
<1>9. \A s \in (SUBSET D) \ {{}} : k[s] = seq[AnyOf(s)] + k[s \ {AnyOf(s)}]
  BY <1>7, Zenon
<1>10. SumOf(seq) = k[DOMAIN seq]
  BY Zenon DEF SumOf, FoldSeq, FoldFunction, FoldFunctionOnSet, MapThenFoldSet, PartSums, AnyOf, k
<1> QED
  BY <1>8, <1>9, <1>10 DEF k

\* so that it moves by d for each of its terms.
LEMMA SumShifted ==
    ASSUME NEW seq \in Seq(Int), NEW d \in Int
    PROVE  /\ SumOf(seq) \in Int
           /\ SumOf([k \in DOMAIN seq |-> seq[k] - d]) = SumOf(seq) - Len(seq) * d
<1> DEFINE moved == [k \in DOMAIN seq |-> seq[k] - d]
           D == DOMAIN seq
           f == PartSums(seq)
           g == PartSums(moved)
           n == Len(seq)
           P == {s \in SUBSET D : f[s] \in Int /\ g[s] = f[s] - Cardinality(s) * d}
           pick == [s \in (SUBSET D) \ {{}} |-> AnyOf(s)]
<1>1. D = 1..n /\ n \in Nat /\ IsFiniteSet(D) /\ Cardinality(D) = n /\ \A x \in D : seq[x] \in Int
  <2>1. D = 1..n /\ n \in Nat
    BY LenProperties
  <2> HIDE DEF D, n
  <2>2. IsFiniteSet(1..n) /\ Cardinality(1..n) = n
    BY <2>1, FS_Interval
  <2>3. \A x \in 1..n : seq[x] \in Int
    BY ElementOfSeq DEF n
  <2> QED
    BY <2>1, <2>2, <2>3
<1>2. moved \in Seq(Int) /\ DOMAIN moved = D /\ \A x \in D : moved[x] = seq[x] - d
  BY <1>1, IsASeq
<1> HIDE DEF moved, f, g, n
<1>3. /\ SumOf(seq) = f[D] /\ f[{}] = 0
      /\ \A s \in (SUBSET D) \ {{}} : f[s] = seq[AnyOf(s)] + f[s \ {AnyOf(s)}]
  BY SumSteps DEF f
<1>4. /\ SumOf(moved) = g[D] /\ g[{}] = 0
      /\ \A s \in (SUBSET D) \ {{}} : g[s] = moved[AnyOf(s)] + g[s \ {AnyOf(s)}]
  BY <1>2, SumSteps DEF g
<1>5. {} \in P
  <2>1. Cardinality({}) = 0 /\ 0 * d = 0
    <3>1. \A i \in Int : 0 * i = 0
      OBVIOUS
    <3> QED
      BY <3>1, FS_EmptySet
  <2> DEFINE none == Cardinality({}) * d
  <2>2. none = 0
    BY <2>1, Zenon
  <2> HIDE DEF none
  <2>3. g[{}] = f[{}] - none
    BY <1>3, <1>4, <2>2
  <2> QED
    BY <1>3, <2>3 DEF none
<1>6. \A s \in (SUBSET D) \ {{}} : pick[s] \in s /\ (s \ {pick[s]} \in P => s \in P)
  <2> TAKE s \in (SUBSET D) \ {{}}
  <2> DEFINE x == AnyOf(s)
             rest == s \ {x}
  <2>1. pick[s] = x /\ x \in s /\ x \in D
    BY DEF AnyOf
  <2>2. f[s] = seq[x] + f[rest] /\ g[s] = moved[x] + g[rest]
    BY <1>3, <1>4
  <2>3. Cardinality(rest) = Cardinality(s) - 1 /\ Cardinality(s) \in Nat
    <3>1. IsFiniteSet(s)
      BY <1>1, FS_Subset
    <3> QED
      BY <2>1, <3>1, FS_RemoveElement, FS_CardinalityType
  <2>4. moved[x] = seq[x] - d /\ seq[x] \in Int
    BY <1>1, <1>2, <2>1
  <2> DEFINE m == Cardinality(s)
  <2> HIDE DEF x, pick, m
  <2>5. ASSUME rest \in P PROVE s \in P
    <3>1. f[rest] \in Int /\ g[rest] = f[rest] - (m - 1) * d
      BY <2>3, <2>5 DEF m
    <3>2. (m - 1) * d = m * d - d /\ m * d \in Int
      <4>1. m \in Int
        BY <2>3 DEF m
      <4>2. \A i, j \in Int : (i - 1) * j = i * j - j /\ i * j \in Int
        OBVIOUS
      <4> QED
        BY <4>1, <4>2
    <3>3. f[s] \in Int /\ g[s] = f[s] - m * d
      <4> DEFINE p == m * d
                 q == (m - 1) * d
      <4> HIDE DEF p, q
      <4>1. q = p - d /\ p \in Int /\ g[rest] = f[rest] - q
        BY <3>1, <3>2 DEF p, q
      <4>2. f[s] \in Int /\ g[s] = f[s] - p
        BY <2>2, <2>4, <3>1, <4>1
      <4> QED
        BY <4>2 DEF p
    <3> QED
      BY <3>3 DEF m
  <2> QED
    BY <2>1, <2>5
<1>7. \A s \in SUBSET D : s \in P
  <2> HIDE DEF P, pick, D
  <2>1. Inductive(P, D, pick)
    BY <1>6 DEF Inductive
  <2> QED
    BY <1>1, <1>5, <2>1, SetInduction
<1>8. D \in P
  BY <1>7
<1>9. SumOf(seq) \in Int /\ SumOf(moved) = SumOf(seq) - n * d
  BY <1>1, <1>3, <1>4, <1>8
<1> QED
  BY <1>9 DEF moved, n

\* The parameters of a chain with Prealignment, by PairsAssumption.
LEMMA PairsChain ==
    ASSUME Configured, chain.module = "Pairs"
    PROVE  /\ chain.correlation_vs_time \in BOOLEAN /\ chain.do_time_cut \in BOOLEAN
           /\ chain.time_cut \in Int /\ chain.range_abs \in Nat
           /\ chain.method \in {"mean", "maximum", "gauss_fit"} /\ chain.is_reference \in BOOLEAN
           /\ Inputs \subseteq [detector : Seq(GlobalClusters), reference : Seq(GlobalClusters)]
<1> DEFINE c == Chains[setup]
<1>1. c.module = "Pairs"
  BY ChainsAssumption DEF Configured
<1>2. c \in PairConfigurations
  BY <1>1, PairsAssumption DEF Configured
<1> HIDE DEF c
<1>3. chain = [key \in DOMAIN c \ {"inputs"} |-> c[key]] /\ Inputs = c.inputs
  BY DEF Configured, Inputs, c
<1>4. /\ DOMAIN c = {"module", "events", "correlation_vs_time", "do_time_cut", "time_cut", "range_abs",
                     "method", "is_reference", "inputs"}
      /\ c.correlation_vs_time \in BOOLEAN /\ c.do_time_cut \in BOOLEAN
      /\ c.time_cut \in Int /\ c.range_abs \in Nat
      /\ c.method \in {"mean", "maximum", "gauss_fit"} /\ c.is_reference \in BOOLEAN
      /\ c.inputs \in SUBSET [detector : Seq(GlobalClusters), reference : Seq(GlobalClusters)]
  BY <1>2 DEF PairConfigurations
<1> QED
  BY <1>3, <1>4

\* A step that is not one of Correlations or Prealignment, of a chain with these modules.
LEMMA OtherThanPairs ==
    ASSUME LoopInv, [Next]_vars, chain.module = "Pairs", ~PairNext
    PROVE  /\ UNCHANGED <<at, event, filled>> \/ Initialize \/ NextEvent
           /\ UNCHANGED pairVars
<1> USE DEF pairVars, otherVars, analysisVars, vars, chainVars, loopVars
<1>1. CASE UNCHANGED vars
  BY <1>1
<1>2. CASE Initialize
  BY <1>2 DEF Initialize
<1>3. CASE NextEvent
  BY <1>3 DEF NextEvent
<1>4. ASSUME Next, ~Initialize, ~NextEvent PROVE FALSE
  BY <1>4, NextSteps, OwnSteps DEF LoopInv
<1> QED
  BY <1>1, <1>2, <1>3, <1>4

\* What the loops have entered, and the correction written by finalize.
PairInv ==
    chain.module = "Pairs" =>
        /\ pairs_of \in [detector : Seq(GlobalClusters), reference : Seq(GlobalClusters)]
        /\ residuals \in Seq(Int)
        /\ at # "done" \/ chain.is_reference => displacement = 0
        /\ at = "done" /\ ~chain.is_reference /\ chain.method = "mean" => displacement = MeanResidual

\* The mean is that of the residuals.
LEMMA MeanSame == UNCHANGED <<residuals, chain>> => UNCHANGED <<InRange, MeanResidual>>
BY DEF InRange, MeanResidual

\* What is in range is what the mean is made of.
LEMMA RangeTypes ==
    ASSUME residuals \in Seq(Int)
    PROVE  InRange \in Seq(Int)
BY KeptHas DEF InRange

\* It is a number,
LEMMA MeanInt ==
    ASSUME residuals \in Seq(Int)
    PROVE  MeanResidual \in Int
<1> DEFINE sum == SumOf(InRange)
           n == Len(InRange)
<1>1. InRange \in Seq(Int)
  BY RangeTypes
<1>2. sum \in Int
  <2>1. 0 \in Int
    OBVIOUS
  <2> QED
    BY <1>1, <2>1, SumShifted
<1>3. n \in Nat /\ (InRange # <<>> => n # 0)
  BY <1>1, LenProperties, EmptySeq
<1> HIDE DEF sum, n
<1>4. n # 0 => sum \div n \in Int
  BY <1>2, <1>3
<1> QED
  BY <1>3, <1>4 DEF MeanResidual, sum, n

\* Every step of Prealignment keeps its invariant.
LEMMA PairInvStep ==
    ASSUME LoopInv, PairInv, [Next]_vars
    PROVE  PairInv'
<1> SUFFICES ASSUME chain.module = "Pairs" PROVE PairInv'
  BY LoopKept DEF PairInv
<1>1. chain' = chain /\ Configured /\ Configured'
  BY LoopKept DEF LoopInv
<1>2. /\ pairs_of \in [detector : Seq(GlobalClusters), reference : Seq(GlobalClusters)]
      /\ residuals \in Seq(Int)
      /\ at # "done" \/ chain.is_reference => displacement = 0
  BY DEF PairInv
<1>3. ASSUME UNCHANGED pairVars, at' = at \/ (at' # "done" /\ at # "done") PROVE PairInv'
  <2>1. MeanResidual' = MeanResidual
    BY <1>1, <1>3, MeanSame DEF pairVars
  <2> QED
    BY <1>1, <1>3, <2>1 DEF PairInv, pairVars
<1>4. CASE ~PairNext
  <2>1. UNCHANGED pairVars /\ (at' = at \/ Initialize \/ NextEvent)
    BY <1>4, OtherThanPairs
  <2>2. Initialize \/ NextEvent => at # "done" /\ at' # "done"
    BY DEF Initialize, NextEvent, EndOfEvent, Proceed
  <2> QED
    BY <1>3, <2>1, <2>2
<1>5. CASE PairsArrive
  <2>1. /\ pairs_of' \in Inputs /\ UNCHANGED <<residuals, displacement>>
        /\ at = "begin" /\ at' = "correlations"
    BY <1>5 DEF PairsArrive, Proceed
  <2> QED
    BY <1>1, <1>2, <2>1, PairsChain DEF PairInv
<1>6. CASE CorrelationsRun
  <2>1. UNCHANGED pairVars /\ at' # "done" /\ at # "done"
    BY <1>6 DEF CorrelationsRun, Proceed
  <2> QED
    BY <1>3, <2>1
<1>7. CASE PrealignmentRun
  <2> DEFINE near(c) == Kept(pairs_of.reference, {r \in ToSet(pairs_of.reference) : PairedInTime(c, r)})
             entries(c) == [k \in DOMAIN near(c) |-> near(c)[k].x - Global(c)]
             each == [m \in DOMAIN pairs_of.detector |-> entries(pairs_of.detector[m])]
  <2>1. /\ residuals' = residuals \o FlattenSeq(each) /\ UNCHANGED <<pairs_of, displacement>>
        /\ at = "prealignment" /\ at' = "end"
    BY <1>7 DEF PrealignmentRun, Proceed
  <2>2. pairs_of.reference \in Seq(GlobalClusters) /\ pairs_of.detector \in Seq(GlobalClusters)
    BY <1>2
  <2>3. ASSUME NEW c \in GlobalClusters PROVE entries(c) \in Seq(Int)
    <3> DEFINE n == near(c)
    <3>1. n \in Seq(GlobalClusters)
      BY <2>2, KeptHas
    <3>2. Global(c) \in Int
      BY <1>2, <2>1 DEF Global, GlobalClusters
    <3> HIDE DEF n
    <3>3. Len(n) \in Nat /\ DOMAIN n = 1..Len(n) /\ \A k \in 1..Len(n) : n[k].x \in Int
      <4>1. \A k \in 1..Len(n) : n[k] \in GlobalClusters
        BY <3>1, ElementOfSeq
      <4> QED
        BY <3>1, <4>1, LenProperties DEF GlobalClusters
    <3>4. [k \in DOMAIN n |-> n[k].x - Global(c)] \in Seq(Int)
      BY <3>2, <3>3, IsASeq
    <3> QED
      BY <3>4 DEF n
  <2> HIDE DEF entries
  <2>4. each \in Seq(Seq(Int))
    <3>1. /\ Len(pairs_of.detector) \in Nat /\ DOMAIN pairs_of.detector = 1..Len(pairs_of.detector)
          /\ \A m \in 1..Len(pairs_of.detector) : pairs_of.detector[m] \in GlobalClusters
      BY <2>2, LenProperties, ElementOfSeq
    <3> QED
      BY <2>3, <3>1, IsASeq
  <2> HIDE DEF each
  <2>5. FlattenSeq(each) \in Seq(Int)
    BY <2>4, FlattenProperties
  <2>6. residuals' \in Seq(Int)
    BY <1>2, <2>1, <2>5, ConcatProperties
  <2> QED
    BY <1>1, <1>2, <2>1, <2>6 DEF PairInv
<1>8. CASE PrealignmentFinalize
  <2>1. at = "finalize" /\ UNCHANGED <<residuals, pairs_of>> /\ at' \in {"done", "aborted"}
    BY <1>8 DEF PrealignmentFinalize, Proceed
  <2>2. displacement = 0
    BY <1>2, <2>1
  <2>3. MeanResidual' = MeanResidual
    BY <1>1, <2>1, MeanSame
  <2>4. CASE displacement' = displacement /\ (chain.is_reference \/ at' = "aborted")
    BY <1>1, <1>2, <2>1, <2>2, <2>4 DEF PairInv
  <2>5. CASE ~chain.is_reference /\ at' = "done" /\ \E shift \in Shifts : displacement' = displacement + shift
    <3>1. PICK shift \in Shifts : displacement' = displacement + shift
      BY <2>5
    <3>2. chain.method = "mean" => displacement' = MeanResidual
      <4>1. chain.method = "mean" => shift = MeanResidual
        BY <3>1 DEF Shifts
      <4> QED
        BY <1>2, <2>2, <3>1, <4>1, MeanInt
    <3> QED
      BY <1>1, <1>2, <2>1, <2>3, <2>5, <3>2 DEF PairInv
  <2> QED
    BY <1>8, <2>1, <2>4, <2>5 DEF PrealignmentFinalize, Proceed
<1> QED
  BY <1>4, <1>5, <1>6, <1>7, <1>8 DEF PairNext, PairStep

\* Prealignment keeps its invariant in every run.
LEMMA PairInvCorrect == Spec => []PairInv
<1>1. Init => PairInv
  <2>1. Init => residuals = <<>> /\ displacement = 0 /\ at = "initialize" /\ pairs_of = [detector |-> <<>>, reference |-> <<>>]
    BY DEF Init, ChainInit, AnalysisInit, PairInit
  <2>2. <<>> \in Seq(GlobalClusters) /\ <<>> \in Seq(Int)
    BY EmptySeq
  <2>3. Init => pairs_of \in [detector : Seq(GlobalClusters), reference : Seq(GlobalClusters)]
    <3> DEFINE none == <<>>
               S == Seq(GlobalClusters)
    <3>1. none \in S /\ (Init => pairs_of = [detector |-> none, reference |-> none])
      BY <2>1, <2>2
    <3> HIDE DEF none, S
    <3>2. Init => pairs_of \in [detector : S, reference : S]
      BY <3>1
    <3> QED
      BY <3>2 DEF S
  <2> QED
    BY <2>1, <2>2, <2>3 DEF PairInv
<1>2. LoopInv /\ PairInv /\ [Next]_vars => PairInv'
  BY PairInvStep
<1> QED
  BY <1>1, <1>2, NextLoop, PTL DEF Spec

\* A detector that is moved by the mean has its residuals around zero.
LEMMA PrealignmentCorrect == Spec => []PrealignmentCentres
<1>1. LoopInv /\ PairInv => PrealignmentCentres
  <2> SUFFICES ASSUME LoopInv, PairInv, chain.module = "Pairs", at = "done", ~chain.is_reference,
                      chain.method = "mean", InRange # <<>>
               PROVE  Abs(SumOf([k \in DOMAIN InRange |-> InRange[k] - displacement])) < Len(InRange)
    BY DEF PrealignmentCentres, PairInv
  <2> DEFINE n == Len(InRange)
             sum == SumOf(InRange)
             mean == sum \div n
             left == SumOf([k \in DOMAIN InRange |-> InRange[k] - displacement])
  <2>1. residuals \in Seq(Int) /\ displacement = MeanResidual
    BY DEF PairInv
  <2>2. InRange \in Seq(Int)
    BY <2>1, RangeTypes
  <2>3. displacement = mean /\ displacement \in Int
    BY <2>1, MeanInt DEF MeanResidual
  <2>4. n \in Nat \ {0}
    BY <2>2, LenProperties, EmptySeq
  <2>5. sum \in Int /\ left = sum - n * displacement
    BY <2>2, <2>3, SumShifted
  <2> HIDE DEF n, sum, left, mean
  <2>6. \A i \in Int, j \in Nat \ {0} : i - j * (i \div j) \in 0..(j - 1)
    OBVIOUS
  <2>7. left \in 0..(n - 1)
    BY <2>3, <2>4, <2>5, <2>6 DEF mean
  <2>8. Abs(left) < n
    BY <2>4, <2>7 DEF Abs
  <2> QED
    BY <2>8 DEF left, n
<1> QED
  BY <1>1, NextLoop, PairInvCorrect, PTL

-----------------------------------------------------------------------------
(* Corrections of the times of clusters *)

\* The parameters of a chain with AnalysisTimingATLASpix, by TimingAssumption.
LEMMA TimingChain ==
    ASSUME Configured, chain.module = "Timing"
    PROVE  /\ chain.raws \subseteq Int /\ chain.det.rows \in Nat /\ chain.timing_tail_cut \in Int
           /\ chain.row_correction \in {<<>>} \cup [0..(chain.det.rows - 1) -> Int]
           /\ chain.timewalk_correction \in {<<>>} \cup [chain.raws -> Int]
           /\ Inputs \subseteq [tracks : Seq(TimingTracks), clusters : Seq(Seq(TimedPixels(chain)) \ {<<>>})]
<1> DEFINE c == Chains[setup]
<1>1. c.module = "Timing" /\ setup \in DOMAIN Chains
  BY ChainsAssumption DEF Configured
<1> HIDE DEF c
<1>2. /\ DOMAIN c =
            {"module", "events", "length", "det", "masked", "chi2ndof_cut", "time_cut_frameedge",
             "raws", "high_tot_cut", "cluster_charge_cut", "cluster_size_cut",
             "timing_tail_cut", "min_entries", "calc_corrections", "row_correction",
             "timewalk_correction", "inputs"}
      /\ c.raws \subseteq Int /\ c.det.rows \in Nat /\ c.timing_tail_cut \in Int
      /\ c.row_correction \in {<<>>} \cup [0..(c.det.rows - 1) -> Int]
      /\ c.timewalk_correction \in {<<>>} \cup [c.raws -> Int]
      /\ c.inputs \subseteq [tracks : Seq(TimingTracks), clusters : Seq(Seq(TimedPixels(c)) \ {<<>>})]
  BY <1>1, TimingAssumption DEF c
<1>3. chain = [key \in DOMAIN c \ {"inputs"} |-> c[key]] /\ Inputs = c.inputs
  BY DEF Configured, Inputs, c
<1>4. /\ chain.raws = c.raws /\ chain.det = c.det /\ chain.timing_tail_cut = c.timing_tail_cut
      /\ chain.row_correction = c.row_correction /\ chain.timewalk_correction = c.timewalk_correction
  BY <1>2, <1>3
<1>5. TimedPixels(chain) = TimedPixels(c)
  BY <1>4 DEF TimedPixels
<1> HIDE DEF TimedPixels
<1> QED
  BY <1>2, <1>3, <1>4, <1>5

\* A step that is not one of AnalysisTimingATLASpix, of a chain with this module.
LEMMA OtherThanTiming ==
    ASSUME LoopInv, [Next]_vars, chain.module = "Timing", ~TimingNext
    PROVE  /\ UNCHANGED <<at, event, filled>> \/ Initialize \/ NextEvent
           /\ UNCHANGED <<timing, track_nr>>
<1> USE DEF timingVars, otherVars, analysisVars, vars, chainVars, loopVars
<1>1. CASE UNCHANGED vars
  BY <1>1
<1>2. CASE Initialize
  BY <1>2 DEF Initialize
<1>3. CASE NextEvent
  BY <1>3 DEF NextEvent
<1>4. ASSUME Next, ~Initialize, ~NextEvent PROVE FALSE
  BY <1>4, NextSteps, OwnSteps DEF LoopInv
<1> QED
  BY <1>1, <1>2, <1>3, <1>4

\* A cluster has an earliest pixel.
LEMMA EarliestOf ==
    ASSUME NEW s \in Seq(Int), s # <<>>
    PROVE  LET times == {s[k] : k \in DOMAIN s}
           IN  Earliest(times) \in times /\ \A t \in times : Earliest(times) <= t
<1> DEFINE n == Len(s)
           P == {i \in 0..n : i = 0 \/ \E k \in 1..i : \A l \in 1..i : s[k] <= s[l]}
<1>1. n \in Nat \ {0} /\ DOMAIN s = 1..n
  BY LenProperties, EmptySeq
<1>2. \A k \in 1..n : s[k] \in Int
  BY ElementOfSeq
<1> HIDE DEF n
<1>3. 0 \in P
  BY <1>1
<1>4. \A i \in 1..n : i - 1 \in P => i \in P
  <2> TAKE i \in 1..n
  <2> HAVE i - 1 \in P
  <2>1. i \in 0..n /\ 1..i = (1..(i - 1)) \cup {i}
    BY <1>1
  <2>2. CASE i - 1 = 0
    <3>1. i = 1 /\ 1..i = {1}
      BY <2>1, <2>2
    <3>2. \A l \in 1..i : s[1] <= s[l]
      BY <1>2, <3>1
    <3> QED
      BY <2>1, <3>1, <3>2
  <2>3. CASE i - 1 # 0
    <3>1. PICK k \in 1..(i - 1) : \A l \in 1..(i - 1) : s[k] <= s[l]
      BY <2>3
    <3>2. s[k] \in Int /\ s[i] \in Int /\ \A l \in 1..(i - 1) : s[l] \in Int
      BY <1>1, <1>2, <2>1, <3>1
    <3>3. CASE s[k] <= s[i]
      <4>1. k \in 1..i /\ \A l \in 1..i : s[k] <= s[l]
        BY <2>1, <3>1, <3>3
      <4> QED
        BY <2>1, <4>1
    <3>4. CASE ~(s[k] <= s[i])
      <4>1. \A l \in 1..(i - 1) : s[i] <= s[l]
        BY <3>1, <3>2, <3>4
      <4>2. i \in 1..i /\ \A l \in 1..i : s[i] <= s[l]
        BY <2>1, <3>2, <4>1
      <4> QED
        BY <2>1, <4>2
    <3> QED
      BY <3>3, <3>4
  <2> QED
    BY <2>2, <2>3
<1>5. n \in P
  <2> HIDE DEF P
  <2>1. \A i \in 0..n : i \in P
    BY <1>1, <1>3, <1>4, UpTo
  <2> QED
    BY <1>1, <2>1
<1>6. \E k \in 1..n : \A l \in 1..n : s[k] <= s[l]
  BY <1>1, <1>5
<1> DEFINE times == {s[k] : k \in DOMAIN s}
<1>7. \E t \in times : \A u \in times : t <= u
  BY <1>1, <1>6
<1> HIDE DEF times
<1>8. Earliest(times) \in times /\ \A t \in times : Earliest(times) <= t
  BY <1>7 DEF Earliest
<1> QED
  BY <1>8 DEF times

\* A cluster has the time of its earliest pixel.
TimedRight(c) ==
    LET times == {p.time : p \in ToSet(c.pixels)}
    IN  c.time \in times /\ \A t \in times : c.time <= t

PixelSeqs == Seq(TimedPixels(chain)) \ {<<>>}

\* A cluster made of its pixels has the time of the earliest.
LEMMA TimedClusters ==
    ASSUME NEW ps \in PixelSeqs
    PROVE  /\ TimedCluster(ps).pixels = ps
           /\ TimedRight(TimedCluster(ps))
<1> DEFINE s == [k \in DOMAIN ps |-> ps[k].time]
           times == {s[k] : k \in DOMAIN s}
           c == TimedCluster(ps)
<1>1. ps \in Seq(TimedPixels(chain)) /\ ps # <<>>
  BY DEF PixelSeqs
<1>2. Len(ps) \in Nat /\ DOMAIN ps = 1..Len(ps) /\ Len(ps) # 0
  BY <1>1, LenProperties, EmptySeq
<1>3. \A k \in 1..Len(ps) : ps[k] \in TimedPixels(chain)
  BY <1>1, ElementOfSeq
<1>4. \A k \in 1..Len(ps) : ps[k].time \in Int
  BY <1>3 DEF TimedPixels
<1>5. s \in Seq(Int) /\ s # <<>>
  <2>1. s \in Seq(Int)
    BY <1>2, <1>4, IsASeq
  <2>2. 1 \in DOMAIN s
    BY <1>2
  <2> QED
    BY <2>1, <2>2
<1>6. Earliest(times) \in times /\ \A t \in times : Earliest(times) <= t
  <2> HIDE DEF s
  <2> QED
    BY <1>5, EarliestOf
<1>7. times = {p.time : p \in ToSet(ps)}
  BY DEF ToSet
<1>8. times = {ps[k].time : k \in DOMAIN ps}
  OBVIOUS
<1>9. c.pixels = ps /\ c.time = Earliest(times)
  BY <1>8 DEF TimedCluster
<1> HIDE DEF times, c
<1> QED
  BY <1>6, <1>7, <1>9 DEF TimedRight, c

\* What the corrections are for a pixel.
RowCorrection(p) == IF chain.row_correction = <<>> THEN 0 ELSE chain.row_correction[p.row]

TimewalkCorrection(p) == IF chain.timewalk_correction = <<>> THEN 0 ELSE chain.timewalk_correction[p.raw]

\* Corrections are numbers.
LEMMA CorrectionsInt ==
    ASSUME Configured, chain.module = "Timing", NEW p \in TimedPixels(chain)
    PROVE  RowCorrection(p) \in Int /\ TimewalkCorrection(p) \in Int
BY TimingChain DEF RowCorrection, TimewalkCorrection, TimedPixels

\* A correction of every pixel of a cluster.
LEMMA CorrectedCluster ==
    ASSUME NEW c, c.pixels \in PixelSeqs, NEW correction,
           \A k \in DOMAIN c.pixels : correction[k] \in Int
    PROVE  LET ps == [k \in DOMAIN c.pixels |-> [c.pixels[k] EXCEPT !.time = @ + correction[k]]]
           IN  /\ ps \in PixelSeqs
               /\ correctClusterTimestamp(c, correction) = TimedCluster(ps)
<1> DEFINE s == c.pixels
           ps == [k \in DOMAIN s |-> [s[k] EXCEPT !.time = @ + correction[k]]]
<1>1. s \in Seq(TimedPixels(chain)) /\ s # <<>>
  BY DEF PixelSeqs
<1>2. Len(s) \in Nat /\ DOMAIN s = 1..Len(s) /\ Len(s) # 0
  BY <1>1, LenProperties, EmptySeq
<1>3. \A k \in 1..Len(s) : s[k] \in TimedPixels(chain)
  BY <1>1, ElementOfSeq
<1>4. \A k \in 1..Len(s) : [s[k] EXCEPT !.time = @ + correction[k]] \in TimedPixels(chain)
  <2> TAKE k \in 1..Len(s)
  <2>1. \A p \in TimedPixels(chain), d \in Int : [p EXCEPT !.time = @ + d] \in TimedPixels(chain)
    BY DEF TimedPixels
  <2>2. correction[k] \in Int
    BY <1>2
  <2> QED
    BY <1>3, <2>1, <2>2
<1>5. ps \in Seq(TimedPixels(chain))
  BY <1>2, <1>4, IsASeq
<1>6. ps # <<>>
  <2>1. 1 \in DOMAIN ps
    BY <1>2
  <2> QED
    BY <2>1
<1>7. correctClusterTimestamp(c, correction) = TimedCluster(ps)
  BY DEF correctClusterTimestamp
<1> QED
  BY <1>5, <1>6, <1>7 DEF PixelSeqs

\* What a cluster has after both corrections.
LEMMA BothCorrections ==
    ASSUME Configured, chain.module = "Timing", NEW c, c.pixels \in PixelSeqs, TimedRight(c)
    PROVE  LET r == TimewalkCorrected(RowCorrected(c))
           IN  /\ r.pixels \in PixelSeqs /\ TimedRight(r)
               /\ DOMAIN r.pixels = DOMAIN c.pixels
               /\ \A k \in DOMAIN c.pixels :
                     r.pixels[k] = [c.pixels[k] EXCEPT !.time =
                        @ + (RowCorrection(c.pixels[k]) + TimewalkCorrection(c.pixels[k]))]
<1> DEFINE s == c.pixels
           rowed == RowCorrected(c)
           t == rowed.pixels
           r == TimewalkCorrected(rowed)
<1>1. \A q \in PixelSeqs : \A k \in DOMAIN q : q[k] \in TimedPixels(chain)
  BY ElementOfSeq, LenProperties DEF PixelSeqs
<1>2. /\ t \in PixelSeqs /\ TimedRight(rowed) /\ DOMAIN t = DOMAIN s
      /\ \A k \in DOMAIN s : t[k] = [s[k] EXCEPT !.time = @ + RowCorrection(s[k])]
  <2>1. CASE chain.row_correction = <<>>
    <3>1. rowed = c
      BY <2>1 DEF RowCorrected
    <3>2. \A k \in DOMAIN s : s[k] = [s[k] EXCEPT !.time = @ + RowCorrection(s[k])]
      BY <1>1, <2>1 DEF RowCorrection, TimedPixels
    <3> HIDE DEF rowed
    <3> QED
      BY <3>1, <3>2
  <2>2. CASE chain.row_correction # <<>>
    <3> DEFINE correction == [k \in DOMAIN s |-> chain.row_correction[s[k].row]]
               ps == [k \in DOMAIN s |-> [s[k] EXCEPT !.time = @ + correction[k]]]
    <3>1. \A k \in DOMAIN s : correction[k] \in Int /\ correction[k] = RowCorrection(s[k])
      BY <1>1, <2>2, CorrectionsInt DEF RowCorrection
    <3>2. rowed = correctClusterTimestamp(c, correction)
      BY <2>2 DEF RowCorrected
    <3> HIDE DEF correction, rowed
    <3>3. ps \in PixelSeqs /\ rowed = TimedCluster(ps)
      BY <3>1, <3>2, CorrectedCluster
    <3>4. DOMAIN ps = DOMAIN s /\ \A k \in DOMAIN s : ps[k] = [s[k] EXCEPT !.time = @ + RowCorrection(s[k])]
      BY <3>1
    <3> HIDE DEF ps
    <3>5. t = ps /\ TimedRight(rowed)
      BY <3>3, TimedClusters
    <3> QED
      BY <3>3, <3>4, <3>5
  <2> QED
    BY <2>1, <2>2
<1>3. /\ r.pixels \in PixelSeqs /\ TimedRight(r) /\ DOMAIN r.pixels = DOMAIN t
      /\ \A k \in DOMAIN t : r.pixels[k] = [t[k] EXCEPT !.time = @ + TimewalkCorrection(t[k])]
  <2> HIDE DEF rowed
  <2>1. CASE chain.timewalk_correction = <<>>
    <3>1. r = rowed
      BY <2>1 DEF TimewalkCorrected
    <3>2. \A k \in DOMAIN t : t[k] = [t[k] EXCEPT !.time = @ + TimewalkCorrection(t[k])]
      BY <1>1, <1>2, <2>1 DEF TimewalkCorrection, TimedPixels
    <3> HIDE DEF r
    <3> QED
      BY <1>2, <3>1, <3>2
  <2>2. CASE chain.timewalk_correction # <<>>
    <3> DEFINE correction == [k \in DOMAIN t |-> chain.timewalk_correction[t[k].raw]]
               ps == [k \in DOMAIN t |-> [t[k] EXCEPT !.time = @ + correction[k]]]
    <3>1. \A k \in DOMAIN t : correction[k] \in Int /\ correction[k] = TimewalkCorrection(t[k])
      BY <1>1, <1>2, <2>2, CorrectionsInt DEF TimewalkCorrection
    <3>2. r = correctClusterTimestamp(rowed, correction)
      BY <2>2 DEF TimewalkCorrected
    <3> HIDE DEF correction, r
    <3>3. ps \in PixelSeqs /\ r = TimedCluster(ps)
      <4>1. t \in PixelSeqs /\ \A k \in DOMAIN t : correction[k] \in Int
        BY <1>2, <3>1
      <4> QED
        BY <3>2, <4>1, CorrectedCluster
    <3>4. DOMAIN ps = DOMAIN t /\ \A k \in DOMAIN t : ps[k] = [t[k] EXCEPT !.time = @ + TimewalkCorrection(t[k])]
      BY <3>1
    <3> HIDE DEF ps
    <3>5. r.pixels = ps /\ TimedRight(r)
      BY <3>3, TimedClusters
    <3> QED
      BY <3>3, <3>4, <3>5
  <2> QED
    BY <2>1, <2>2
<1> HIDE DEF rowed, r
<1>4. ASSUME NEW k \in DOMAIN s
      PROVE  r.pixels[k] = [s[k] EXCEPT !.time = @ + (RowCorrection(s[k]) + TimewalkCorrection(s[k]))]
  <2> DEFINE p == s[k]
             a == RowCorrection(p)
             b == TimewalkCorrection(p)
             q == [p EXCEPT !.time = @ + a]
  <2>1. p \in TimedPixels(chain) /\ a \in Int /\ b \in Int
    BY <1>1, CorrectionsInt
  <2>2. t[k] = q /\ q.raw = p.raw
    BY <1>2, <2>1 DEF TimedPixels
  <2>3. TimewalkCorrection(q) = b
    BY <2>2 DEF TimewalkCorrection
  <2>4. r.pixels[k] = [q EXCEPT !.time = @ + b]
    BY <1>2, <1>3, <2>2, <2>3
  <2> HIDE DEF a, b, p
  <2>5. [q EXCEPT !.time = @ + b] = [p EXCEPT !.time = @ + (a + b)]
    <3>1. p.time \in Int /\ (p.time + a) + b = p.time + (a + b) /\ "time" \in DOMAIN p
      BY <2>1 DEF TimedPixels
    <3> QED
      BY <3>1
  <2> QED
    BY <2>4, <2>5 DEF a, b, p
<1> QED
  BY <1>2, <1>3, <1>4 DEF rowed, r

\* Whether a track uses a cluster is the same before and after corrections.
LEMMA UseKept ==
    ASSUME NEW c, NEW d, DOMAIN c.pixels = DOMAIN d.pixels, Len(c.pixels) = Len(d.pixels),
           \A k \in DOMAIN c.pixels : c.pixels[k].raw = d.pixels[k].raw
    PROVE  ChargeAccepted(c) /\ SizeAccepted(c) <=> ChargeAccepted(d) /\ SizeAccepted(d)
<1>1. Charges(c) = Charges(d)
  BY DEF Charges
<1> QED
  BY <1>1 DEF ChargeAccepted, SizeAccepted

\* What decides whether a track uses a cluster.
GivenUsed(t, ps) ==
    /\ IsReference(t)
    /\ ChargeAccepted([pixels |-> ps]) /\ SizeAccepted([pixels |-> ps])

\* The tracks that have used a cluster so far,
UsedBy(m, k) == m \in timing.tracks[k].associated /\ GivenUsed(timing.tracks[k], timing.given[m])

Uses(m) == {k \in 1..(track_nr - 1) : UsedBy(m, k)}

\* by which all its pixels are moved, and its time with them.
ClusterMoved(m) ==
    LET c == timing.clusters[m]
        given == timing.given[m]
    IN  /\ c.pixels \in PixelSeqs /\ TimedRight(c)
        /\ DOMAIN c.pixels = DOMAIN given
        /\ \A n \in DOMAIN given :
              c.pixels[n] = [given[n] EXCEPT !.time = @ + Cardinality(Uses(m)) * (RowCorrection(given[n]) + TimewalkCorrection(given[n]))]

\* The inductive invariant of AnalysisTimingATLASpix.
TimingInv ==
    chain.module = "Timing" =>
        /\ timing \in [tracks : Seq(TimingTracks), given : Seq(PixelSeqs), clusters : {timing.clusters}]
        /\ track_nr \in Nat \ {0}
        /\ DOMAIN timing.clusters = DOMAIN timing.given
        /\ \A m \in DOMAIN timing.given : ClusterMoved(m)

\* Whether a track uses a cluster does not change with the place in the chain,
LEMMA GivenSame == chain' = chain => \A t, ps : GivenUsed(t, ps)' = GivenUsed(t, ps)
BY DEF GivenUsed, IsReference, PassedCuts, NearFrameEdge, ChargeAccepted, SizeAccepted, Charges

\* nor do the corrections.
LEMMA CorrectionSame ==
    chain' = chain => /\ \A p : RowCorrection(p)' = RowCorrection(p) /\ TimewalkCorrection(p)' = TimewalkCorrection(p)
                      /\ PixelSeqs' = PixelSeqs
BY DEF RowCorrection, TimewalkCorrection, PixelSeqs, TimedPixels

\* A track uses what it would have used before any correction.
LEMMA UsedGiven ==
    ASSUME TimingInv, chain.module = "Timing", NEW m \in DOMAIN timing.given, NEW k
    PROVE  IsUsed(timing.tracks[k], m) <=> UsedBy(m, k)
<1> DEFINE c == timing.clusters[m]
           g == [pixels |-> timing.given[m]]
<1>1. c.pixels \in PixelSeqs /\ g.pixels \in PixelSeqs /\ DOMAIN c.pixels = DOMAIN g.pixels
  BY ElementOfSeq, LenProperties DEF TimingInv, ClusterMoved
<1>2. Len(c.pixels) = Len(g.pixels)
  <2>1. c.pixels \in Seq(TimedPixels(chain)) /\ g.pixels \in Seq(TimedPixels(chain))
    BY <1>1 DEF PixelSeqs
  <2> DEFINE i == Len(c.pixels)
             j == Len(g.pixels)
  <2>2. i \in Nat /\ j \in Nat /\ 1..i = 1..j
    BY <1>1, <2>1, LenProperties
  <2> HIDE DEF i, j
  <2>3. i = j
    BY <2>2
  <2> QED
    BY <2>3 DEF i, j
<1>3. \A n \in DOMAIN c.pixels : c.pixels[n].raw = g.pixels[n].raw
  <2> TAKE n \in DOMAIN c.pixels
  <2> DEFINE p == timing.given[m][n]
  <2>1. \E t : c.pixels[n] = [p EXCEPT !.time = t]
    BY <1>1 DEF TimingInv, ClusterMoved
  <2>2. p \in TimedPixels(chain)
    BY <1>1, ElementOfSeq, LenProperties DEF PixelSeqs
  <2> QED
    BY <2>1, <2>2 DEF TimedPixels
<1> HIDE DEF c, g
<1>4. ChargeAccepted(c) /\ SizeAccepted(c) <=> ChargeAccepted(g) /\ SizeAccepted(g)
  BY <1>1, <1>2, <1>3, UseKept
<1> QED
  BY <1>4 DEF IsUsed, IsMatch, UsedBy, GivenUsed, c, g

\* The number of tracks that used a cluster, one more or the same.
LEMMA UsesGrow ==
    ASSUME chain' = chain, timing'.tracks = timing.tracks, timing'.given = timing.given,
           track_nr \in Nat \ {0}, track_nr' = track_nr + 1, NEW m
    PROVE  /\ Cardinality(Uses(m)) \in Nat
           /\ Cardinality(Uses(m))' = Cardinality(Uses(m)) + IF UsedBy(m, track_nr) THEN 1 ELSE 0
<1>1. \A k : UsedBy(m, k)' = UsedBy(m, k)
  <2> TAKE k
  <2>1. GivenUsed(timing.tracks[k], timing.given[m])' = GivenUsed(timing'.tracks[k], timing'.given[m])
    BY GivenSame
  <2> QED
    BY <2>1 DEF UsedBy
<1> DEFINE U == Uses(m)
           V == Uses(m)'
<1>2. V = (IF UsedBy(m, track_nr) THEN U \cup {track_nr} ELSE U) /\ track_nr \notin U
  <2>1. 1..((track_nr + 1) - 1) = (1..(track_nr - 1)) \cup {track_nr} /\ track_nr \notin 1..(track_nr - 1)
    OBVIOUS
  <2>2. V = {k \in 1..(track_nr' - 1) : UsedBy(m, k)}
    BY <1>1 DEF Uses
  <2> HIDE DEF V
  <2> QED
    BY <2>1, <2>2 DEF Uses
<1>3. IsFiniteSet(U)
  <2>1. IsFiniteSet(1..(track_nr - 1))
    BY FS_Interval
  <2>2. U \subseteq 1..(track_nr - 1)
    BY DEF Uses
  <2> QED
    BY <2>1, <2>2, FS_Subset
<1> HIDE DEF U, V
<1>4. Cardinality(U) \in Nat /\ (track_nr \notin U => Cardinality(U \cup {track_nr}) = Cardinality(U) + 1)
  BY <1>3, FS_CardinalityType, FS_AddElement
<1>5. Cardinality(V) = Cardinality(U) + IF UsedBy(m, track_nr) THEN 1 ELSE 0
  BY <1>2, <1>4
<1> QED
  BY <1>4, <1>5 DEF U, V

\* Every step keeps the balance of uses and corrections.
LEMMA TimingInvStep ==
    ASSUME LoopInv, TimingInv, [Next]_vars
    PROVE  TimingInv'
<1> SUFFICES ASSUME chain.module = "Timing" PROVE TimingInv'
  BY LoopKept DEF TimingInv
<1>1. chain' = chain /\ Configured /\ Configured'
  BY LoopKept DEF LoopInv
<1>2. /\ timing \in [tracks : Seq(TimingTracks), given : Seq(PixelSeqs), clusters : {timing.clusters}]
      /\ track_nr \in Nat \ {0}
      /\ DOMAIN timing.clusters = DOMAIN timing.given
      /\ \A m \in DOMAIN timing.given : ClusterMoved(m)
  BY DEF TimingInv
<1>3. ASSUME UNCHANGED <<timing, track_nr>> PROVE TimingInv'
  <2>1. \A m \in DOMAIN timing.given : ClusterMoved(m)'
    <3> TAKE m \in DOMAIN timing.given
    <3>1. ClusterMoved(m)
      BY <1>2
    <3>2. Uses(m)' = Uses(m)
      <4>1. \A k : UsedBy(m, k)' = UsedBy(m, k)
        BY <1>1, <1>3, GivenSame DEF UsedBy
      <4> QED
        BY <1>3, <4>1 DEF Uses
    <3>3. TimedRight(timing.clusters[m])' = TimedRight(timing.clusters[m])
      BY <1>3 DEF TimedRight
    <3> QED
      BY <1>1, <1>3, <3>1, <3>2, <3>3, CorrectionSame DEF ClusterMoved
  <2> QED
    BY <1>1, <1>2, <1>3, <2>1, CorrectionSame DEF TimingInv
<1>4. CASE ~TimingNext
  BY <1>3, <1>4, OtherThanTiming
<1>5. CASE TimingDone
  BY <1>3, <1>5 DEF TimingDone, timingVars
<1>6. CASE TimingFinalize
  BY <1>3, <1>6 DEF TimingFinalize
<1>7. CASE TimingArrives
  <2>1. PICK arrived \in Inputs :
            /\ timing' = [tracks |-> arrived.tracks, given |-> arrived.clusters,
                          clusters |-> [m \in DOMAIN arrived.clusters |-> TimedCluster(arrived.clusters[m])]]
            /\ track_nr' = 1
    BY <1>7 DEF TimingArrives
  <2>2. arrived.tracks \in Seq(TimingTracks) /\ arrived.clusters \in Seq(PixelSeqs)
    BY <1>1, TimingChain DEF PixelSeqs
  <2>3. ASSUME NEW m \in DOMAIN arrived.clusters PROVE ClusterMoved(m)'
    <3> DEFINE g == arrived.clusters[m]
               c == TimedCluster(g)
    <3>1. g \in PixelSeqs
      BY <2>2, ElementOfSeq, LenProperties
    <3>2. c.pixels = g /\ TimedRight(c)
      BY <3>1, TimedClusters
    <3>3. timing.clusters[m]' = c /\ timing.given[m]' = g
      BY <2>1
    <3>4. Cardinality(Uses(m))' = 0
      <4>1. Uses(m)' = {}
        <5>1. Uses(m)' \subseteq 1..(track_nr' - 1)
          BY DEF Uses
        <5>2. 1..(1 - 1) = {}
          OBVIOUS
        <5> QED
          BY <2>1, <5>1, <5>2
      <4> QED
        BY <4>1, FS_EmptySet
    <3>5. \A n \in DOMAIN g : g[n] = [g[n] EXCEPT !.time = @ + 0 * (RowCorrection(g[n]) + TimewalkCorrection(g[n]))]
      <4> TAKE n \in DOMAIN g
      <4> DEFINE p == g[n]
                 a == RowCorrection(p) + TimewalkCorrection(p)
      <4>1. p \in TimedPixels(chain)
        BY <3>1, ElementOfSeq, LenProperties DEF PixelSeqs
      <4>2. a \in Int
        BY <1>1, <4>1, CorrectionsInt
      <4> HIDE DEF p, a
      <4>3. p.time + 0 * a = p.time
        BY <4>1, <4>2 DEF TimedPixels
      <4>4. p = [p EXCEPT !.time = @ + 0 * a]
        BY <4>1, <4>3 DEF TimedPixels
      <4> QED
        BY <4>4 DEF p, a
    <3>6. /\ (timing.clusters[m].pixels)' = g
          /\ TimedRight(timing.clusters[m])'
      <4>1. TimedRight(c)'
        BY <3>2 DEF TimedRight
      <4> QED
        BY <3>2, <3>3, <4>1 DEF TimedRight
    <3> HIDE DEF g, c
    <3> QED
      BY <1>1, <3>1, <3>3, <3>4, <3>5, <3>6, CorrectionSame DEF ClusterMoved
  <2> QED
    BY <1>1, <2>1, <2>2, <2>3, CorrectionSame DEF TimingInv
<1>8. CASE TimingTrack
  <2> DEFINE t == timing.tracks[track_nr]
  <2>1. /\ track_nr \in DOMAIN timing.tracks /\ track_nr' = track_nr + 1
        /\ timing' = [timing EXCEPT !.clusters =
                [m \in DOMAIN @ |-> IF IsUsed(t, m) THEN TimewalkCorrected(RowCorrected(@[m])) ELSE @[m]]]
    BY <1>8 DEF TimingTrack
  <2>2. /\ timing'.tracks = timing.tracks /\ timing'.given = timing.given
        /\ timing' \in [tracks : Seq(TimingTracks), given : Seq(PixelSeqs), clusters : {timing'.clusters}]
        /\ DOMAIN timing'.clusters = DOMAIN timing.clusters
        /\ \A m \in DOMAIN timing.clusters : timing'.clusters[m] =
              IF IsUsed(t, m) THEN TimewalkCorrected(RowCorrected(timing.clusters[m])) ELSE timing.clusters[m]
    BY <1>2, <2>1
  <2>3. track_nr' \in Nat \ {0}
    BY <1>2, <2>1
  <2>4. ASSUME NEW m \in DOMAIN timing.given PROVE ClusterMoved(m)'
    <3> DEFINE c == timing.clusters[m]
               g == timing.given[m]
               d == timing'.clusters[m]
               u == Cardinality(Uses(m))
               v == Cardinality(Uses(m))'
               a(n) == RowCorrection(g[n]) + TimewalkCorrection(g[n])
    <3>1. /\ c.pixels \in PixelSeqs /\ TimedRight(c) /\ DOMAIN c.pixels = DOMAIN g
          /\ \A n \in DOMAIN g : c.pixels[n] = [g[n] EXCEPT !.time = @ + u * a(n)]
      BY <1>2 DEF ClusterMoved
    <3>2. u \in Nat /\ v = u + IF UsedBy(m, track_nr) THEN 1 ELSE 0
      BY <1>1, <1>2, <2>1, <2>2, UsesGrow
    <3>3. IsUsed(t, m) <=> UsedBy(m, track_nr)
      BY UsedGiven
    <3>4. \A n \in DOMAIN g : g[n] \in TimedPixels(chain) /\ a(n) \in Int
      <4> TAKE n \in DOMAIN g
      <4>1. g[n] \in TimedPixels(chain)
        <5>1. g \in PixelSeqs
          BY <1>2, ElementOfSeq, LenProperties
        <5> QED
          BY <5>1, ElementOfSeq, LenProperties DEF PixelSeqs
      <4> QED
        BY <1>1, <4>1, CorrectionsInt
    <3> HIDE DEF u, v, g
    <3>5. /\ d.pixels \in PixelSeqs /\ TimedRight(d) /\ DOMAIN d.pixels = DOMAIN g
          /\ \A n \in DOMAIN g : d.pixels[n] = [g[n] EXCEPT !.time = @ + v * a(n)]
      <4>1. CASE ~IsUsed(t, m)
        <5>1. d = c
          BY <1>2, <2>2, <4>1 DEF g
        <5>2. v = u
          BY <3>2, <3>3, <4>1
        <5> QED
          BY <3>1, <5>1, <5>2
      <4>2. CASE IsUsed(t, m)
        <5>1. d = TimewalkCorrected(RowCorrected(c))
          BY <1>2, <2>2, <4>2 DEF g
        <5>2. v = u + 1
          BY <3>2, <3>3, <4>2
        <5> HIDE DEF c, d
        <5>3. /\ d.pixels \in PixelSeqs /\ TimedRight(d)
              /\ DOMAIN d.pixels = DOMAIN c.pixels
              /\ \A k \in DOMAIN c.pixels :
                    d.pixels[k] = [c.pixels[k] EXCEPT !.time =
                        @ + (RowCorrection(c.pixels[k]) + TimewalkCorrection(c.pixels[k]))]
          BY <1>1, <3>1, <5>1, BothCorrections
        <5>4. ASSUME NEW n \in DOMAIN g
              PROVE  d.pixels[n] = [g[n] EXCEPT !.time = @ + v * a(n)]
          <6> DEFINE p == g[n]
                     q == c.pixels[n]
                     b == a(n)
          <6>1. p \in TimedPixels(chain) /\ b \in Int
            BY <3>4
          <6>2. q = [p EXCEPT !.time = @ + u * b]
            BY <3>1
          <6>3. q.row = p.row /\ q.raw = p.raw
            BY <6>1, <6>2 DEF TimedPixels
          <6>4. RowCorrection(q) + TimewalkCorrection(q) = b
            BY <6>3 DEF RowCorrection, TimewalkCorrection
          <6>5. d.pixels[n] = [q EXCEPT !.time = @ + b]
            BY <3>1, <5>3, <6>4
          <6> HIDE DEF p, q, b
          <6>6. p.time + u * b \in Int /\ (p.time + u * b) + b = p.time + v * b
            <7>1. u * b \in Int /\ v * b = u * b + b
              <8>1. \A i \in Nat, j \in Int : i * j \in Int /\ (i + 1) * j = i * j + j
                OBVIOUS
              <8> QED
                BY <3>2, <5>2, <6>1, <8>1
            <7> DEFINE w == u * b
                       z == v * b
            <7> HIDE DEF w, z
            <7>2. w \in Int /\ z = w + b /\ p.time \in Int
              BY <6>1, <7>1 DEF w, z, TimedPixels
            <7>3. p.time + w \in Int /\ (p.time + w) + b = p.time + z
              BY <6>1, <7>2
            <7> QED
              BY <7>3 DEF w, z
          <6>7. [q EXCEPT !.time = @ + b] = [p EXCEPT !.time = @ + v * b]
            <7> DEFINE x == p.time + u * b
                       y == p.time + v * b
            <7>1. x + b = y /\ q = [p EXCEPT !.time = x]
              BY <6>2, <6>6
            <7>2. "time" \in DOMAIN p
              BY <6>1 DEF TimedPixels
            <7> HIDE DEF x, y
            <7>3. [q EXCEPT !.time = @ + b] = [p EXCEPT !.time = y]
              BY <7>1, <7>2
            <7> QED
              BY <7>3 DEF y
          <6> QED
            BY <6>5, <6>7 DEF p, q, b
        <5> QED
          BY <3>1, <5>3, <5>4
      <4> QED
        BY <4>1, <4>2
    <3>6. TimedRight(timing.clusters[m])'
      <4>1. TimedRight(timing.clusters[m])' = TimedRight(timing'.clusters[m])
        BY DEF TimedRight
      <4> QED
        BY <3>5, <4>1
    <3>7. /\ (timing.clusters[m].pixels)' = d.pixels /\ (timing.given[m])' = g
          /\ Cardinality(Uses(m))' = v
      BY <2>2 DEF g, v
    <3> HIDE DEF d
    <3> QED
      BY <1>1, <3>5, <3>6, <3>7, CorrectionSame DEF ClusterMoved
  <2> QED
    BY <1>1, <1>2, <2>2, <2>3, <2>4, CorrectionSame DEF TimingInv
<1> QED
  BY <1>4, <1>5, <1>6, <1>7, <1>8 DEF TimingNext, TimingStep

\* AnalysisTimingATLASpix keeps its invariant in every run.
LEMMA TimingInvCorrect == Spec => []TimingInv
<1>1. Init => TimingInv
  <2>1. Init => /\ timing = [tracks |-> <<>>, clusters |-> <<>>, given |-> <<>>] /\ track_nr = 1
    BY DEF Init, AnalysisInit, TimingInit
  <2> DEFINE none == <<>>
             S == Seq(TimingTracks)
             T == Seq(PixelSeqs)
  <2>2. none \in S /\ none \in T /\ DOMAIN none = {}
    BY EmptySeq
  <2> HIDE DEF none, S, T
  <2>3. Init => /\ timing = [tracks |-> none, clusters |-> none, given |-> none]
                /\ timing.clusters = none /\ timing.given = none /\ track_nr = 1
    BY <2>1 DEF none
  <2>4. Init => timing \in [tracks : S, given : T, clusters : {none}]
    BY <2>2, <2>3
  <2> QED
    BY <2>2, <2>3, <2>4 DEF TimingInv, S, T
<1>2. LoopInv /\ TimingInv /\ [Next]_vars => TimingInv'
  BY TimingInvStep
<1> QED
  BY <1>1, <1>2, NextLoop, PTL DEF Spec

\* Each pixel is corrected once for each track that used its cluster.
LEMMA TimesCorrected == Spec => []CorrectedByTrack
<1>1. TimingInv => CorrectedByTrack
  <2> SUFFICES ASSUME TimingInv, chain.module = "Timing" PROVE CorrectedByTrack
    BY DEF CorrectedByTrack
  <2> DEFINE Used(m) == Cardinality({k \in 1..(track_nr - 1) : IsUsed(timing.tracks[k], m)})
             Correction(p) ==
                (IF chain.row_correction = <<>> THEN 0 ELSE chain.row_correction[p.row])
                + (IF chain.timewalk_correction = <<>> THEN 0 ELSE chain.timewalk_correction[p.raw])
  <2>1. ASSUME NEW m \in DOMAIN timing.clusters
        PROVE  /\ \A n \in DOMAIN timing.given[m] :
                    timing.clusters[m].pixels[n]
                        = [timing.given[m][n] EXCEPT !.time = @ + Used(m) * Correction(timing.given[m][n])]
               /\ TimedRight(timing.clusters[m])
    <3>1. m \in DOMAIN timing.given /\ ClusterMoved(m)
      BY DEF TimingInv
    <3>2. {k \in 1..(track_nr - 1) : IsUsed(timing.tracks[k], m)} = Uses(m)
      BY <3>1, UsedGiven DEF Uses
    <3> QED
      BY <3>1, <3>2 DEF ClusterMoved, RowCorrection, TimewalkCorrection
  <2> HIDE DEF Used, Correction
  <2> QED
    BY <2>1, Zenon DEF CorrectedByTrack, TimedRight, Used, Correction
<1> QED
  BY <1>1, TimingInvCorrect, PTL

\* What is corrected is moved by what was found.
THEOREM CorrectionsCorrect == Spec => []CorrectionsApplied
<1>1. CorrectionsApplied <=> CorrectedByTrack /\ PrealignmentCentres
  BY DEF CorrectionsApplied
<1> QED
  BY <1>1, TimesCorrected, PrealignmentCorrect, PTL

-----------------------------------------------------------------------------
(* Words of the devices *)

\* The parameters of a chain that decodes words, by WordsAssumption.
LEMMA WordsChain ==
    ASSUME Configured, chain.module = "Words"
    PROVE  \/ /\ chain.loader = "Timepix3" /\ chain.leftover \in Nat
              /\ chain.leftover = 0 \/ chain.leftover >= HeartbeatWrap
              /\ chain.steps \subseteq Nat /\ chain.delays \subseteq 0..(PixelWrap \div 2)
           \/ /\ chain.loader = "ATLASpix" /\ chain.leftover \in Nat
              /\ chain.steps \subseteq 0..(FPGALow - 1)
              /\ chain.readouts \subseteq (-1)..(ReadoutWrap \div 2)
              /\ chain.hits \subseteq (4 - HitWrap)..2
<1> DEFINE c == Chains[setup]
<1>1. c.module = "Words"
  BY ChainsAssumption DEF Configured
<1>2. c \in WordsConfigurations
  BY <1>1, WordsAssumption DEF Configured
<1> HIDE DEF c
<1>3. chain = [key \in DOMAIN c \ {"inputs"} |-> c[key]]
  BY DEF Configured, c
<1>4. \/ /\ DOMAIN c = {"module", "loader", "events", "words", "leftover", "dut", "steps", "delays", "inputs"}
         /\ c.loader = "Timepix3" /\ c.leftover \in Nat
         /\ c.leftover = 0 \/ c.leftover >= HeartbeatWrap
         /\ c.steps \subseteq Nat /\ c.delays \subseteq 0..(PixelWrap \div 2)
      \/ /\ DOMAIN c = {"module", "loader", "events", "words", "leftover", "steps", "readouts", "hits", "inputs"}
         /\ c.loader = "ATLASpix" /\ c.leftover \in Nat
         /\ c.steps \subseteq 0..(FPGALow - 1)
         /\ c.readouts \subseteq (-1)..(ReadoutWrap \div 2)
         /\ c.hits \subseteq (4 - HitWrap)..2
  BY <1>2 DEF WordsConfigurations
<1> QED
  BY <1>3, <1>4

\* A step that is not one of the loader, of a chain that decodes words.
LEMMA OtherThanWords ==
    ASSUME LoopInv, [Next]_vars, chain.module = "Words", ~DecodingNext
    PROVE  /\ UNCHANGED at \/ Initialize \/ NextEvent
           /\ UNCHANGED decodingVars
<1> USE DEF decodingVars, loadingVars, otherVars, analysisVars, vars, chainVars, loopVars
<1>1. CASE UNCHANGED vars
  BY <1>1
<1>2. CASE Initialize
  BY <1>2 DEF Initialize
<1>3. CASE NextEvent
  BY <1>3 DEF NextEvent
<1>4. ASSUME Next, ~Initialize, ~NextEvent PROVE FALSE
  BY <1>4, NextSteps, OwnSteps DEF LoopInv
<1> QED
  BY <1>1, <1>2, <1>3, <1>4

Timepix3Clocks ==
    [time : Nat, trigger : Nat, old : BOOLEAN, beat : Nat, halves : [low : Nat, high : Nat],
     read : [number : Nat, time : Nat], kept : BOOLEAN]

Timepix3Decoders ==
    [syncTime : Nat, clearedHeader : BOOLEAN, syncTimeTDC : Nat, TDCoverflow : Nat,
     prevTriggerNumber : Nat, triggerOverflow : Nat, shutterOpen : BOOLEAN]

\* The decoder has the halves of the heartbeat, and waits for the run to begin; a half of
\* the run before that is left over is of the first moments of a period.
HeartbeatFound ==
    /\ decoder.syncTime = High(clock.halves.high, HeartbeatWrap) + (clock.halves.low % HeartbeatWrap)
    /\ clock.old => /\ clock.time >= HeartbeatWrap /\ clock.beat >= HeartbeatWrap
                    /\ ~decoder.clearedHeader
    /\ decoder.clearedHeader =>
            (clock.halves.low <= clock.time \/ clock.halves.low % PixelWrap < EarlyRun)

\* What is read of the triggers is not later than the device; overflows are counted as long
\* as none was missed.
TriggersCounted ==
    /\ ~decoder.clearedHeader => clock.read.number = 0 /\ clock.read.time = 0
    /\ clock.read.number <= clock.trigger /\ clock.read.time <= clock.time
    /\ clock.kept => /\ decoder.prevTriggerNumber + decoder.triggerOverflow * TriggerWrap = clock.read.number
                     /\ decoder.prevTriggerNumber < TriggerWrap
                     /\ decoder.syncTimeTDC + decoder.TDCoverflow * TDCWrap = clock.read.time
                     /\ decoder.syncTimeTDC < TDCWrap

Timepix3Inv ==
    /\ clock \in Timepix3Clocks /\ decoder \in Timepix3Decoders
    /\ HeartbeatFound /\ TriggersCounted

\* The high bits of a time are below it, by less than their width.
LEMMA Highs ==
    ASSUME NEW a \in Nat, NEW b \in Nat
    PROVE  LET h == High(a, HeartbeatWrap)
               l == b % HeartbeatWrap
           IN  /\ h \in Nat /\ l \in Nat /\ h <= a /\ l <= b /\ l < HeartbeatWrap
               /\ High(h + l, HeartbeatWrap) = h /\ (h + l) % HeartbeatWrap = l
               /\ h = High(b, HeartbeatWrap) => h + l = b
               /\ a >= HeartbeatWrap => h >= HeartbeatWrap
               /\ l % PixelWrap = b % PixelWrap
BY DEF High, HeartbeatWrap, PixelWrap

\* The first half of a heartbeat is of the time it was sent,
LEMMA HeartbeatLowKept ==
    ASSUME Timepix3Inv, Configured, chain.module = "Words", HeartbeatLow
    PROVE  Timepix3Inv' /\ decoded' = Nothing
<1>1. chain.steps \subseteq Nat
  BY WordsChain DEF HeartbeatLow, Send
<1>2. PICK step \in chain.steps :
        LET t == clock.time + step
        IN  \/ /\ clock' = [clock EXCEPT !.time = t, !.beat = t, !.halves.low = t]
               /\ decoder' = [decoder EXCEPT !.syncTime = High(@, HeartbeatWrap) + (t % HeartbeatWrap)]
            \/ clock' = [clock EXCEPT !.time = t, !.beat = t] /\ UNCHANGED decoder
  BY DEF HeartbeatLow
<1> DEFINE t == clock.time + step
<1>3. clock \in Timepix3Clocks /\ decoder \in Timepix3Decoders /\ t \in Nat /\ t >= clock.time
  BY <1>1 DEF Timepix3Inv, Timepix3Clocks
<1> HIDE DEF t
<1>4. CASE clock' = [clock EXCEPT !.time = t, !.beat = t, !.halves.low = t]
           /\ decoder' = [decoder EXCEPT !.syncTime = High(@, HeartbeatWrap) + (t % HeartbeatWrap)]
  <2> DEFINE sync == High(decoder.syncTime, HeartbeatWrap) + (t % HeartbeatWrap)
  <2>0. clock.halves.low \in Nat /\ clock.halves.high \in Nat /\ decoder.syncTime \in Nat
    BY <1>3 DEF Timepix3Clocks, Timepix3Decoders
  <2>1. sync \in Nat
    BY <1>3, <2>0, Highs
  <2>2. sync = High(clock.halves.high, HeartbeatWrap) + (t % HeartbeatWrap)
    BY <2>0, Highs DEF Timepix3Inv, HeartbeatFound
  <2> HIDE DEF sync
  <2>3. /\ clock' \in Timepix3Clocks /\ decoder' \in Timepix3Decoders
        /\ clock'.time = t /\ clock'.beat = t /\ clock'.halves.low = t /\ clock'.halves.high = clock.halves.high
        /\ clock'.old = clock.old /\ clock'.read = clock.read /\ clock'.kept = clock.kept
        /\ clock'.trigger = clock.trigger /\ decoder'.syncTime = sync
        /\ decoder'.clearedHeader = decoder.clearedHeader
        /\ decoder'.prevTriggerNumber = decoder.prevTriggerNumber
        /\ decoder'.triggerOverflow = decoder.triggerOverflow
        /\ decoder'.syncTimeTDC = decoder.syncTimeTDC /\ decoder'.TDCoverflow = decoder.TDCoverflow
    BY <1>3, <1>4, <2>1 DEF Timepix3Clocks, Timepix3Decoders, sync
  <2>4. HeartbeatFound'
    BY <1>3, <2>0, <2>2, <2>3 DEF Timepix3Inv, HeartbeatFound, Timepix3Clocks, HeartbeatWrap, PixelWrap
  <2>5. TriggersCounted'
    BY <1>3, <2>3 DEF Timepix3Inv, TriggersCounted, Timepix3Clocks
  <2> QED
    BY <2>3, <2>4, <2>5 DEF Timepix3Inv, HeartbeatLow
<1>5. CASE clock' = [clock EXCEPT !.time = t, !.beat = t] /\ UNCHANGED decoder
  <2>1. /\ clock' \in Timepix3Clocks
        /\ clock'.time = t /\ clock'.beat = t /\ clock'.halves = clock.halves
        /\ clock'.old = clock.old /\ clock'.read = clock.read /\ clock'.kept = clock.kept
        /\ clock'.trigger = clock.trigger
    BY <1>3, <1>5 DEF Timepix3Clocks
  <2>2. clock.halves.low \in Nat
    BY <1>3 DEF Timepix3Clocks
  <2>3. HeartbeatFound'
    BY <1>3, <1>5, <2>1, <2>2 DEF Timepix3Inv, HeartbeatFound, Timepix3Clocks, HeartbeatWrap, PixelWrap
  <2>4. TriggersCounted'
    BY <1>3, <1>5, <2>1 DEF Timepix3Inv, TriggersCounted, Timepix3Clocks
  <2> QED
    BY <1>3, <1>5, <2>1, <2>3, <2>4 DEF Timepix3Inv, HeartbeatLow
<1> QED
  BY <1>2, <1>4, <1>5 DEF t

\* and so is the second one.
LEMMA HeartbeatHighKept ==
    ASSUME Timepix3Inv, HeartbeatHigh
    PROVE  Timepix3Inv' /\ decoded' = Nothing
<1> DEFINE sync == High(clock.beat, HeartbeatWrap) + (decoder.syncTime % HeartbeatWrap)
<1>1. clock \in Timepix3Clocks /\ decoder \in Timepix3Decoders
  BY DEF Timepix3Inv
<1>2. /\ clock.halves.low \in Nat /\ clock.halves.high \in Nat /\ decoder.syncTime \in Nat
      /\ clock.beat \in Nat
  BY <1>1 DEF Timepix3Clocks, Timepix3Decoders
<1>3. sync \in Nat
  BY <1>2, Highs
<1>4. sync = High(clock.beat, HeartbeatWrap) + (clock.halves.low % HeartbeatWrap)
  BY <1>2, Highs DEF Timepix3Inv, HeartbeatFound
<1>5. /\ clock' = [clock EXCEPT !.halves.high = clock.beat] /\ decoded' = Nothing
      /\ decoder' = [decoder EXCEPT !.syncTime = sync, !.clearedHeader = @ \/ sync < EarlyRun]
  BY DEF HeartbeatHigh
<1> HIDE DEF sync
<1>6. /\ clock' \in Timepix3Clocks
      /\ clock'.halves.high = clock.beat /\ clock'.halves.low = clock.halves.low
      /\ clock'.time = clock.time /\ clock'.beat = clock.beat /\ clock'.old = clock.old
      /\ clock'.read = clock.read /\ clock'.kept = clock.kept /\ clock'.trigger = clock.trigger
  BY <1>1, <1>2, <1>5 DEF Timepix3Clocks
<1>7. /\ decoder' \in Timepix3Decoders /\ decoder'.syncTime = sync
      /\ decoder'.clearedHeader <=> (decoder.clearedHeader \/ sync < EarlyRun)
      /\ decoder'.prevTriggerNumber = decoder.prevTriggerNumber
      /\ decoder'.triggerOverflow = decoder.triggerOverflow
      /\ decoder'.syncTimeTDC = decoder.syncTimeTDC /\ decoder'.TDCoverflow = decoder.TDCoverflow
  BY <1>1, <1>3, <1>5 DEF Timepix3Decoders
<1>8. clock.old => sync >= HeartbeatWrap
  <2>1. clock.old => High(clock.beat, HeartbeatWrap) >= HeartbeatWrap
    BY <1>2, Highs DEF Timepix3Inv, HeartbeatFound
  <2>2. High(clock.beat, HeartbeatWrap) \in Nat /\ clock.halves.low % HeartbeatWrap \in Nat
    BY <1>2, Highs
  <2> QED
    BY <1>4, <2>1, <2>2 DEF HeartbeatWrap, PixelWrap
<1>9. sync < EarlyRun => clock.halves.low % PixelWrap < EarlyRun
  <2>1. High(clock.beat, HeartbeatWrap) \in Nat /\ clock.halves.low % HeartbeatWrap \in Nat
        /\ (clock.halves.low % HeartbeatWrap) % PixelWrap = clock.halves.low % PixelWrap
    BY <1>2, Highs
  <2>2. \A l \in Nat : l % PixelWrap <= l
    BY DEF PixelWrap
  <2>3. clock.halves.low % PixelWrap <= clock.halves.low % HeartbeatWrap
    BY <2>1, <2>2
  <2>4. clock.halves.low % PixelWrap \in Int
    BY <1>2 DEF PixelWrap
  <2> QED
    BY <1>4, <2>1, <2>3, <2>4 DEF EarlyRun
<1>10. HeartbeatFound'
  <2>3. clock.old => ~decoder.clearedHeader /\ ~(sync < EarlyRun)
    BY <1>3, <1>8 DEF Timepix3Inv, HeartbeatFound, EarlyRun, HeartbeatWrap, PixelWrap
  <2>1. clock'.old => clock'.time >= HeartbeatWrap /\ clock'.beat >= HeartbeatWrap /\ ~decoder'.clearedHeader
    BY <1>6, <1>7, <2>3 DEF Timepix3Inv, HeartbeatFound
  <2>2. decoder'.clearedHeader =>
            (clock'.halves.low <= clock'.time \/ clock'.halves.low % PixelWrap < EarlyRun)
    BY <1>6, <1>7, <1>9 DEF Timepix3Inv, HeartbeatFound
  <2> QED
    BY <1>4, <1>6, <1>7, <2>1, <2>2 DEF HeartbeatFound
<1>11. TriggersCounted'
  BY <1>6, <1>7 DEF Timepix3Inv, TriggersCounted
<1> QED
  BY <1>5, <1>6, <1>7, <1>10, <1>11 DEF Timepix3Inv

\* After a reset of the device the counters of the loader begin again.
LEMMA ResetKept ==
    ASSUME Timepix3Inv, DeviceReset
    PROVE  Timepix3Inv' /\ decoded' = Nothing
<1>1. clock \in Timepix3Clocks /\ decoder \in Timepix3Decoders
  BY DEF Timepix3Inv
<1>2. /\ clock' = [clock EXCEPT !.time = 0, !.trigger = 0, !.old = FALSE, !.beat = 0]
      /\ decoder' = decoder /\ decoded' = Nothing /\ clock.old
  BY DEF DeviceReset
<1>3. /\ clock' \in Timepix3Clocks /\ clock'.halves = clock.halves /\ clock'.old = FALSE
      /\ clock'.time = 0 /\ clock'.trigger = 0 /\ clock'.read = clock.read /\ clock'.kept = clock.kept
  BY <1>1, <1>2 DEF Timepix3Clocks
<1>4. ~decoder.clearedHeader
  BY <1>2 DEF Timepix3Inv, HeartbeatFound
<1>5. HeartbeatFound'
  BY <1>2, <1>3, <1>4 DEF Timepix3Inv, HeartbeatFound
<1>6. TriggersCounted'
  BY <1>2, <1>3, <1>4 DEF Timepix3Inv, TriggersCounted
<1> QED
  BY <1>1, <1>2, <1>3, <1>5, <1>6 DEF Timepix3Inv

\* A word that is skipped moves only the clock of the device.
LEMMA SkippedKept ==
    ASSUME Timepix3Inv, Configured, chain.module = "Words", SkippedWord
    PROVE  Timepix3Inv' /\ decoded' = Nothing
<1>1. clock \in Timepix3Clocks /\ decoder \in Timepix3Decoders
  BY DEF Timepix3Inv
<1>2. chain.steps \subseteq Nat
  BY WordsChain DEF SkippedWord, Send
<1>3. PICK step \in chain.steps, n \in 0..1 : clock' = [clock EXCEPT !.time = @ + step, !.trigger = @ + n]
  BY DEF SkippedWord
<1>4. decoder' = decoder /\ decoded' = Nothing
  BY DEF SkippedWord
<1> DEFINE t == clock.time + step
           m == clock.trigger + n
<1>5. /\ t \in Nat /\ m \in Nat /\ clock.time \in Nat /\ clock.trigger \in Nat
      /\ clock.time <= t /\ clock.trigger <= m
  BY <1>1, <1>2 DEF Timepix3Clocks
<1>9. clock' = [clock EXCEPT !.time = t, !.trigger = m]
  BY <1>3
<1> HIDE DEF t, m
<1>6. /\ clock' \in Timepix3Clocks /\ clock'.halves = clock.halves /\ clock'.old = clock.old
      /\ clock'.time = t /\ clock'.trigger = m
      /\ clock'.beat = clock.beat /\ clock'.read = clock.read /\ clock'.kept = clock.kept
  BY <1>1, <1>5, <1>9 DEF Timepix3Clocks
<1>7. HeartbeatFound'
  <2>1. clock.halves.low \in Nat
    BY <1>1 DEF Timepix3Clocks
  <2> QED
    BY <1>4, <1>5, <1>6, <2>1 DEF Timepix3Inv, HeartbeatFound, HeartbeatWrap, PixelWrap
<1>8. TriggersCounted'
  <2>1. clock.read.number \in Nat /\ clock.read.time \in Nat
    BY <1>1 DEF Timepix3Clocks
  <2> QED
    BY <1>4, <1>5, <1>6, <2>1 DEF Timepix3Inv, TriggersCounted
<1> QED
  BY <1>1, <1>4, <1>6, <1>7, <1>8 DEF Timepix3Inv

\* A power word says nothing of times.
LEMMA PowerKept ==
    ASSUME Timepix3Inv, PowerWord
    PROVE  Timepix3Inv' /\ decoded'.kind \notin {"pixel", "trigger", "hit"}
<1>1. clock \in Timepix3Clocks /\ decoder \in Timepix3Decoders
  BY DEF Timepix3Inv
<1>2. \/ \E open \in BOOLEAN : decoder' = [decoder EXCEPT !.shutterOpen = open]
      \/ decoder' = decoder
  BY DEF PowerWord
<1>3. /\ decoder' \in Timepix3Decoders /\ decoder'.syncTime = decoder.syncTime
      /\ decoder'.clearedHeader = decoder.clearedHeader
      /\ decoder'.prevTriggerNumber = decoder.prevTriggerNumber
      /\ decoder'.triggerOverflow = decoder.triggerOverflow
      /\ decoder'.syncTimeTDC = decoder.syncTimeTDC /\ decoder'.TDCoverflow = decoder.TDCoverflow
  BY <1>1, <1>2 DEF Timepix3Decoders
<1>4. clock' = clock
  BY DEF PowerWord
<1>5. decoded'.kind \notin {"pixel", "trigger", "hit"}
  BY DEF PowerWord, Nothing
<1>6. HeartbeatFound' /\ TriggersCounted'
  BY <1>3, <1>4 DEF Timepix3Inv, HeartbeatFound, TriggersCounted
<1> QED
  BY <1>1, <1>3, <1>4, <1>5, <1>6 DEF Timepix3Inv

\* The period of a pixel, from a heartbeat that is at most half a period later.
LEMMA PeriodFound ==
    ASSUME NEW low \in Nat, NEW t \in Nat, low <= t + PixelWrap \div 2,
           t \in High(low, PixelWrap)..(low + PixelWrap \div 2 - 1)
    PROVE  LET time == High(low, PixelWrap) + (t % PixelWrap)
           IN  (IF low - time > PixelWrap \div 2 THEN time + PixelWrap ELSE time) = t
BY DEF High, PixelWrap

\* A pixel has the time of the heartbeat with its own last bits.
LEMMA PixelKept ==
    ASSUME Timepix3Inv, Configured, chain.module = "Words", PixelWord
    PROVE  Timepix3Inv' /\ PixelTimes' /\ decoded'.kind \notin {"trigger", "hit"}
<1>1. clock \in Timepix3Clocks /\ decoder \in Timepix3Decoders /\ clock' = clock /\ decoder' = decoder
  BY DEF Timepix3Inv, PixelWord
<1>2. chain.delays \subseteq 0..(PixelWrap \div 2)
  BY WordsChain DEF PixelWord, Send
<1>3. PICK delay \in chain.delays :
        /\ delay <= clock.time
        /\ LET t == clock.time - delay
           IN  decoded' = IF decoder.clearedHeader
                          THEN [kind |-> "pixel", is |-> PixelTime(t % PixelWrap), truth |-> t]
                          ELSE Nothing
  BY DEF PixelWord
<1> DEFINE t == clock.time - delay
           low == clock.halves.low
<1>4. /\ t \in Nat /\ clock.time \in Nat /\ low \in Nat /\ clock.halves.high \in Nat
      /\ clock.time <= t + PixelWrap \div 2
  BY <1>1, <1>2, <1>3 DEF Timepix3Clocks, PixelWrap
<1>5. Timepix3Inv'
  BY <1>1 DEF Timepix3Inv, HeartbeatFound, TriggersCounted
<1> HIDE DEF t, low
<1>6. CASE decoder.clearedHeader
  <2>1. decoded'.kind = "pixel" /\ decoded'.is = PixelTime(t % PixelWrap) /\ decoded'.truth = t
    BY <1>3, <1>6 DEF t
  <2>2. ~clock.old
    BY <1>6 DEF Timepix3Inv, HeartbeatFound
  <2>3. ASSUME High(low, HeartbeatWrap) = High(clock.halves.high, HeartbeatWrap),
               t \in High(low, PixelWrap)..(low + PixelWrap \div 2 - 1)
        PROVE  PixelTime(t % PixelWrap) = t
    <3>1. decoder.syncTime = low
      <4>1. High(clock.halves.high, HeartbeatWrap) + (low % HeartbeatWrap) = low
        BY <1>4, <2>3, Highs
      <4> QED
        BY <4>1 DEF Timepix3Inv, HeartbeatFound, low
    <3>2. low <= clock.time \/ low % PixelWrap < EarlyRun
      BY <1>6 DEF Timepix3Inv, HeartbeatFound, low
    <3>3. low <= t + PixelWrap \div 2
      BY <1>4, <2>3, <3>2 DEF High, PixelWrap, EarlyRun
    <3> QED
      BY <1>4, <2>3, <3>1, <3>3, PeriodFound DEF PixelTime
  <2>4. clock'.halves.low = low /\ clock'.halves.high = clock.halves.high /\ clock'.old = clock.old
    BY <1>1 DEF low
  <2>5. PixelTimes'
    BY <2>1, <2>2, <2>3, <2>4 DEF PixelTimes
  <2> QED
    BY <1>5, <2>1, <2>5
<1>7. CASE ~decoder.clearedHeader
  BY <1>3, <1>5, <1>7 DEF Nothing, PixelTimes
<1> QED
  BY <1>6, <1>7

\* A step back of a counter is an overflow, if it is read before it can be there again.
LEMMA NumberOverflow ==
    ASSUME NEW a \in Nat, NEW b \in Nat, a <= b, b - a < TriggerWrap,
           NEW last \in Nat, NEW overflows \in Nat,
           last + overflows * TriggerWrap = a, last < TriggerWrap
    PROVE  (b % TriggerWrap)
           + (overflows + IF b % TriggerWrap < last THEN 1 ELSE 0) * TriggerWrap = b
BY DEF TriggerWrap

\* An overflow of the time of triggers is counted,
LEMMA TimeOverflow ==
    ASSUME NEW a \in Nat, NEW b \in Nat, a <= b, b - a < TDCWrap - OneSecond,
           NEW last \in Nat, NEW overflows \in Nat,
           last + overflows * TDCWrap = a, last < TDCWrap
    PROVE  (b % TDCWrap)
           + (overflows + IF last - (b % TDCWrap) > OneSecond THEN 1 ELSE 0) * TDCWrap = b
BY DEF TDCWrap, OneSecond

\* and of their number: a trigger has the time and the number it was sent with.
LEMMA TriggerKept ==
    ASSUME Timepix3Inv, Configured, chain.module = "Words", TriggerWord
    PROVE  Timepix3Inv' /\ TriggerTimes' /\ decoded'.kind \notin {"pixel", "hit"}
<1>1. clock \in Timepix3Clocks /\ decoder \in Timepix3Decoders
  BY DEF Timepix3Inv
<1>2. chain.steps \subseteq Nat
  BY WordsChain DEF TriggerWord, Send
<1> DEFINE number == clock.trigger + 1
           numbers == decoder.triggerOverflow
                      + IF number % TriggerWrap < decoder.prevTriggerNumber THEN 1 ELSE 0
           times(t) == decoder.TDCoverflow
                       + IF decoder.syncTimeTDC - (t % TDCWrap) > OneSecond THEN 1 ELSE 0
           kept(t) == /\ clock.kept /\ number - clock.read.number < TriggerWrap
                      /\ t - clock.read.time < TDCWrap - OneSecond
           sent(t) == [clock EXCEPT !.time = t, !.trigger = number]
<1>3. PICK step \in chain.steps :
        LET t == clock.time + step
        IN  IF ~decoder.clearedHeader
            THEN clock' = sent(t) /\ decoded' = Nothing /\ UNCHANGED decoder
            ELSE /\ clock' = [sent(t) EXCEPT !.read = [number |-> number, time |-> t], !.kept = kept(t)]
                 /\ decoder' = [decoder EXCEPT !.triggerOverflow = numbers, !.TDCoverflow = times(t),
                                               !.prevTriggerNumber = number % TriggerWrap,
                                               !.syncTimeTDC = t % TDCWrap]
                 /\ decoded' = [kind |-> "trigger",
                                is |-> [number |-> (number % TriggerWrap) + numbers * TriggerWrap,
                                        time |-> (t % TDCWrap) + times(t) * TDCWrap],
                                truth |-> [number |-> number, time |-> t]]
  BY <1>1 DEF TriggerWord, Timepix3Clocks
<1> DEFINE t == clock.time + step
           n == number
<1>4. /\ t \in Nat /\ n \in Nat /\ clock.time \in Nat /\ clock.trigger \in Nat
      /\ clock.time <= t /\ clock.trigger < n /\ clock.halves.low \in Nat
      /\ clock.read.number \in Nat /\ clock.read.time \in Nat
  BY <1>1, <1>2 DEF Timepix3Clocks
<1>5. /\ decoder.triggerOverflow \in Nat /\ decoder.prevTriggerNumber \in Nat
      /\ decoder.TDCoverflow \in Nat /\ decoder.syncTimeTDC \in Nat
  BY <1>1 DEF Timepix3Decoders
<1> DEFINE s == sent(t)
           k == kept(t)
           o == numbers
           p == times(t)
           nb == n % TriggerWrap
           tb == t % TDCWrap
<1>6. /\ s \in Timepix3Clocks /\ s.halves = clock.halves /\ s.old = clock.old /\ s.beat = clock.beat
      /\ s.time = t /\ s.trigger = n /\ s.read = clock.read /\ s.kept = clock.kept
  <2> HIDE DEF t, n
  <2>1. s = [clock EXCEPT !.time = t, !.trigger = n]
    BY DEF n
  <2> QED
    BY <1>1, <1>4, <2>1 DEF Timepix3Clocks
<1>7. /\ o \in Nat /\ p \in Nat /\ nb \in Nat /\ tb \in Nat /\ nb < TriggerWrap /\ tb < TDCWrap
  BY <1>4, <1>5 DEF TriggerWrap, TDCWrap, OneSecond
<1>8. ASSUME k
      PROVE  nb + o * TriggerWrap = n /\ tb + p * TDCWrap = t
  <2>1. n - clock.read.number < TriggerWrap /\ clock.read.number <= n
    BY <1>4, <1>8 DEF Timepix3Inv, TriggersCounted, TriggerWrap
  <2>2. t - clock.read.time < TDCWrap - OneSecond /\ clock.read.time <= t
    BY <1>4, <1>8 DEF Timepix3Inv, TriggersCounted
  <2>3. /\ decoder.prevTriggerNumber + decoder.triggerOverflow * TriggerWrap = clock.read.number
        /\ decoder.prevTriggerNumber < TriggerWrap
        /\ decoder.syncTimeTDC + decoder.TDCoverflow * TDCWrap = clock.read.time
        /\ decoder.syncTimeTDC < TDCWrap
    BY <1>8 DEF Timepix3Inv, TriggersCounted
  <2> HIDE DEF t, n, nb, tb
  <2>4. nb + (decoder.triggerOverflow + IF nb < decoder.prevTriggerNumber THEN 1 ELSE 0) * TriggerWrap = n
    BY <1>4, <1>5, <2>1, <2>3, NumberOverflow DEF nb
  <2>5. tb + p * TDCWrap = t
    BY <1>4, <1>5, <2>2, <2>3, TimeOverflow DEF tb
  <2> QED
    BY <2>4, <2>5 DEF nb, n
<1>9. \/ /\ ~decoder.clearedHeader /\ clock' = s /\ decoded' = Nothing /\ decoder' = decoder
      \/ /\ decoder.clearedHeader
         /\ clock' = [s EXCEPT !.read = [number |-> n, time |-> t], !.kept = k]
         /\ decoder' = [decoder EXCEPT !.triggerOverflow = o, !.TDCoverflow = p,
                                       !.prevTriggerNumber = nb, !.syncTimeTDC = tb]
         /\ decoded' = [kind |-> "trigger",
                        is |-> [number |-> nb + o * TriggerWrap, time |-> tb + p * TDCWrap],
                        truth |-> [number |-> n, time |-> t]]
  BY <1>3
<1> HIDE DEF number, numbers, times, kept, sent, t, n, s, k, o, p, nb, tb
<1>10. CASE /\ ~decoder.clearedHeader /\ clock' = s /\ decoded' = Nothing /\ decoder' = decoder
  <2>1. HeartbeatFound'
    BY <1>4, <1>6, <1>10 DEF Timepix3Inv, HeartbeatFound, HeartbeatWrap, PixelWrap
  <2>2. TriggersCounted'
    BY <1>4, <1>6, <1>10 DEF Timepix3Inv, TriggersCounted
  <2> QED
    BY <1>1, <1>6, <1>10, <2>1, <2>2 DEF Timepix3Inv, Nothing, TriggerTimes
<1>11. CASE /\ decoder.clearedHeader
            /\ clock' = [s EXCEPT !.read = [number |-> n, time |-> t], !.kept = k]
            /\ decoder' = [decoder EXCEPT !.triggerOverflow = o, !.TDCoverflow = p,
                                          !.prevTriggerNumber = nb, !.syncTimeTDC = tb]
            /\ decoded' = [kind |-> "trigger",
                           is |-> [number |-> nb + o * TriggerWrap, time |-> tb + p * TDCWrap],
                           truth |-> [number |-> n, time |-> t]]
  <2>1. k \in BOOLEAN
    BY DEF k, kept
  <2>2. /\ clock' \in Timepix3Clocks /\ clock'.halves = s.halves /\ clock'.old = s.old /\ clock'.beat = s.beat
        /\ clock'.time = s.time /\ clock'.trigger = s.trigger /\ clock'.read.number = n
        /\ clock'.read.time = t /\ clock'.kept = k
    BY <1>4, <1>6, <1>11, <2>1 DEF Timepix3Clocks
  <2>3. /\ decoder' \in Timepix3Decoders /\ decoder'.syncTime = decoder.syncTime
        /\ decoder'.clearedHeader = decoder.clearedHeader
        /\ decoder'.prevTriggerNumber = nb /\ decoder'.triggerOverflow = o
        /\ decoder'.syncTimeTDC = tb /\ decoder'.TDCoverflow = p
    BY <1>1, <1>7, <1>11 DEF Timepix3Decoders
  <2>4. HeartbeatFound'
    BY <1>4, <1>6, <2>2, <2>3 DEF Timepix3Inv, HeartbeatFound, HeartbeatWrap, PixelWrap
  <2>5. TriggersCounted'
    BY <1>4, <1>6, <1>7, <1>8, <1>11, <2>2, <2>3 DEF TriggersCounted
  <2>6. ~clock'.old
    BY <1>6, <1>11, <2>2 DEF Timepix3Inv, HeartbeatFound
  <2>7. k => decoded'.is = decoded'.truth
    BY <1>8, <1>11
  <2>8. decoded'.kind = "trigger"
    BY <1>11
  <2> QED
    BY <2>2, <2>3, <2>4, <2>5, <2>6, <2>7, <2>8 DEF Timepix3Inv, TriggerTimes
<1> QED
  BY <1>9, <1>10, <1>11

ATLASpixClocks == [time : Nat, group : {0, 1, 2}, readout : Nat, fresh : BOOLEAN, gap : BOOLEAN]

ATLASpixDecoders ==
    [t0 : Nat, fpga : Nat, ts1 : Nat, ts2 : Nat, ts3 : Nat, readout : Int, new1 : BOOLEAN, new2 : BOOLEAN]

\* What the second word of a time tells.
SecondOf(t) == High(t % FPGAMiddle, FPGALow)

\* Whether all times of the run can be found.
Complete(c) == c.gap => c.time < FPGAMiddle

\* The words of the time of the FPGA, after all three, after the first and after the second;
\* a first word is told apart from one that was missing, and so is a second one.
WordsOf(c, d) ==
    LET now == c.time
        was == d.fpga
    IN  /\ c.group = 0 => /\ was = now /\ d.ts1 = High(now, FPGAMiddle) /\ d.ts2 = SecondOf(now)
                          /\ d.ts3 = now % FPGALow /\ ~d.new2 /\ (c.gap \/ ~d.new1)
        /\ c.group # 0 => was <= now /\ now < was + FPGALow /\ d.ts3 = was % FPGALow
        /\ c.group = 1 => /\ d.ts1 = High(IF d.new1 THEN now ELSE was, FPGAMiddle)
                          /\ d.ts2 = SecondOf(was) /\ ~d.new2
        /\ c.group = 2 => /\ d.ts1 = High(now, FPGAMiddle) /\ d.ts2 = SecondOf(IF d.new2 THEN now ELSE was)
                          /\ d.new2 \/ c.gap
                          /\ c.gap \/ ~d.new1

ATLASpixInv ==
    /\ clock \in ATLASpixClocks /\ decoder \in ATLASpixDecoders
    /\ decoder.t0 > 0 /\ Complete(clock) =>
            /\ WordsOf(clock, decoder)
            /\ clock.fresh => decoder.readout = clock.readout

\* The parts of a time, and how they change within half a period of the second word.
LEMMA Words ==
    ASSUME NEW was \in Nat, NEW now \in Nat, was <= now, now < was + FPGALow
    PROVE  /\ High(now, FPGAMiddle) \in Nat /\ SecondOf(now) \in Nat /\ now % FPGALow \in Nat
           /\ SecondOf(now) < FPGAMiddle
           /\ High(now, FPGAMiddle) + SecondOf(now) + (now % FPGALow) = now
           /\ High(now, FPGAMiddle)
                = High(was, FPGAMiddle) + IF SecondOf(now) < SecondOf(was) THEN FPGAMiddle ELSE 0
           /\ now < FPGAMiddle =>
                /\ High(now, FPGAMiddle) = 0 /\ High(was, FPGAMiddle) = 0
                /\ SecondOf(now) = SecondOf(was) + IF now % FPGALow < was % FPGALow THEN FPGALow ELSE 0
BY DEF High, SecondOf, FPGAMiddle, FPGALow

\* The first word of a readout has the last bits of its time,
LEMMA FirstKept ==
    ASSUME ATLASpixInv, Configured, chain.module = "Words", FPGAFirst
    PROVE  ATLASpixInv' /\ decoded' = Nothing
<1>1. clock \in ATLASpixClocks /\ decoder \in ATLASpixDecoders
  BY DEF ATLASpixInv
<1>2. chain.steps \subseteq 0..(FPGALow - 1)
  BY WordsChain DEF FPGAFirst, Send
<1>3. PICK step \in chain.steps :
        /\ clock' = [clock EXCEPT !.time = @ + step, !.group = 1]
        /\ \/ decoder' = [decoder EXCEPT !.ts1 = High(clock'.time, FPGAMiddle), !.new1 = TRUE]
           \/ UNCHANGED decoder
  BY DEF FPGAFirst
<1> DEFINE t == clock.time + step
<1>4. t \in Nat /\ clock.time \in Nat /\ clock.time <= t /\ t < clock.time + FPGALow
  BY <1>1, <1>2 DEF ATLASpixClocks, FPGALow
<1>5. clock' = [clock EXCEPT !.time = t, !.group = 1]
  BY <1>3
<1> HIDE DEF t
<1>6. /\ clock' \in ATLASpixClocks /\ clock'.time = t /\ clock'.group = 1 /\ clock'.readout = clock.readout
      /\ clock'.fresh = clock.fresh /\ clock'.gap = clock.gap /\ clock.group = 0
  <2>1. clock.group = 0
    BY DEF FPGAFirst
  <2> QED
    BY <1>1, <1>4, <1>5, <2>1 DEF ATLASpixClocks
<1>7. High(t, FPGAMiddle) \in Nat
  BY <1>4, Words
<1>8. \/ decoder' = [decoder EXCEPT !.ts1 = High(t, FPGAMiddle), !.new1 = TRUE]
      \/ decoder' = decoder
  BY <1>3, <1>6
<1>9. /\ decoder' \in ATLASpixDecoders /\ decoder'.t0 = decoder.t0 /\ decoder'.fpga = decoder.fpga
      /\ decoder'.ts2 = decoder.ts2 /\ decoder'.ts3 = decoder.ts3 /\ decoder'.readout = decoder.readout
      /\ decoder'.new2 = decoder.new2
      /\ \/ decoder'.ts1 = High(t, FPGAMiddle) /\ decoder'.new1
         \/ decoder'.ts1 = decoder.ts1 /\ decoder'.new1 = decoder.new1
  BY <1>1, <1>7, <1>8 DEF ATLASpixDecoders
<1>10. ASSUME decoder'.t0 > 0, Complete(clock') PROVE WordsOf(clock', decoder') /\ (clock'.fresh => decoder'.readout = clock'.readout)
  <2>1. Complete(clock)
    BY <1>4, <1>6, <1>10 DEF Complete, FPGAMiddle
  <2>2. WordsOf(clock, decoder) /\ (clock.fresh => decoder.readout = clock.readout)
    BY <1>9, <1>10, <2>1 DEF ATLASpixInv
  <2>3. /\ decoder.fpga = clock.time /\ decoder.ts1 = High(clock.time, FPGAMiddle)
        /\ decoder.ts2 = SecondOf(clock.time) /\ decoder.ts3 = clock.time % FPGALow /\ ~decoder.new2
        /\ clock.gap \/ ~decoder.new1
    BY <1>6, <2>2 DEF WordsOf
  <2>4. decoder'.ts1 = High(IF decoder'.new1 THEN t ELSE clock.time, FPGAMiddle)
    <3>1. clock.gap => High(t, FPGAMiddle) = High(clock.time, FPGAMiddle)
      BY <1>4, <1>6, <1>10, Words DEF Complete
    <3> QED
      BY <1>9, <2>3, <3>1
  <2> QED
    BY <1>4, <1>6, <1>9, <2>2, <2>3, <2>4 DEF WordsOf
<1> QED
  BY <1>6, <1>9, <1>10 DEF ATLASpixInv, FPGAFirst

\* the second one those above,
LEMMA SecondKept ==
    ASSUME ATLASpixInv, FPGASecond
    PROVE  ATLASpixInv' /\ decoded' = Nothing
<1> DEFINE now == clock.time
           ts2 == High(now % FPGAMiddle, FPGALow)
           carry == IF ~decoder.new1 /\ ts2 < decoder.ts2 THEN FPGAMiddle ELSE 0
<1>1. clock \in ATLASpixClocks /\ decoder \in ATLASpixDecoders /\ clock.group = 1
  BY DEF ATLASpixInv, FPGASecond
<1>2. \/ /\ clock' = [clock EXCEPT !.group = 2]
         /\ decoder' = [decoder EXCEPT !.ts1 = @ + carry, !.ts2 = ts2, !.new1 = FALSE, !.new2 = TRUE]
      \/ clock' = [clock EXCEPT !.group = 2, !.gap = TRUE] /\ decoder' = decoder
  BY DEF FPGASecond
<1>3. now \in Nat /\ decoder.fpga \in Nat /\ decoder.ts1 \in Nat /\ decoder.ts2 \in Nat
  BY <1>1 DEF ATLASpixClocks, ATLASpixDecoders
<1>4. ts2 = SecondOf(now) /\ ts2 \in Nat
  BY <1>3 DEF SecondOf, High, FPGAMiddle, FPGALow
<1>5. carry \in Nat /\ carry = IF ~decoder.new1 /\ ts2 < decoder.ts2 THEN FPGAMiddle ELSE 0
  BY DEF FPGAMiddle
<1> HIDE DEF ts2, carry, now
<1>6. CASE /\ clock' = [clock EXCEPT !.group = 2]
           /\ decoder' = [decoder EXCEPT !.ts1 = @ + carry, !.ts2 = ts2, !.new1 = FALSE, !.new2 = TRUE]
  <2>1. /\ clock' \in ATLASpixClocks /\ clock'.time = now /\ clock'.group = 2
        /\ clock'.readout = clock.readout /\ clock'.fresh = clock.fresh /\ clock'.gap = clock.gap
    BY <1>1, <1>6 DEF ATLASpixClocks, now
  <2> DEFINE ts1 == decoder.ts1 + carry
  <2>2. ts1 \in Nat
    BY <1>3, <1>5
  <2>3. decoder' = [decoder EXCEPT !.ts1 = ts1, !.ts2 = ts2, !.new1 = FALSE, !.new2 = TRUE]
    BY <1>6
  <2> HIDE DEF ts1
  <2>4. /\ decoder' \in ATLASpixDecoders /\ decoder'.t0 = decoder.t0 /\ decoder'.fpga = decoder.fpga
        /\ decoder'.ts1 = ts1 /\ decoder'.ts2 = ts2 /\ decoder'.ts3 = decoder.ts3
        /\ decoder'.readout = decoder.readout /\ decoder'.new1 = FALSE /\ decoder'.new2 = TRUE
    BY <1>1, <1>4, <2>2, <2>3 DEF ATLASpixDecoders
  <2>5. ASSUME decoder'.t0 > 0, Complete(clock')
        PROVE  WordsOf(clock', decoder') /\ (clock'.fresh => decoder'.readout = clock'.readout)
    <3>1. Complete(clock) /\ decoder.t0 > 0
      BY <2>1, <2>4, <2>5 DEF Complete, now
    <3>2. WordsOf(clock, decoder) /\ (clock.fresh => decoder.readout = clock.readout)
      BY <3>1 DEF ATLASpixInv
    <3>3. /\ decoder.fpga <= now /\ now < decoder.fpga + FPGALow /\ decoder.ts3 = decoder.fpga % FPGALow
          /\ decoder.ts1 = High(IF decoder.new1 THEN now ELSE decoder.fpga, FPGAMiddle)
          /\ decoder.ts2 = SecondOf(decoder.fpga)
      BY <1>1, <3>2 DEF WordsOf, now
    <3>4. ts1 = High(now, FPGAMiddle)
      <4>1. /\ High(now, FPGAMiddle) \in Nat
            /\ High(now, FPGAMiddle)
                = High(decoder.fpga, FPGAMiddle) + IF ts2 < decoder.ts2 THEN FPGAMiddle ELSE 0
        BY <1>3, <1>4, <3>3, Words
      <4> QED
        BY <1>5, <3>3, <4>1 DEF ts1
    <3> QED
      BY <1>4, <2>1, <2>4, <3>2, <3>3, <3>4 DEF WordsOf
  <2> QED
    BY <2>1, <2>4, <2>5 DEF ATLASpixInv, FPGASecond
<1>7. CASE clock' = [clock EXCEPT !.group = 2, !.gap = TRUE] /\ decoder' = decoder
  <2>1. /\ clock' \in ATLASpixClocks /\ clock'.time = now /\ clock'.group = 2
        /\ clock'.readout = clock.readout /\ clock'.fresh = clock.fresh /\ clock'.gap = TRUE
    BY <1>1, <1>7 DEF ATLASpixClocks, now
  <2>2. ASSUME decoder'.t0 > 0, Complete(clock')
        PROVE  WordsOf(clock', decoder') /\ (clock'.fresh => decoder'.readout = clock'.readout)
    <3>1. Complete(clock) /\ now < FPGAMiddle
      BY <2>1, <2>2 DEF Complete, now
    <3>2. WordsOf(clock, decoder) /\ (clock.fresh => decoder.readout = clock.readout)
      BY <1>7, <2>2, <3>1 DEF ATLASpixInv
    <3>3. /\ decoder.fpga <= now /\ now < decoder.fpga + FPGALow /\ decoder.ts3 = decoder.fpga % FPGALow
          /\ decoder.ts1 = High(IF decoder.new1 THEN now ELSE decoder.fpga, FPGAMiddle)
          /\ decoder.ts2 = SecondOf(decoder.fpga) /\ ~decoder.new2
      BY <1>1, <3>2 DEF WordsOf, now
    <3>4. High(now, FPGAMiddle) = High(decoder.fpga, FPGAMiddle)
      BY <1>3, <3>1, <3>3, Words
    <3> QED
      BY <1>7, <2>1, <3>2, <3>3, <3>4 DEF WordsOf
  <2> QED
    BY <1>1, <1>7, <2>1, <2>2 DEF ATLASpixInv, FPGASecond
<1> QED
  BY <1>2, <1>6, <1>7 DEF ts2, carry

\* and the third one puts them together.
LEMMA ThirdKept ==
    ASSUME ATLASpixInv, FPGAThird
    PROVE  ATLASpixInv' /\ decoded' = Nothing
<1> DEFINE now == clock.time
           ts3 == now % FPGALow
           carry == IF ~decoder.new2 /\ ts3 < decoder.ts3 THEN FPGALow ELSE 0
           ts2 == decoder.ts2 + carry
           added == AddThird(clock.time % FPGALow)
           fpga == Joined3(added)
<1>1. clock \in ATLASpixClocks /\ decoder \in ATLASpixDecoders /\ clock.group = 2
  BY DEF ATLASpixInv, FPGAThird
<1>2. /\ clock' = [clock EXCEPT !.group = 0] /\ decoder' = [added EXCEPT !.fpga = fpga]
      /\ added = [decoder EXCEPT !.ts2 = ts2, !.ts3 = ts3, !.new2 = FALSE] /\ decoded' = Nothing
  BY DEF FPGAThird, AddThird
<1>3. /\ now \in Nat /\ decoder.fpga \in Nat /\ decoder.ts1 \in Nat /\ decoder.ts2 \in Nat
      /\ decoder.ts3 \in Nat
  BY <1>1 DEF ATLASpixClocks, ATLASpixDecoders
<1>4. ts3 \in Nat /\ ts2 \in Nat
  BY <1>3 DEF FPGALow
<1>5. ts2 = decoder.ts2 + IF ~decoder.new2 /\ ts3 < decoder.ts3 THEN FPGALow ELSE 0
  BY <1>3
<1>6. fpga = added.ts1 + added.ts2
             - (IF added.ts2 >= FPGAMiddle /\ (added.ts1 \div FPGAMiddle) % 2 = 1 THEN FPGAMiddle ELSE 0)
             + added.ts3
  BY DEF Joined3
<1>7. ts3 = now % FPGALow
  OBVIOUS
<1> HIDE DEF fpga, added, ts3, ts2, carry, now
<1>8. /\ added \in ATLASpixDecoders /\ added.t0 = decoder.t0 /\ added.fpga = decoder.fpga
      /\ added.ts1 = decoder.ts1 /\ added.ts2 = ts2 /\ added.ts3 = ts3 /\ added.new2 = FALSE
      /\ added.new1 = decoder.new1 /\ added.readout = decoder.readout
  BY <1>1, <1>2, <1>4 DEF ATLASpixDecoders
<1>9. fpga \in Nat /\ (ts2 < FPGAMiddle => fpga = decoder.ts1 + ts2 + ts3)
  BY <1>3, <1>4, <1>6, <1>8 DEF FPGAMiddle
<1>10. /\ decoder' \in ATLASpixDecoders /\ decoder'.t0 = decoder.t0 /\ decoder'.fpga = fpga
       /\ decoder'.ts1 = decoder.ts1 /\ decoder'.ts2 = ts2 /\ decoder'.ts3 = ts3 /\ decoder'.new2 = FALSE
       /\ decoder'.new1 = decoder.new1 /\ decoder'.readout = decoder.readout
  BY <1>2, <1>8, <1>9 DEF ATLASpixDecoders
<1>11. /\ clock' \in ATLASpixClocks /\ clock'.time = now /\ clock'.group = 0
       /\ clock'.readout = clock.readout /\ clock'.fresh = clock.fresh /\ clock'.gap = clock.gap
  BY <1>1, <1>2 DEF ATLASpixClocks, now
<1>12. ASSUME decoder'.t0 > 0, Complete(clock')
       PROVE  WordsOf(clock', decoder') /\ (clock'.fresh => decoder'.readout = clock'.readout)
  <2>1. Complete(clock) /\ (clock.gap => now < FPGAMiddle)
    BY <1>11, <1>12 DEF Complete, now
  <2>2. WordsOf(clock, decoder) /\ (clock.fresh => decoder.readout = clock.readout)
    BY <1>10, <1>12, <2>1 DEF ATLASpixInv
  <2>3. /\ decoder.fpga <= now /\ now < decoder.fpga + FPGALow /\ decoder.ts3 = decoder.fpga % FPGALow
        /\ decoder.ts1 = High(now, FPGAMiddle)
        /\ decoder.ts2 = SecondOf(IF decoder.new2 THEN now ELSE decoder.fpga)
        /\ decoder.new2 \/ clock.gap
        /\ clock.gap \/ ~decoder.new1
    BY <1>1, <2>2 DEF WordsOf, now
  <2>4. /\ High(now, FPGAMiddle) \in Nat /\ SecondOf(now) \in Nat /\ SecondOf(now) < FPGAMiddle
        /\ High(now, FPGAMiddle) + SecondOf(now) + ts3 = now
        /\ now < FPGAMiddle =>
              SecondOf(now) = SecondOf(decoder.fpga) + IF ts3 < decoder.ts3 THEN FPGALow ELSE 0
    BY <1>3, <1>7, <2>3, Words
  <2>5. ts2 = SecondOf(now)
    BY <1>3, <1>5, <2>1, <2>3, <2>4
  <2>6. fpga = now
    BY <1>9, <2>3, <2>4, <2>5
  <2> QED
    BY <1>7, <1>10, <1>11, <2>2, <2>3, <2>5, <2>6 DEF WordsOf
<1> QED
  BY <1>2, <1>10, <1>11, <1>12 DEF ATLASpixInv

\* With T0 the clock of the device and that of the loader begin again.
LEMMA T0Kept ==
    ASSUME ATLASpixInv, T0Word
    PROVE  ATLASpixInv' /\ decoded' = Nothing
<1>1. clock \in ATLASpixClocks /\ decoder \in ATLASpixDecoders
  BY DEF ATLASpixInv
<1> DEFINE t0 == decoder.t0 + 1
<1>2. t0 \in Nat
  BY <1>1 DEF ATLASpixDecoders
<1>3. /\ clock' = [clock EXCEPT !.time = 0, !.group = 0, !.fresh = FALSE, !.gap = FALSE]
      /\ decoder' = [decoder EXCEPT !.t0 = t0, !.fpga = 0, !.ts1 = 0, !.ts2 = 0, !.ts3 = 0,
                                    !.new1 = FALSE, !.new2 = FALSE]
      /\ decoded' = Nothing
  BY DEF T0Word
<1> HIDE DEF t0
<1>4. /\ clock' \in ATLASpixClocks /\ clock'.time = 0 /\ clock'.group = 0
      /\ clock'.fresh = FALSE /\ clock'.gap = FALSE
  BY <1>1, <1>3 DEF ATLASpixClocks
<1>5. /\ decoder' \in ATLASpixDecoders /\ decoder'.fpga = 0 /\ decoder'.ts1 = 0 /\ decoder'.ts2 = 0
      /\ decoder'.ts3 = 0 /\ decoder'.new1 = FALSE /\ decoder'.new2 = FALSE
  BY <1>1, <1>2, <1>3 DEF ATLASpixDecoders
<1>6. 0 = High(0, FPGAMiddle) /\ 0 = SecondOf(0) /\ 0 = 0 % FPGALow
  BY DEF High, SecondOf, FPGAMiddle, FPGALow
<1>7. WordsOf(clock', decoder')
  BY <1>4, <1>5, <1>6 DEF WordsOf
<1> QED
  BY <1>3, <1>4, <1>5, <1>7 DEF ATLASpixInv

\* A time that is near another is found from its last bits.
LEMMA ReadoutNear ==
    ASSUME NEW now \in Nat, NEW t \in Nat, t - now \in (-2)..(ReadoutWrap \div 2)
    PROVE  Near(t % ReadoutWrap, now, ReadoutWrap, ReadoutWrap \div 2, -(ReadoutWrap \div 32)) = t
BY DEF Near, ReadoutWrap

\* So is the time of a hit, which is before the readout.
LEMMA HitNear ==
    ASSUME NEW now \in Nat, NEW t \in Nat, t - now \in (4 - HitWrap)..2
    PROVE  LET above == HitWrap \div 4 - 1
           IN  Near(t % HitWrap, now, HitWrap, above, above - HitWrap) = t
BY DEF Near, HitWrap

\* The time of a readout is near that of the words before.
LEMMA ReadoutKept ==
    ASSUME ATLASpixInv, Configured, chain.module = "Words", ReadoutWord
    PROVE  ATLASpixInv' /\ decoded' = Nothing
<1>1. clock \in ATLASpixClocks /\ decoder \in ATLASpixDecoders /\ clock.group = 0
  BY DEF ATLASpixInv, ReadoutWord
<1>2. chain.readouts \subseteq (-1)..(ReadoutWrap \div 2)
  BY WordsChain DEF ReadoutWord, Send
<1> DEFINE Found(t) == Near(t % ReadoutWrap, decoder.fpga, ReadoutWrap, ReadoutWrap \div 2, -(ReadoutWrap \div 32))
<1>3. PICK later \in chain.readouts :
        LET t == High(clock.time + later, 2)
        IN  /\ t >= 0
            /\ clock' = [clock EXCEPT !.readout = t, !.fresh = TRUE]
            /\ decoder' = [decoder EXCEPT !.readout = Found(t)]
  BY DEF ReadoutWord
<1> DEFINE t == High(clock.time + later, 2)
           r == Found(t)
<1>4. clock.time \in Nat /\ decoder.fpga \in Nat /\ later \in (-1)..(ReadoutWrap \div 2)
  BY <1>1, <1>2 DEF ATLASpixClocks, ATLASpixDecoders
<1>5. t \in Nat /\ t - clock.time \in (-2)..(ReadoutWrap \div 2)
  BY <1>3, <1>4 DEF High, ReadoutWrap
<1>6. r \in Int
  <2> HIDE DEF t
  <2> QED
    BY <1>4, <1>5 DEF Near, ReadoutWrap
<1>7. decoder.fpga = clock.time => r = t
  <2> HIDE DEF t
  <2> QED
    BY <1>4, <1>5, ReadoutNear
<1>8. clock' = [clock EXCEPT !.readout = t, !.fresh = TRUE] /\ decoder' = [decoder EXCEPT !.readout = r]
  BY <1>3
<1> HIDE DEF t, r
<1>9. /\ clock' \in ATLASpixClocks /\ clock'.time = clock.time /\ clock'.group = clock.group
      /\ clock'.readout = t /\ clock'.fresh = TRUE /\ clock'.gap = clock.gap
  BY <1>1, <1>5, <1>8 DEF ATLASpixClocks
<1>10. /\ decoder' \in ATLASpixDecoders /\ decoder'.t0 = decoder.t0 /\ decoder'.fpga = decoder.fpga
       /\ decoder'.ts1 = decoder.ts1 /\ decoder'.ts2 = decoder.ts2 /\ decoder'.ts3 = decoder.ts3
       /\ decoder'.new1 = decoder.new1 /\ decoder'.new2 = decoder.new2 /\ decoder'.readout = r
  BY <1>1, <1>6, <1>8 DEF ATLASpixDecoders
<1>11. ASSUME decoder'.t0 > 0, Complete(clock')
       PROVE  WordsOf(clock', decoder') /\ (clock'.fresh => decoder'.readout = clock'.readout)
  <2>1. WordsOf(clock, decoder)
    BY <1>9, <1>10, <1>11 DEF ATLASpixInv, Complete
  <2>2. WordsOf(clock', decoder')
    BY <1>9, <1>10, <2>1 DEF WordsOf
  <2>3. decoder.fpga = clock.time
    BY <1>1, <2>1 DEF WordsOf
  <2> QED
    BY <1>7, <1>9, <1>10, <2>2, <2>3
<1> QED
  BY <1>9, <1>10, <1>11 DEF ATLASpixInv, ReadoutWord

\* A hit of a readout has its time.
LEMMA HitKept ==
    ASSUME ATLASpixInv, Configured, chain.module = "Words", HitWord
    PROVE  ATLASpixInv' /\ HitTimes' /\ decoded'.kind \notin {"pixel", "trigger"}
<1>1. clock \in ATLASpixClocks /\ decoder \in ATLASpixDecoders /\ clock' = clock /\ decoder' = decoder
  BY DEF ATLASpixInv, HitWord
<1>2. chain.hits \subseteq (4 - HitWrap)..2
  BY WordsChain DEF HitWord, Send
<1>3. ATLASpixInv'
  BY <1>1 DEF ATLASpixInv
<1> DEFINE above == HitWrap \div 4 - 1
           Found(t) == Near(t % HitWrap, decoder.readout, HitWrap, above, above - HitWrap)
<1>4. PICK later \in chain.hits :
        LET t == clock.readout + later
        IN  /\ t >= 0
            /\ decoded' =
                IF decoder.t0 = 0 THEN Nothing
                ELSE IF decoder.t0 > 1 THEN [kind |-> "eof"]
                ELSE [kind |-> "hit", truth |-> t, is |-> Found(t)]
  BY DEF HitWord
<1> DEFINE t == clock.readout + later
<1>5. t \in Nat /\ clock.readout \in Nat /\ t - clock.readout \in (4 - HitWrap)..2 /\ decoder.t0 \in Nat
  BY <1>1, <1>2, <1>4 DEF ATLASpixClocks, ATLASpixDecoders, HitWrap
<1>6. decoder.readout = clock.readout => Found(t) = t
  <2> HIDE DEF t
  <2> QED
    BY <1>5, HitNear
<1> HIDE DEF Found, t
<1>7. \/ decoded' = Nothing \/ decoded' = [kind |-> "eof"]
      \/ decoder.t0 > 0 /\ decoded' = [kind |-> "hit", truth |-> t, is |-> Found(t)]
  BY <1>4, <1>5 DEF t
<1>8. CASE decoded' = Nothing \/ decoded' = [kind |-> "eof"]
  BY <1>3, <1>8 DEF Nothing, HitTimes
<1>9. CASE decoder.t0 > 0 /\ decoded' = [kind |-> "hit", truth |-> t, is |-> Found(t)]
  <2>1. decoded'.kind = "hit" /\ decoded'.truth = t /\ decoded'.is = Found(t)
    BY <1>9
  <2>2. clock'.fresh /\ (clock'.gap => clock'.time < FPGAMiddle) => decoder.readout = clock.readout
    BY <1>1, <1>9 DEF ATLASpixInv, Complete
  <2> QED
    BY <1>3, <1>6, <2>1, <2>2 DEF HitTimes
<1> QED
  BY <1>7, <1>8, <1>9

\* The words of a run, and what each of them gave.
WordInv ==
    chain.module = "Words" =>
        /\ at \in {"initialize", "begin", "words"}
        /\ at # "words" => decoded = Nothing
        /\ at = "words" => /\ chain.loader = "Timepix3" => Timepix3Inv
                           /\ chain.loader = "ATLASpix" => ATLASpixInv

\* At the beginning the loader agrees with the device.
LEMMA BeginKept ==
    ASSUME Configured, chain.module = "Words"
    PROVE  /\ Timepix3Begin => Timepix3Inv'
           /\ ATLASpixBegin => ATLASpixInv'
<1>1. ASSUME Timepix3Begin PROVE Timepix3Inv'
  <2> DEFINE halves == [low |-> 0, high |-> 0]
             read == [number |-> 0, time |-> 0]
             left == chain.leftover
             old == chain.leftover > 0
  <2>1. left \in Nat /\ (left = 0 \/ left >= HeartbeatWrap) /\ (old <=> left > 0) /\ old \in BOOLEAN
    BY <1>1, WordsChain DEF Timepix3Begin
  <2>2. /\ clock' = [time |-> left, trigger |-> 0, old |-> old, beat |-> left,
                     halves |-> halves, read |-> read, kept |-> TRUE]
        /\ decoder' = [syncTime |-> 0, clearedHeader |-> FALSE, syncTimeTDC |-> 0, TDCoverflow |-> 0,
                       prevTriggerNumber |-> 0, triggerOverflow |-> 0, shutterOpen |-> FALSE]
    BY <1>1 DEF Timepix3Begin
  <2>3. halves \in [low : Nat, high : Nat] /\ halves.low = 0 /\ halves.high = 0
    OBVIOUS
  <2>4. read \in [number : Nat, time : Nat] /\ read.number = 0 /\ read.time = 0
    OBVIOUS
  <2> HIDE DEF halves, read, left, old
  <2>5. /\ clock' \in Timepix3Clocks /\ clock'.time = left /\ clock'.beat = left /\ clock'.old = old
        /\ clock'.halves = halves /\ clock'.read = read /\ clock'.trigger = 0
    BY <2>1, <2>2, <2>3, <2>4 DEF Timepix3Clocks
  <2>6. /\ decoder' \in Timepix3Decoders /\ decoder'.syncTime = 0 /\ decoder'.clearedHeader = FALSE
        /\ decoder'.syncTimeTDC = 0 /\ decoder'.TDCoverflow = 0 /\ decoder'.prevTriggerNumber = 0
        /\ decoder'.triggerOverflow = 0
    BY <2>2 DEF Timepix3Decoders
  <2>7. HeartbeatFound'
    <3>1. 0 = High(0, HeartbeatWrap) + (0 % HeartbeatWrap)
      BY DEF High, HeartbeatWrap, PixelWrap
    <3>2. left > 0 => left >= HeartbeatWrap
      BY <2>1
    <3> QED
      BY <2>1, <2>3, <2>5, <2>6, <3>1, <3>2 DEF HeartbeatFound
  <2>8. TriggersCounted'
    <3>1. 0 + 0 * TriggerWrap = 0 /\ 0 < TriggerWrap /\ 0 + 0 * TDCWrap = 0 /\ 0 < TDCWrap /\ 0 <= left /\ 0 <= 0
      BY <2>1 DEF TriggerWrap, TDCWrap
    <3> QED
      BY <2>4, <2>5, <2>6, <3>1 DEF TriggersCounted
  <2> QED
    BY <2>5, <2>6, <2>7, <2>8 DEF Timepix3Inv
<1>2. ASSUME ATLASpixBegin PROVE ATLASpixInv'
  <2>1. chain.leftover \in Nat
    BY <1>2, WordsChain DEF ATLASpixBegin
  <2>2. /\ clock' \in ATLASpixClocks /\ decoder' \in ATLASpixDecoders /\ decoder'.t0 = 0
    BY <1>2, <2>1 DEF ATLASpixBegin, ATLASpixClocks, ATLASpixDecoders
  <2> QED
    BY <2>2 DEF ATLASpixInv
<1> QED
  BY <1>1, <1>2

\* The times and numbers of pixels, triggers and hits.
WordTimes == PixelTimes /\ TriggerTimes /\ HitTimes

\* Every step keeps the loader in agreement with the device.
LEMMA WordInvStep ==
    ASSUME LoopInv, WordInv, chain.module = "Words", WordTimes, [Next]_vars
    PROVE  WordInv' /\ WordTimes'
<1>1. chain' = chain /\ Configured
  BY LoopKept DEF LoopInv
<1>2. chain.loader \in {"Timepix3", "ATLASpix"}
  BY <1>1, WordsChain
<1>3. CASE ~DecodingNext
  <2>1. UNCHANGED decodingVars /\ (at' = at \/ Initialize \/ NextEvent)
    BY <1>3, OtherThanWords
  <2>2. at' = at \/ (at = "initialize" /\ at' = "begin")
    BY <2>1 DEF Initialize, NextEvent, EndOfEvent, Proceed, WordInv
  <2>3. WordTimes'
    BY <2>1 DEF WordTimes, PixelTimes, TriggerTimes, HitTimes, decodingVars
  <2>4. Timepix3Inv => Timepix3Inv'
    BY <2>1 DEF Timepix3Inv, HeartbeatFound, TriggersCounted, decodingVars
  <2>5. ATLASpixInv => ATLASpixInv'
    BY <2>1 DEF ATLASpixInv, decodingVars
  <2> QED
    BY <1>1, <2>1, <2>2, <2>3, <2>4, <2>5 DEF WordInv, decodingVars
<1>4. CASE Timepix3Begin \/ ATLASpixBegin
  <2>1. at = "begin" /\ at' = "words" /\ decoded' = decoded
    BY <1>4 DEF Timepix3Begin, ATLASpixBegin, Proceed
  <2>2. decoded' = Nothing
    BY <2>1 DEF WordInv
  <2>3. WordTimes'
    BY <2>2 DEF WordTimes, PixelTimes, TriggerTimes, HitTimes, Nothing
  <2>4. /\ chain.loader = "Timepix3" => Timepix3Inv'
        /\ chain.loader = "ATLASpix" => ATLASpixInv'
    BY <1>1, <1>4, BeginKept DEF Timepix3Begin, ATLASpixBegin
  <2> QED
    BY <1>1, <2>1, <2>3, <2>4 DEF WordInv
<1>5. ASSUME NEW word, Send(word) PROVE at = "words" /\ at' = "words" /\ chain.loader = word
  BY <1>5 DEF Send, Proceed
<1>6. CASE DeviceReset \/ HeartbeatLow \/ HeartbeatHigh \/ SkippedWord \/ PixelWord \/ TriggerWord \/ PowerWord
  <2>1. Send("Timepix3")
    BY <1>6 DEF DeviceReset, HeartbeatLow, HeartbeatHigh, SkippedWord, PixelWord, TriggerWord, PowerWord
  <2>2. at = "words" /\ at' = "words" /\ chain.loader = "Timepix3"
    BY <1>5, <2>1
  <2>3. Timepix3Inv
    BY <2>2 DEF WordInv
  <2>4. Timepix3Inv' /\ WordTimes'
    <3>1. CASE DeviceReset \/ HeartbeatLow \/ HeartbeatHigh \/ SkippedWord
      <4>1. Timepix3Inv' /\ decoded' = Nothing
        BY <1>1, <2>3, <3>1, ResetKept, HeartbeatLowKept, HeartbeatHighKept, SkippedKept
      <4> QED
        BY <4>1 DEF WordTimes, PixelTimes, TriggerTimes, HitTimes, Nothing
    <3>2. CASE PixelWord
      BY <1>1, <2>3, <3>2, PixelKept DEF WordTimes, TriggerTimes, HitTimes
    <3>3. CASE TriggerWord
      BY <1>1, <2>3, <3>3, TriggerKept DEF WordTimes, PixelTimes, HitTimes
    <3>4. CASE PowerWord
      BY <2>3, <3>4, PowerKept DEF WordTimes, PixelTimes, TriggerTimes, HitTimes
    <3> QED
      BY <1>6, <3>1, <3>2, <3>3, <3>4
  <2> QED
    BY <1>1, <2>2, <2>4 DEF WordInv
<1>7. CASE T0Word \/ FPGAFirst \/ FPGASecond \/ FPGAThird \/ ReadoutWord \/ HitWord
  <2>1. Send("ATLASpix")
    BY <1>7 DEF T0Word, FPGAFirst, FPGASecond, FPGAThird, ReadoutWord, HitWord
  <2>2. at = "words" /\ at' = "words" /\ chain.loader = "ATLASpix"
    BY <1>5, <2>1
  <2>3. ATLASpixInv
    BY <2>2 DEF WordInv
  <2>4. ATLASpixInv' /\ WordTimes'
    <3>1. CASE T0Word \/ FPGAFirst \/ FPGASecond \/ FPGAThird \/ ReadoutWord
      <4>1. ATLASpixInv' /\ decoded' = Nothing
        BY <1>1, <2>3, <3>1, T0Kept, FirstKept, SecondKept, ThirdKept, ReadoutKept
      <4> QED
        BY <4>1 DEF WordTimes, PixelTimes, TriggerTimes, HitTimes, Nothing
    <3>2. CASE HitWord
      BY <1>1, <2>3, <3>2, HitKept DEF WordTimes, PixelTimes, TriggerTimes
    <3> QED
      BY <1>7, <3>1, <3>2
  <2> QED
    BY <1>1, <2>2, <2>4 DEF WordInv
<1> QED
  BY <1>3, <1>4, <1>6, <1>7 DEF DecodingNext, DecodingStep

-----------------------------------------------------------------------------
(* Records and triggers *)

\* The parameters of a chain with EventLoaderFASTPIX, by ScopeAssumption.
LEMMA ScopeChain ==
    ASSUME Configured, chain.module = "FASTPIX"
    PROVE  /\ chain.triggers \in Nat /\ chain.records \in Nat /\ chain.blockSize \in Nat \ {0}
           /\ chain.period \in Nat /\ chain.length \in Nat /\ chain.spacing \in Nat
           /\ chain.events \in Nat /\ chain.drifts \subseteq Int
           /\ chain.records <= chain.triggers /\ chain.length < chain.period
           /\ \A drift \in chain.drifts : -chain.spacing < drift /\ drift < chain.spacing
<1> DEFINE c == Chains[setup]
<1>1. c.module = "FASTPIX"
  BY ChainsAssumption DEF Configured
<1>2. /\ c \in ScopeConfigurations /\ c.records <= c.triggers /\ c.length < c.period
      /\ \A drift \in c.drifts : -c.spacing < drift /\ drift < c.spacing
  BY <1>1, ScopeAssumption DEF Configured
<1> HIDE DEF c
<1>3. chain = [key \in DOMAIN c \ {"inputs"} |-> c[key]]
  BY DEF Configured, c
<1>4. /\ DOMAIN c = {"module", "events", "triggers", "records", "blockSize", "period", "length",
                     "spacing", "drifts", "inputs"}
      /\ c.triggers \in Nat /\ c.records \in Nat /\ c.blockSize \in Nat \ {0}
      /\ c.period \in Nat /\ c.length \in Nat /\ c.spacing \in Nat
      /\ c.events \in Nat /\ c.drifts \subseteq Int
  BY <1>2 DEF ScopeConfigurations
<1> QED
  BY <1>2, <1>3, <1>4

\* A step that is not one of EventLoaderFASTPIX, of a chain with it.
LEMMA OtherThanScope ==
    ASSUME LoopInv, [Next]_vars, chain.module = "FASTPIX", ~FASTPIXNext
    PROVE  /\ UNCHANGED <<at, event>> \/ Initialize \/ NextEvent
           /\ UNCHANGED fastpixVars
<1> USE DEF fastpixVars, loadingVars, otherVars, analysisVars, vars, chainVars, loopVars
<1>1. CASE UNCHANGED vars
  BY <1>1
<1>2. CASE Initialize
  BY <1>2 DEF Initialize
<1>3. CASE NextEvent
  BY <1>3 DEF NextEvent
<1>4. ASSUME Next, ~Initialize, ~NextEvent PROVE FALSE
  BY <1>4, NextSteps, OwnSteps DEF LoopInv
<1> QED
  BY <1>1, <1>2, <1>3, <1>4

\* The triggers that SPIDR has seen of an event.
Of(n) ==
    {k \in scope.seen : /\ (n - 1) * chain.period <= scope.times[k]
                        /\ scope.times[k] <= (n - 1) * chain.period + chain.length}

ScopeTypes ==
    /\ scope.times \in [1..chain.triggers -> Int] /\ Apart(scope.times)
    /\ scope.seen \subseteq 1..chain.triggers

\* TriggersOf has them in their order.
LEMMA TriggersInOrder ==
    ASSUME Configured, chain.module = "FASTPIX", ScopeTypes, NEW n \in Nat \ {0}
    PROVE  /\ TriggersOf(n) \in Seq(1..chain.triggers)
           /\ ToSet(TriggersOf(n)) = Of(n)
           /\ \A i \in DOMAIN TriggersOf(n) : TriggersOf(n)[i] \in Of(n)
           /\ \A i, j \in DOMAIN TriggersOf(n) : i < j => TriggersOf(n)[i] < TriggersOf(n)[j]
<1> DEFINE m == chain.triggers
           all == [k \in DOMAIN scope.times |-> k]
           S == {k \in scope.seen : getTimestampPosition(Window(n), scope.times[k]) = "DURING"}
           s == TriggersOf(n)
<1>1. m \in Nat /\ DOMAIN scope.times = 1..m
  BY ScopeChain DEF ScopeTypes
<1>2. all \in Seq(1..m) /\ Len(all) = m /\ \A p \in 1..m : all[p] = p
  BY <1>1
<1>3. S = Of(n)
  <2>1. /\ Window(n).start = (n - 1) * chain.period
        /\ Window(n).end = (n - 1) * chain.period + chain.length
    BY DEF Window, NewEvent
  <2>2. (n - 1) * chain.period \in Int /\ (n - 1) * chain.period + chain.length \in Int
    BY ScopeChain
  <2>3. \A k \in scope.seen : scope.times[k] \in Int
    BY DEF ScopeTypes
  <2> DEFINE a == (n - 1) * chain.period
             b == (n - 1) * chain.period + chain.length
  <2>4. \A k \in scope.seen : getTimestampPosition(Window(n), scope.times[k]) = "DURING"
                                <=> a <= scope.times[k] /\ scope.times[k] <= b
    <3> TAKE k \in scope.seen
    <3>1. getTimestampPosition(Window(n), scope.times[k])
            = IF scope.times[k] < a THEN "BEFORE" ELSE IF b < scope.times[k] THEN "AFTER" ELSE "DURING"
      BY <2>1 DEF getTimestampPosition
    <3>2. a \in Int /\ b \in Int /\ scope.times[k] \in Int
      BY <2>2, <2>3
    <3> HIDE DEF a, b
    <3> QED
      BY <3>1, <3>2
  <2> QED
    BY <2>4 DEF Of
<1>4. s = Kept(all, S)
  BY DEF TriggersOf
<1> HIDE DEF s, S, all, m
<1>5. /\ s \in Seq(1..m)
      /\ \A i \in 1..Len(s) : \E p \in 1..Len(all) : s[i] = all[p] /\ all[p] \in S
      /\ \A p \in 1..Len(all) : all[p] \in S => \E i \in 1..Len(s) : s[i] = all[p]
      /\ \A i, j \in 1..Len(s) : i < j => \E p, q \in 1..Len(all) : p < q /\ s[i] = all[p] /\ s[j] = all[q]
  <2> DEFINE K(t) ==
        /\ t \in Seq(1..m)
        /\ \A i \in 1..Len(t) : \E p \in 1..Len(all) : t[i] = all[p] /\ all[p] \in S
        /\ \A p \in 1..Len(all) : all[p] \in S => \E i \in 1..Len(t) : t[i] = all[p]
        /\ \A i, j \in 1..Len(t) : i < j => \E p, q \in 1..Len(all) : p < q /\ t[i] = all[p] /\ t[j] = all[q]
  <2>3. all \in Seq(1..m)
    BY <1>2
  <2>1. K(Kept(all, S))
    <3> DEFINE T == 1..m
    <3> HIDE DEF T
    <3>1. all \in Seq(T)
      BY <2>3 DEF T
    <3>2. K(Kept(all, S)) <=> 
        /\ Kept(all, S) \in Seq(T)
        /\ \A i \in 1..Len(Kept(all, S)) : \E p \in 1..Len(all) : Kept(all, S)[i] = all[p] /\ all[p] \in S
        /\ \A p \in 1..Len(all) : all[p] \in S => \E i \in 1..Len(Kept(all, S)) : Kept(all, S)[i] = all[p]
        /\ \A i, j \in 1..Len(Kept(all, S)) : i < j =>
               \E p, q \in 1..Len(all) : p < q /\ Kept(all, S)[i] = all[p] /\ Kept(all, S)[j] = all[q]
      BY DEF T
    <3> QED
      BY <3>1, <3>2, KeptProperties
  <2>2. K(s)
    <3> HIDE DEF K
    <3> QED
      BY <1>4, <2>1
  <2> QED
    BY <2>2
<1>6. DOMAIN s = 1..Len(s)
  BY <1>5, LenProperties
<1>7. \A i \in DOMAIN s : s[i] \in S
  <2> TAKE i \in DOMAIN s
  <2>1. PICK p \in 1..Len(all) : s[i] = all[p] /\ all[p] \in S
    BY <1>5, <1>6
  <2> QED
    BY <2>1
<1>8. S \subseteq 1..m
  BY DEF S, ScopeTypes, m
<1>9. \A k \in S : \E i \in DOMAIN s : s[i] = k
  <2> TAKE k \in S
  <2>1. k \in 1..Len(all) /\ all[k] = k
    BY <1>2, <1>8
  <2>2. \E i \in 1..Len(s) : s[i] = all[k]
    BY <1>5, <2>1
  <2> QED
    BY <1>6, <2>1, <2>2
<1>10. ToSet(s) = S
  <2>1. ToSet(s) = {s[i] : i \in DOMAIN s}
    BY DEF ToSet
  <2> QED
    BY <1>7, <1>9, <2>1
<1>11. ASSUME NEW i \in DOMAIN s, NEW j \in DOMAIN s, i < j PROVE s[i] < s[j]
  <2>1. PICK p \in 1..Len(all), q \in 1..Len(all) : p < q /\ s[i] = all[p] /\ s[j] = all[q]
    <3>1. i \in 1..Len(s) /\ j \in 1..Len(s)
      BY <1>6
    <3> QED
      BY <1>5, <1>11, <3>1
  <2>2. all[p] = p /\ all[q] = q
    BY <1>2, <2>1
  <2> QED
    BY <2>1, <2>2
<1> QED
  BY <1>3, <1>5, <1>7, <1>10, <1>11 DEF s, m

\* Events do not overlap: a trigger is in one of them.
LEMMA EventsApart ==
    ASSUME Configured, chain.module = "FASTPIX", ScopeTypes, NEW m \in Nat, NEW n \in Nat, m < n
    PROVE  /\ (m - 1) * chain.period + chain.length < (n - 1) * chain.period
           /\ \A k \in Of(m), l \in Of(n) : k < l
<1> DEFINE p == chain.period
           a == (m - 1) * p
           b == (n - 1) * p
<1>1. p \in Nat /\ chain.length \in Nat /\ chain.length < p /\ chain.spacing \in Nat
  BY ScopeChain
<1>2. a \in Int /\ b \in Int /\ a + p <= b
  <2>1. \A i \in Nat : \A q \in Nat : i >= 1 => i * q >= q
    OBVIOUS
  <2>2. (n - m) * p >= p
    BY <1>1, <2>1
  <2>3. \A i, j, q \in Int : (j - 1) * q = (i - 1) * q + (j - i) * q
    OBVIOUS
  <2>4. b = a + (n - m) * p
    BY <1>1, <2>3
  <2>5. (n - m) * p \in Int /\ a \in Int
    BY <1>1
  <2> QED
    BY <1>1, <2>2, <2>4, <2>5
<1>3. a + chain.length < b
  <2> HIDE DEF a, b, p
  <2> QED
    BY <1>1, <1>2
<1>4. ASSUME NEW k \in Of(m), NEW l \in Of(n) PROVE k < l
  <2>1. /\ k \in 1..chain.triggers /\ l \in 1..chain.triggers /\ k \in Nat /\ l \in Nat
        /\ scope.times[k] \in Int /\ scope.times[l] \in Int
    <3>1. k \in scope.seen /\ l \in scope.seen
      BY DEF Of
    <3>2. scope.seen \subseteq 1..chain.triggers /\ chain.triggers \in Nat
      BY ScopeChain DEF ScopeTypes
    <3>3. scope.times \in [1..chain.triggers -> Int]
      BY DEF ScopeTypes
    <3> QED
      BY <3>1, <3>2, <3>3
  <2>2. scope.times[k] <= a + chain.length /\ b <= scope.times[l]
    BY DEF Of
  <2>3. scope.times[k] < scope.times[l]
    <3> HIDE DEF a, b
    <3> QED
      BY <1>1, <1>2, <1>3, <2>1, <2>2
  <2>4. l < k => scope.times[k] - scope.times[l] >= chain.spacing
    BY <2>1 DEF ScopeTypes, Apart
  <2> QED
    BY <1>1, <2>1, <2>3, <2>4
<1> QED
  BY <1>3, <1>4

LoaderTypes ==
    [triggerNumber : Nat, next : Nat, prevEvent : Nat, triggerSync : BOOLEAN, discarded : Nat,
     prev_trigger : Nat, trigger_index : Nat \ {0}, dead_time : BOOLEAN]

\* The file is where the number says, and goes back by one record at most.
FileInStep(l) ==
    /\ l \in LoaderTypes
    /\ l.next = l.triggerNumber + 1
    /\ l.prevEvent = IF l.triggerNumber = 0 THEN 1 ELSE l.triggerNumber

\* No trigger of an event that is still to come is behind the file.
NoneBehind(l, n) == \A m \in Nat : m > n => \A k \in Of(m) : l.triggerNumber <= k

\* Within an event: the next trigger is ahead of the file, or was read with the event before;
\* the oscilloscope is out of step at the end of a block, until it is at the next trigger.
LoaderRight(l) ==
    /\ FileInStep(l) /\ NoneBehind(l, event)
    /\ l.trigger_index \in DOMAIN triggers =>
            \/ triggers[l.trigger_index] > l.triggerNumber
            \/ triggers[l.trigger_index] = l.triggerNumber /\ l.triggerNumber = l.prev_trigger
    /\ ~l.triggerSync => \/ l.triggerNumber % chain.blockSize = 0
                         \/ /\ l.trigger_index \in DOMAIN triggers
                            /\ triggers[l.trigger_index] = l.triggerNumber + 1

Matched(e, k) == [event |-> e, record |-> k, trigger |-> k] \in stored

\* The triggers of the event so far are stored, if the event is to be kept.
PassedStored ==
    \A i \in DOMAIN triggers : i < loader.trigger_index =>
        (Matched(event, triggers[i]) \/ loader.prev_trigger % chain.blockSize = 0)

RecordsStored ==
    /\ \A s \in stored : /\ s.record = s.trigger /\ s.event \in 1..event /\ s.trigger \in Of(s.event)
                         /\ s = [event |-> s.event, record |-> s.record, trigger |-> s.trigger]
    /\ \A e \in accepted : e \in 1..event /\ \A k \in Of(e) : Matched(e, k)

Begun == event > 1 \/ at \notin {"initialize", "begin"}

ScopeInv ==
    chain.module = "FASTPIX" =>
        /\ at = "initialize" => event = 1
        /\ ~Begun => stored = {} /\ accepted = {}
        /\ Begun => ScopeTypes /\ RecordsStored
        /\ at = "fastpix" => LoaderRight(loader) /\ PassedStored
        /\ Begun /\ at \notin {"fastpix", "undefined"} =>
              /\ FileInStep(loader) /\ NoneBehind(loader, IF at = "begin" THEN event - 1 ELSE event)
              /\ ~loader.triggerSync => loader.triggerNumber % chain.blockSize = 0

\* What a record that is read does to the loader.
LEMMA LoadedFields ==
    ASSUME FileInStep(loader), Configured, chain.module = "FASTPIX", NEW l, FileInStep(l)
    PROVE  /\ FileInStep(Loaded(l)) /\ Loaded(l).triggerNumber = l.triggerNumber + 1
           /\ Loaded(l).trigger_index = l.trigger_index /\ Loaded(l).prev_trigger = l.prev_trigger
           /\ ~Loaded(l).triggerSync =>
                 (~l.triggerSync \/ Loaded(l).triggerNumber % chain.blockSize = 0)
<1> DEFINE number == l.triggerNumber + 1
           next == l.next + 1
           sync == l.triggerSync /\ number % chain.blockSize # 0
           new == Loaded(l)
<1>1. l \in LoaderTypes /\ number \in Nat /\ next \in Nat /\ l.next \in Nat /\ sync \in BOOLEAN
  BY DEF FileInStep, LoaderTypes
<1>2. new = [l EXCEPT !.triggerNumber = number, !.prevEvent = l.next, !.next = next, !.triggerSync = sync]
  BY DEF Loaded
<1>3. l.next = number /\ next = number + 1 /\ number # 0
  BY <1>1 DEF FileInStep, LoaderTypes
<1>4. ~sync => (~l.triggerSync \/ number % chain.blockSize = 0)
  OBVIOUS
<1> HIDE DEF number, next, sync, new
<1>5. /\ new \in LoaderTypes /\ new.triggerNumber = number /\ new.prevEvent = l.next /\ new.next = next
      /\ new.triggerSync = sync /\ new.trigger_index = l.trigger_index /\ new.prev_trigger = l.prev_trigger
  BY <1>1, <1>2 DEF LoaderTypes
<1>6. FileInStep(new)
  BY <1>3, <1>5 DEF FileInStep
<1> QED
  BY <1>4, <1>5, <1>6 DEF new, number

\* The triggers of an event, numbered by where they are.
LEMMA TriggersKnown ==
    ASSUME Configured, chain.module = "FASTPIX", ScopeTypes, event \in Nat \ {0}
    PROVE  /\ Len(triggers) \in Nat /\ DOMAIN triggers = 1..Len(triggers)
           /\ ToSet(triggers) = Of(event)
           /\ \A i \in DOMAIN triggers : triggers[i] \in Of(event) /\ triggers[i] \in Nat \ {0}
           /\ \A i, j \in DOMAIN triggers : i < j => triggers[i] < triggers[j]
<1>1. /\ triggers \in Seq(1..chain.triggers) /\ ToSet(triggers) = Of(event)
      /\ \A i \in DOMAIN triggers : triggers[i] \in Of(event)
      /\ \A i, j \in DOMAIN triggers : i < j => triggers[i] < triggers[j]
  BY TriggersInOrder DEF triggers
<1>2. Len(triggers) \in Nat /\ DOMAIN triggers = 1..Len(triggers)
  BY <1>1, LenProperties
<1>3. \A k \in Of(event) : k \in Nat \ {0}
  <2>1. Of(event) \subseteq scope.seen
    BY DEF Of
  <2>2. scope.seen \subseteq 1..chain.triggers /\ chain.triggers \in Nat
    BY ScopeChain DEF ScopeTypes
  <2> QED
    BY <2>1, <2>2
<1> QED
  BY <1>1, <1>2, <1>3

\* Nothing of the data changes but the records stored.
LEMMA ScopeSame ==
    ASSUME chain' = chain, scope' = scope
    PROVE  /\ \A n : Of(n)' = Of(n) /\ ScopeTypes' = ScopeTypes
           /\ \A n : TriggersOf(n)' = TriggersOf(n)
           /\ event' = event => triggers' = triggers
           /\ \A l, n : NoneBehind(l, n)' = NoneBehind(l, n)
BY DEF Of, ScopeTypes, Apart, TriggersOf, triggers, Window, NewEvent, getTimestampPosition, NoneBehind

\* Within an event the loader and the records keep their invariant.
LEMMA LoopingKept ==
    ASSUME LoopInv, ScopeInv, chain.module = "FASTPIX", Looping, chain' = chain,
           NEW more, stored' = stored \cup more,
           \A s \in more : /\ s.record = s.trigger /\ s.event = event /\ s.trigger \in Of(event)
                           /\ s = [event |-> s.event, record |-> s.record, trigger |-> s.trigger]
    PROVE  /\ at = "fastpix" /\ at' = "fastpix" /\ event' = event /\ scope' = scope
           /\ ScopeTypes /\ LoaderRight(loader) /\ PassedStored
           /\ ScopeTypes' /\ RecordsStored'
<1>1. /\ at = "fastpix" /\ at' = "fastpix" /\ event' = event /\ scope' = scope /\ accepted' = accepted
  BY DEF Looping, Proceed
<1>2. ScopeTypes /\ LoaderRight(loader) /\ PassedStored /\ RecordsStored
  BY <1>1 DEF ScopeInv, Begun
<1>3. ScopeTypes' /\ \A n : Of(n)' = Of(n)
  BY <1>1, <1>2, ScopeSame
<1>4. event \in Nat \ {0}
  BY DEF LoopInv
<1>5. RecordsStored'
  <2>1. \A s \in stored' : /\ s.record = s.trigger /\ s.event \in 1..event /\ s.trigger \in Of(s.event)
                           /\ s = [event |-> s.event, record |-> s.record, trigger |-> s.trigger]
    BY <1>2, <1>4 DEF RecordsStored
  <2>2. \A e \in accepted' : e \in 1..event /\ \A k \in Of(e) : Matched(e, k)'
    BY <1>1, <1>2 DEF RecordsStored, Matched
  <2> QED
    BY <1>1, <1>3, <2>1, <2>2 DEF RecordsStored
<1> QED
  BY <1>1, <1>2, <1>3, <1>5

\* A number that is later than a trigger of the event is not later than those that follow.
LEMMA NoneBehindKept ==
    ASSUME Configured, chain.module = "FASTPIX", ScopeTypes, event \in Nat, NEW l,
           l.triggerNumber \in Nat, \E k \in Of(event) : l.triggerNumber <= k
    PROVE  NoneBehind(l, event)
<1> SUFFICES \A m \in Nat : m > event => \A k \in Of(m) : l.triggerNumber <= k
  BY DEF NoneBehind
<1> TAKE m \in Nat
<1> HAVE m > event
<1> TAKE k \in Of(m)
<1>1. PICK j \in Of(event) : l.triggerNumber <= j
  OBVIOUS
<1>2. j < k
  BY <1>1, EventsApart
<1>3. j \in Nat /\ k \in Nat
  <2>1. Of(event) \subseteq scope.seen /\ Of(m) \subseteq scope.seen
    BY DEF Of
  <2> QED
    BY <2>1, ScopeChain DEF ScopeTypes
<1> QED
  BY <1>1, <1>2, <1>3

\* The loader is right for the next trigger, when no trigger up to its number is left.
LEMMA RightAhead ==
    ASSUME Configured, chain.module = "FASTPIX", ScopeTypes, event \in Nat \ {0}, NEW l, FileInStep(l),
           NoneBehind(l, event), NEW i \in DOMAIN triggers, l.triggerNumber <= triggers[i],
           l.trigger_index = i + 1,
           ~l.triggerSync => l.triggerNumber % chain.blockSize = 0
    PROVE  LoaderRight(l)
<1>1. l.triggerNumber \in Nat
  BY DEF FileInStep, LoaderTypes
<1>2. l.trigger_index \in DOMAIN triggers => triggers[l.trigger_index] > l.triggerNumber
  <2> SUFFICES ASSUME i + 1 \in DOMAIN triggers PROVE triggers[i + 1] > l.triggerNumber
    OBVIOUS
  <2>1. i \in Nat /\ triggers[i] \in Nat /\ triggers[i + 1] \in Nat
    BY TriggersKnown
  <2>2. i < i + 1
    BY <2>1
  <2>3. triggers[i] < triggers[i + 1]
    BY <2>2, TriggersKnown
  <2> QED
    BY <1>1, <2>1, <2>3
<1> QED
  BY <1>2 DEF LoaderRight

\* After a trigger was stored, the triggers so far are.
LEMMA PassedNext ==
    ASSUME Configured, chain.module = "FASTPIX", ScopeTypes, event \in Nat \ {0},
           event' = event, triggers' = triggers, loader.trigger_index \in DOMAIN triggers, PassedStored,
           loader'.trigger_index = loader.trigger_index + 1, loader'.prev_trigger = loader.prev_trigger,
           stored \subseteq stored',
           chain' = chain,
           [event |-> event, record |-> Trigger, trigger |-> Trigger] \in stored'
               \/ loader.prev_trigger % chain.blockSize = 0
    PROVE  PassedStored'
<1> SUFFICES ASSUME NEW i \in DOMAIN triggers, i < loader.trigger_index + 1,
                    loader.prev_trigger % chain.blockSize # 0
             PROVE  [event |-> event, record |-> triggers[i], trigger |-> triggers[i]] \in stored'
  BY DEF PassedStored, Matched
<1>1. i \in Nat /\ loader.trigger_index \in Nat
  BY TriggersKnown
<1>2. CASE i = loader.trigger_index
  BY <1>2 DEF Trigger
<1>3. CASE i < loader.trigger_index
  BY <1>3 DEF PassedStored, Matched
<1> QED
  BY <1>1, <1>2, <1>3

Scoped == LoopInv /\ ScopeInv /\ chain.module = "FASTPIX" /\ chain' = chain

\* While triggers are left, the next one is one of the event.
LEMMA TriggerOf ==
    ASSUME Scoped, at = "fastpix", MoreTriggers
    PROVE  /\ loader.trigger_index \in DOMAIN triggers /\ Trigger = triggers[loader.trigger_index]
           /\ Trigger \in Of(event) /\ Trigger \in Nat \ {0}
           /\ loader \in LoaderTypes /\ loader.triggerNumber \in Nat
           /\ loader.next = loader.triggerNumber + 1
           /\ \/ Trigger > loader.triggerNumber
              \/ Trigger = loader.triggerNumber /\ loader.triggerNumber = loader.prev_trigger
<1>1. ScopeTypes /\ LoaderRight(loader) /\ Configured /\ event \in Nat \ {0}
  BY DEF Scoped, ScopeInv, Begun, LoopInv
<1>2. loader \in LoaderTypes /\ loader.triggerNumber \in Nat /\ loader.trigger_index \in Nat \ {0}
  BY <1>1 DEF LoaderRight, FileInStep, LoaderTypes
<1>3. loader.trigger_index \in DOMAIN triggers
  BY <1>1, <1>2, TriggersKnown DEF MoreTriggers, Scoped
<1>4. Trigger \in Of(event) /\ Trigger \in Nat \ {0}
  BY <1>1, <1>3, TriggersKnown DEF Trigger, Scoped
<1> QED
  BY <1>1, <1>2, <1>3, <1>4 DEF LoaderRight, FileInStep, Trigger

\* What is left to prove of a step within an event.
ScopeKept == at' = "fastpix" /\ ScopeTypes' /\ RecordsStored' /\ LoaderRight(loader)' /\ PassedStored'

\* What holds while the records of an event are read.
LEMMA WithinEvent ==
    ASSUME Scoped, Looping
    PROVE  /\ at = "fastpix" /\ at' = "fastpix" /\ event' = event /\ scope' = scope
           /\ ScopeTypes /\ LoaderRight(loader) /\ PassedStored /\ triggers' = triggers
           /\ ScopeTypes' /\ Configured /\ event \in Nat \ {0} /\ chain.module = "FASTPIX"
<1>1. /\ at = "fastpix" /\ at' = "fastpix" /\ event' = event /\ scope' = scope /\ chain' = chain
  BY DEF Looping, Proceed, Scoped
<1>2. ScopeTypes /\ LoaderRight(loader) /\ PassedStored
  BY <1>1 DEF Scoped, ScopeInv, Begun
<1>3. ScopeTypes' /\ triggers' = triggers
  BY <1>1, <1>2, ScopeSame
<1> QED
  BY <1>1, <1>2, <1>3 DEF Scoped, LoopInv

\* The loader is right after a step if what it is then is right now.
LEMMA RightNext ==
    ASSUME Scoped, Looping, LoaderRight(loader')
    PROVE  LoaderRight(loader)'
<1>1. event' = event /\ triggers' = triggers /\ chain' = chain /\ scope' = scope
  BY WithinEvent DEF Scoped
<1>2. NoneBehind(loader, event)'
  BY <1>1 DEF NoneBehind, Of, LoaderRight
<1>3. FileInStep(loader)'
  BY DEF FileInStep, LoaderRight, LoaderTypes
<1> QED
  BY <1>1, <1>2, <1>3 DEF LoaderRight

\* A record with its trigger is stored.
LEMMA LoadMatchingKept ==
    ASSUME Scoped, LoadMatching
    PROVE  ScopeKept
<1>1. /\ Looping /\ MoreTriggers /\ Trigger = loader.triggerNumber + 1 /\ Store(loader)
  BY DEF LoadMatching
<1>2. /\ at = "fastpix" /\ at' = "fastpix" /\ event' = event /\ scope' = scope
      /\ ScopeTypes /\ LoaderRight(loader) /\ PassedStored /\ triggers' = triggers
      /\ ScopeTypes' /\ Configured /\ event \in Nat \ {0} /\ chain.module = "FASTPIX"
  BY <1>1, WithinEvent
<1>3. /\ loader.trigger_index \in DOMAIN triggers /\ Trigger = triggers[loader.trigger_index]
      /\ Trigger \in Of(event) /\ Trigger \in Nat \ {0}
      /\ loader \in LoaderTypes /\ loader.triggerNumber \in Nat /\ loader.next = loader.triggerNumber + 1
  BY <1>1, <1>2, TriggerOf
<1> DEFINE s == [event |-> event, record |-> loader.next, trigger |-> Trigger]
           on == [loader EXCEPT !.triggerSync = TRUE]
           new == Loaded(on)
           i == loader.trigger_index
<1>4. stored' = stored \cup {s}
  BY <1>1 DEF Store
<1>5. s = [event |-> event, record |-> Trigger, trigger |-> Trigger]
  BY <1>1, <1>3
<1>6. RecordsStored'
  <2>1. \A u \in {s} : /\ u.record = u.trigger /\ u.event = event /\ u.trigger \in Of(event)
                       /\ u = [event |-> u.event, record |-> u.record, trigger |-> u.trigger]
    BY <1>3, <1>5
  <2> DEFINE more == {s}
  <2>2. stored' = stored \cup more /\ \A u \in more : /\ u.record = u.trigger /\ u.event = event /\ u.trigger \in Of(event)
                       /\ u = [event |-> u.event, record |-> u.record, trigger |-> u.trigger]
    BY <1>4, <2>1
  <2> HIDE DEF more
  <2> QED
    BY <1>1, <2>2, LoopingKept DEF Scoped
<1>7. FileInStep(on) /\ on.triggerSync /\ on.triggerNumber = loader.triggerNumber /\ on.trigger_index = i
      /\ on.prev_trigger = loader.prev_trigger
  BY <1>2, <1>3 DEF LoaderRight, FileInStep, LoaderTypes
<1>8. FileInStep(loader)
  BY <1>2 DEF LoaderRight
<1> HIDE DEF on
<1>9. /\ FileInStep(new) /\ new.triggerNumber = Trigger
      /\ new.trigger_index = i /\ new.prev_trigger = loader.prev_trigger
      /\ ~new.triggerSync => new.triggerNumber % chain.blockSize = 0
  BY <1>1, <1>2, <1>7, <1>8, LoadedFields
<1>10. loader' = [new EXCEPT !.trigger_index = i + 1]
  <2>1. loader' = [new EXCEPT !.trigger_index = @ + 1]
    BY DEF LoadMatching, on
  <2> HIDE DEF new, i
  <2> QED
    BY <1>9, <2>1 DEF FileInStep, LoaderTypes
<1> HIDE DEF new
<1>11. /\ FileInStep(loader') /\ loader'.triggerNumber = Trigger /\ loader'.trigger_index = i + 1
       /\ loader'.prev_trigger = loader.prev_trigger
       /\ ~loader'.triggerSync => loader'.triggerNumber % chain.blockSize = 0
  <2>1. i \in Nat \ {0} /\ new \in LoaderTypes
    BY <1>3, <1>9 DEF LoaderTypes, FileInStep
  <2> HIDE DEF i
  <2> QED
    BY <1>9, <1>10, <2>1 DEF FileInStep, LoaderTypes
<1>12. NoneBehind(loader', event)
  BY <1>2, <1>3, <1>11, NoneBehindKept
<1>13. LoaderRight(loader')
  BY <1>2, <1>3, <1>11, <1>12, RightAhead
<1>14. LoaderRight(loader)'
  BY <1>1, <1>13, RightNext
<1>15. PassedStored'
  BY <1>2, <1>3, <1>4, <1>5, <1>11, PassedNext DEF Scoped
<1> QED
  BY <1>2, <1>6, <1>14, <1>15 DEF ScopeKept

\* A step that stores nothing.
LEMMA NothingStored ==
    ASSUME Scoped, Looping, UNCHANGED stored
    PROVE  RecordsStored'
<1> DEFINE none == {s \in stored : FALSE}
<1>1. stored' = stored \cup none
  OBVIOUS
<1>2. \A s \in none : /\ s.record = s.trigger /\ s.event = event /\ s.trigger \in Of(event)
                      /\ s = [event |-> s.event, record |-> s.record, trigger |-> s.trigger]
  OBVIOUS
<1> HIDE DEF none
<1> QED
  BY <1>1, <1>2, LoopingKept DEF Scoped

\* The triggers so far are the same, when the next one is.
LEMMA TriggersPassedSame ==
    ASSUME Scoped, Looping, UNCHANGED stored, loader'.trigger_index = loader.trigger_index,
           loader'.prev_trigger = loader.prev_trigger
    PROVE  PassedStored'
BY WithinEvent DEF PassedStored, Matched, Scoped

\* A record without a trigger is left out,
LEMMA DiscardRecordKept ==
    ASSUME Scoped, DiscardRecord
    PROVE  ScopeKept
<1>1. Looping /\ MoreTriggers /\ loader.triggerSync /\ Trigger > loader.triggerNumber + 1 /\ UNCHANGED stored
  BY DEF DiscardRecord
<1>2. /\ at = "fastpix" /\ at' = "fastpix" /\ event' = event /\ scope' = scope
      /\ ScopeTypes /\ LoaderRight(loader) /\ triggers' = triggers
      /\ ScopeTypes' /\ Configured /\ event \in Nat \ {0} /\ chain.module = "FASTPIX"
  BY <1>1, WithinEvent
<1>3. /\ loader.trigger_index \in DOMAIN triggers /\ Trigger = triggers[loader.trigger_index]
      /\ Trigger \in Of(event) /\ Trigger \in Nat \ {0} /\ loader.triggerNumber \in Nat
  BY <1>1, <1>2, TriggerOf
<1> DEFINE new == Loaded(loader)
           discarded == loader.discarded + 1
<1>4. FileInStep(loader)
  BY <1>2 DEF LoaderRight
<1>5. /\ FileInStep(new) /\ new.triggerNumber = loader.triggerNumber + 1
      /\ new.trigger_index = loader.trigger_index /\ new.prev_trigger = loader.prev_trigger
      /\ ~new.triggerSync => new.triggerNumber % chain.blockSize = 0
  BY <1>1, <1>2, <1>4, LoadedFields
<1>6. loader' = [new EXCEPT !.discarded = discarded] /\ discarded \in Nat
  <2>1. loader' = [new EXCEPT !.discarded = @ + 1]
    BY DEF DiscardRecord
  <2>2. new.discarded = loader.discarded /\ new \in LoaderTypes
    <3>1. loader \in LoaderTypes
      BY <1>4 DEF FileInStep
    <3> QED
      BY <1>5, <3>1 DEF Loaded, LoaderTypes, FileInStep
  <2> HIDE DEF new
  <2> QED
    BY <2>1, <2>2 DEF LoaderTypes
<1> HIDE DEF new, discarded
<1>7. /\ FileInStep(loader') /\ loader'.triggerNumber = loader.triggerNumber + 1
      /\ loader'.trigger_index = loader.trigger_index /\ loader'.prev_trigger = loader.prev_trigger
      /\ ~loader'.triggerSync => loader'.triggerNumber % chain.blockSize = 0
  BY <1>5, <1>6 DEF FileInStep, LoaderTypes
<1>8. loader'.triggerNumber < Trigger /\ loader'.triggerNumber <= Trigger /\ loader'.triggerNumber \in Nat
  BY <1>1, <1>3, <1>7
<1>9. NoneBehind(loader', event)
  BY <1>2, <1>3, <1>8, NoneBehindKept
<1>10. LoaderRight(loader')
  BY <1>3, <1>7, <1>8, <1>9 DEF LoaderRight
<1> QED
  BY <1>1, <1>2, <1>7, <1>10, RightNext, NothingStored, TriggersPassedSame DEF ScopeKept

\* and so are all before the next trigger, when out of step.
LEMMA DiscardRecordsKept ==
    ASSUME Scoped, DiscardRecords
    PROVE  ScopeKept
<1>1. Looping /\ MoreTriggers /\ ~loader.triggerSync /\ Trigger > loader.triggerNumber + 1 /\ UNCHANGED stored
  BY DEF DiscardRecords
<1>2. /\ at = "fastpix" /\ at' = "fastpix" /\ event' = event /\ scope' = scope
      /\ ScopeTypes /\ LoaderRight(loader) /\ triggers' = triggers
      /\ ScopeTypes' /\ Configured /\ event \in Nat \ {0} /\ chain.module = "FASTPIX"
  BY <1>1, WithinEvent
<1>3. /\ loader.trigger_index \in DOMAIN triggers /\ Trigger = triggers[loader.trigger_index]
      /\ Trigger \in Of(event) /\ Trigger \in Nat \ {0}
      /\ loader \in LoaderTypes /\ loader.triggerNumber \in Nat /\ loader.next = loader.triggerNumber + 1
  BY <1>1, <1>2, TriggerOf
<1> DEFINE n == Trigger - (loader.triggerNumber + 1)
           number == loader.triggerNumber + n
           next == loader.next + n
           last == loader.next + n - 1
           discarded == loader.discarded + n
<1>4. n \in Nat \ {0} /\ number = Trigger - 1 /\ next = Trigger /\ last = Trigger - 1
  BY <1>1, <1>3
<1>5. discarded \in Nat
  <2> HIDE DEF n
  <2> QED
    BY <1>3, <1>4 DEF LoaderTypes
<1>6. loader' = [loader EXCEPT !.triggerNumber = number, !.next = next, !.prevEvent = last,
                               !.discarded = discarded]
  BY DEF DiscardRecords
<1>7. number \in Nat /\ next \in Nat /\ last \in Nat /\ number # 0
  BY <1>1, <1>3, <1>4
<1> HIDE DEF n, number, next, last, discarded
<1>8. /\ loader' \in LoaderTypes /\ loader'.triggerNumber = number /\ loader'.next = next
      /\ loader'.prevEvent = last /\ loader'.trigger_index = loader.trigger_index
      /\ loader'.prev_trigger = loader.prev_trigger
  BY <1>3, <1>5, <1>6, <1>7 DEF LoaderTypes
<1>9. FileInStep(loader')
  BY <1>3, <1>4, <1>7, <1>8 DEF FileInStep
<1>10. loader'.triggerNumber < Trigger /\ loader'.triggerNumber <= Trigger /\ Trigger = loader'.triggerNumber + 1
  BY <1>3, <1>4, <1>8
<1>11. NoneBehind(loader', event)
  BY <1>2, <1>3, <1>7, <1>8, <1>10, NoneBehindKept
<1>12. LoaderRight(loader')
  BY <1>3, <1>8, <1>9, <1>10, <1>11 DEF LoaderRight
<1> QED
  BY <1>1, <1>2, <1>8, <1>12, RightNext, NothingStored, TriggersPassedSame DEF ScopeKept

\* The record of a trigger that was read with the event before is stored after all.
LEMMA LoadPreviousKept ==
    ASSUME Scoped, LoadPrevious
    PROVE  ScopeKept
<1>1. Looping /\ MoreTriggers /\ loader.triggerSync /\ Trigger = loader.triggerNumber
  BY DEF LoadPrevious
<1>2. /\ at = "fastpix" /\ at' = "fastpix" /\ event' = event /\ scope' = scope
      /\ ScopeTypes /\ LoaderRight(loader) /\ PassedStored /\ triggers' = triggers
      /\ ScopeTypes' /\ Configured /\ event \in Nat \ {0} /\ chain.module = "FASTPIX"
  BY <1>1, WithinEvent
<1>3. /\ loader.trigger_index \in DOMAIN triggers /\ Trigger = triggers[loader.trigger_index]
      /\ Trigger \in Of(event) /\ Trigger \in Nat \ {0}
      /\ loader \in LoaderTypes /\ loader.triggerNumber \in Nat
  BY <1>1, <1>2, TriggerOf
<1>4. FileInStep(loader) /\ NoneBehind(loader, event)
  BY <1>2 DEF LoaderRight
<1> DEFINE before == loader.triggerNumber - 1
           i == loader.trigger_index
           back == Rewind(loader)
           number == before + 1
           next == loader.prevEvent + 1
           sync == loader.triggerSync /\ number % chain.blockSize # 0
           new == Loaded(back)
           discarded == loader.discarded + 1
           index == i + 1
<1>5. before \in Nat /\ loader.prevEvent = loader.triggerNumber /\ number = loader.triggerNumber
      /\ next = loader.triggerNumber + 1 /\ next \in Nat
  <2>1. loader.triggerNumber \in Nat \ {0}
    BY <1>1, <1>3
  <2>2. loader.prevEvent = loader.triggerNumber
    BY <1>4, <2>1 DEF FileInStep
  <2> QED
    BY <2>1, <2>2
<1>6. back = [loader EXCEPT !.triggerNumber = before, !.next = loader.prevEvent]
  BY DEF Rewind
<1>7. /\ back \in LoaderTypes /\ back.triggerNumber = before /\ back.next = loader.prevEvent
      /\ back.triggerSync = loader.triggerSync /\ back.trigger_index = i
      /\ back.prev_trigger = loader.prev_trigger /\ back.discarded = loader.discarded
  <2> HIDE DEF before, back
  <2> QED
    BY <1>3, <1>5, <1>6 DEF LoaderTypes
<1>8. new = [back EXCEPT !.triggerNumber = number, !.prevEvent = loader.prevEvent, !.next = next,
                         !.triggerSync = sync]
  <2>1. new = [back EXCEPT !.triggerNumber = back.triggerNumber + 1, !.prevEvent = back.next,
                           !.next = back.next + 1,
                           !.triggerSync = back.triggerSync /\ (back.triggerNumber + 1) % chain.blockSize # 0]
    <3> HIDE DEF back
    <3> QED
      BY <1>7 DEF Loaded, LoaderTypes
  <2> HIDE DEF back, before
  <2> QED
    BY <1>7, <2>1
<1>9. discarded \in Nat /\ index \in Nat \ {0} /\ number \in Nat /\ sync \in BOOLEAN /\ loader.prevEvent \in Nat
  BY <1>3, <1>5 DEF LoaderTypes
<1>10. loader' = [new EXCEPT !.trigger_index = index, !.discarded = discarded]
  <2>1. loader' = [new EXCEPT !.trigger_index = @ + 1, !.discarded = @ + 1]
    BY DEF LoadPrevious
  <2>2. new.trigger_index = i /\ new.discarded = loader.discarded /\ new \in LoaderTypes
    <3> HIDE DEF back, before, i, number, next, sync, new
    <3> QED
      BY <1>3, <1>5, <1>7, <1>8, <1>9 DEF LoaderTypes
  <2> HIDE DEF new, i
  <2> QED
    BY <2>1, <2>2 DEF LoaderTypes
<1>11. sync => number % chain.blockSize # 0
  OBVIOUS
<1>12. ~sync => number % chain.blockSize = 0
  BY <1>1
<1> HIDE DEF back, before, i, number, next, sync, new, discarded, index
<1>13. /\ loader' \in LoaderTypes /\ loader'.triggerNumber = number /\ loader'.next = next
       /\ loader'.prevEvent = loader.prevEvent /\ loader'.trigger_index = index
       /\ loader'.prev_trigger = loader.prev_trigger /\ loader'.triggerSync = sync
  <2>1. /\ new \in LoaderTypes /\ new.triggerNumber = number /\ new.next = next
        /\ new.prevEvent = loader.prevEvent
        /\ new.prev_trigger = loader.prev_trigger /\ new.triggerSync = sync
    BY <1>5, <1>7, <1>8, <1>9 DEF LoaderTypes
  <2> QED
    BY <1>9, <1>10, <2>1 DEF LoaderTypes
<1>14. FileInStep(loader') /\ loader'.triggerNumber = Trigger
  BY <1>1, <1>3, <1>5, <1>13 DEF FileInStep
<1>15. NoneBehind(loader', event)
  BY <1>2, <1>3, <1>14, NoneBehindKept
<1>16. LoaderRight(loader')
  <2>1. loader'.trigger_index = loader.trigger_index + 1
    BY <1>13 DEF index, i
  <2> QED
    BY <1>2, <1>3, <1>12, <1>13, <1>14, <1>15, <2>1, RightAhead
<1>17. stored' = stored \cup {[event |-> event, record |-> Trigger, trigger |-> Trigger]}
  <2>1. Store(back)
    BY DEF LoadPrevious, back
  <2>2. back.next = Trigger
    BY <1>1, <1>5, <1>7
  <2> QED
    BY <2>1, <2>2 DEF Store
<1>18. RecordsStored'
  <2> DEFINE s == [event |-> event, record |-> Trigger, trigger |-> Trigger]
             more == {s}
  <2>1. \A u \in more : /\ u.record = u.trigger /\ u.event = event /\ u.trigger \in Of(event)
                       /\ u = [event |-> u.event, record |-> u.record, trigger |-> u.trigger]
    BY <1>3
  <2>2. stored' = stored \cup more
    BY <1>17
  <2> HIDE DEF more
  <2> QED
    BY <1>1, <2>1, <2>2, LoopingKept DEF Scoped
<1>19. PassedStored'
  <2>1. loader'.trigger_index = loader.trigger_index + 1
    BY <1>13 DEF index, i
  <2> QED
    BY <1>2, <1>3, <1>13, <1>17, <2>1, PassedNext DEF Scoped
<1> QED
  BY <1>1, <1>2, <1>16, <1>18, <1>19, RightNext DEF ScopeKept

\* A trigger is skipped only at the end of a block, when its event is dead time.
LEMMA SkipTriggerKept ==
    ASSUME Scoped, SkipTrigger
    PROVE  ScopeKept
<1>1. Looping /\ MoreTriggers /\ UNCHANGED stored
  BY DEF SkipTrigger
<1>2. /\ at = "fastpix" /\ at' = "fastpix" /\ event' = event /\ scope' = scope
      /\ ScopeTypes /\ LoaderRight(loader) /\ PassedStored /\ triggers' = triggers
      /\ ScopeTypes' /\ Configured /\ event \in Nat \ {0} /\ chain.module = "FASTPIX"
  BY <1>1, WithinEvent
<1>3. /\ loader.trigger_index \in DOMAIN triggers /\ Trigger = triggers[loader.trigger_index]
      /\ Trigger \in Of(event) /\ Trigger \in Nat \ {0}
      /\ loader \in LoaderTypes /\ loader.triggerNumber \in Nat
      /\ \/ Trigger > loader.triggerNumber
         \/ Trigger = loader.triggerNumber /\ loader.triggerNumber = loader.prev_trigger
  BY <1>1, <1>2, TriggerOf
<1>4. ~loader.triggerSync /\ Trigger <= loader.triggerNumber
  BY <1>3 DEF SkipTrigger
<1>5. Trigger = loader.triggerNumber /\ loader.triggerNumber = loader.prev_trigger
  BY <1>3, <1>4
<1>6. loader.triggerNumber % chain.blockSize = 0
  BY <1>2, <1>3, <1>4, <1>5 DEF LoaderRight
<1>7. FileInStep(loader) /\ NoneBehind(loader, event)
  BY <1>2 DEF LoaderRight
<1> DEFINE index == loader.trigger_index + 1
           discarded == loader.discarded + 0
<1>8. index \in Nat \ {0} /\ discarded \in Nat
  BY <1>3 DEF LoaderTypes
<1>9. loader' = [loader EXCEPT !.trigger_index = index, !.discarded = discarded]
  <2>1. loader' = [loader EXCEPT !.trigger_index = @ + 1,
                                 !.discarded = @ + IF loader.triggerSync THEN 1 ELSE 0]
    BY DEF SkipTrigger
  <2> QED
    BY <1>3, <1>4, <2>1 DEF LoaderTypes
<1> HIDE DEF index, discarded
<1>10. /\ loader' \in LoaderTypes /\ loader'.triggerNumber = loader.triggerNumber
       /\ loader'.next = loader.next /\ loader'.prevEvent = loader.prevEvent
       /\ loader'.trigger_index = index /\ loader'.prev_trigger = loader.prev_trigger
       /\ loader'.triggerSync = loader.triggerSync
  BY <1>3, <1>8, <1>9 DEF LoaderTypes
<1>11. FileInStep(loader') /\ NoneBehind(loader', event)
  BY <1>7, <1>10 DEF FileInStep, NoneBehind
<1>12. loader'.trigger_index = loader.trigger_index + 1
  BY <1>10 DEF index
<1>13. LoaderRight(loader')
  <2> DEFINE i == loader.trigger_index
             l == loader'
  <2>1. i \in DOMAIN triggers /\ l.triggerNumber <= triggers[i] /\ l.trigger_index = i + 1
    BY <1>3, <1>5, <1>10, <1>12
  <2>2. FileInStep(l) /\ NoneBehind(l, event) /\ l.triggerNumber % chain.blockSize = 0
    BY <1>6, <1>10, <1>11
  <2> HIDE DEF l, i
  <2>3. LoaderRight(l)
    BY <1>2, <2>1, <2>2, RightAhead
  <2> QED
    BY <2>3 DEF l
<1>14. PassedStored'
  <2>1. stored \subseteq stored' /\ loader'.prev_trigger = loader.prev_trigger
    BY <1>1, <1>10
  <2>2. loader.prev_trigger % chain.blockSize = 0
    BY <1>5, <1>6
  <2>3. chain' = chain
    BY DEF Scoped
  <2> QED
    BY <1>2, <1>3, <1>12, <2>1, <2>2, <2>3, PassedNext
<1> QED
  BY <1>1, <1>2, <1>13, <1>14, RightNext, NothingStored DEF ScopeKept

\* A record that is not later than the event is not of a later one.
LEMMA RecordInTime ==
    ASSUME Configured, chain.module = "FASTPIX", ScopeTypes, event \in Nat \ {0},
           NEW r \in Nat, r + 1 <= chain.records, NEW drift \in chain.drifts,
           getTimestampPosition(Window(event), scope.times[r + 1] + drift) # "AFTER",
           NEW m \in Nat, m > event, NEW k \in Of(m), r <= k
    PROVE  r + 1 <= k
<1> DEFINE a == (event - 1) * chain.period + chain.length
           b == (m - 1) * chain.period
<1>1. /\ chain.triggers \in Nat /\ chain.records \in Nat /\ chain.records <= chain.triggers
      /\ chain.spacing \in Nat /\ drift \in Int /\ -chain.spacing < drift
      /\ chain.period \in Nat /\ chain.length \in Nat
  BY ScopeChain
<1>2. r + 1 \in 1..chain.triggers /\ scope.times[r + 1] \in Int
  BY <1>1 DEF ScopeTypes
<1>3. k \in 1..chain.triggers /\ k \in Nat /\ scope.times[k] \in Int /\ b <= scope.times[k]
  <2>1. k \in scope.seen /\ b <= scope.times[k]
    BY DEF Of
  <2>2. scope.times \in [1..chain.triggers -> Int] /\ scope.seen \subseteq 1..chain.triggers
    BY DEF ScopeTypes
  <2> QED
    BY <1>1, <2>1, <2>2
<1>4. a < b /\ a \in Int /\ b \in Int
  BY <1>1, EventsApart
<1>5. scope.times[r + 1] + drift <= a
  <2> DEFINE t == scope.times[r + 1] + drift
             w == Window(event)
  <2>1. w.end = a /\ w.start \in Int
    BY <1>1 DEF Window, NewEvent
  <2>2. t \in Int
    BY <1>1, <1>2
  <2>3. getTimestampPosition(w, t) # "AFTER"
    OBVIOUS
  <2>4. w.start <= w.end
    <3>1. w.start = (event - 1) * chain.period
      BY DEF Window, NewEvent
    <3>2. w.start \in Int
      BY <2>1
    <3> HIDE DEF w, a
    <3>3. a = w.start + chain.length
      BY <3>1 DEF a
    <3> QED
      BY <1>1, <2>1, <3>2, <3>3
  <2> HIDE DEF w, t, a
  <2>5. t <= a
    BY <1>4, <2>1, <2>2, <2>3, <2>4 DEF getTimestampPosition
  <2> QED
    BY <2>5 DEF t
<1> HIDE DEF a, b
<1>6. r = k => scope.times[r + 1] - scope.times[k] >= chain.spacing
  <2>1. k < r + 1 => scope.times[r + 1] - scope.times[k] >= chain.spacing
    BY <1>2, <1>3 DEF ScopeTypes, Apart
  <2> QED
    BY <1>3, <2>1
<1>7. r # k
  BY <1>1, <1>2, <1>3, <1>4, <1>5, <1>6
<1> QED
  BY <1>3, <1>7

\* A record that is discarded by its time has no trigger in a later event.
LEMMA DiscardByTimeKept ==
    ASSUME Scoped, DiscardByTime
    PROVE  ScopeKept
<1>1. Looping /\ ~MoreTriggers /\ ~AtEnd /\ loader.triggerSync /\ UNCHANGED stored
  BY DEF DiscardByTime
<1>2. /\ at = "fastpix" /\ at' = "fastpix" /\ event' = event /\ scope' = scope
      /\ ScopeTypes /\ LoaderRight(loader) /\ PassedStored /\ triggers' = triggers
      /\ ScopeTypes' /\ Configured /\ event \in Nat \ {0} /\ chain.module = "FASTPIX"
  BY <1>1, WithinEvent
<1>3. FileInStep(loader) /\ NoneBehind(loader, event) /\ loader \in LoaderTypes
  BY <1>2 DEF LoaderRight, FileInStep
<1>4. /\ loader.triggerNumber \in Nat /\ loader.next = loader.triggerNumber + 1
      /\ loader.next <= chain.records
  <2>1. loader.next \in Nat /\ loader.triggerNumber \in Nat /\ loader.next = loader.triggerNumber + 1
    BY <1>3 DEF FileInStep, LoaderTypes
  <2> QED
    BY <1>1, <1>2, <2>1, ScopeChain DEF AtEnd
<1>5. PICK drift \in chain.drifts :
        LET position == getTimestampPosition(Window(event), scope.times[loader.next] + drift)
        IN  /\ position # "AFTER"
            /\ loader' = [Loaded(loader) EXCEPT !.discarded = @ + 1,
                                                !.dead_time = @ \/ position = "DURING"]
  BY DEF DiscardByTime
<1> DEFINE position == getTimestampPosition(Window(event), scope.times[loader.next] + drift)
           new == Loaded(loader)
           discarded == new.discarded + 1
           dead == new.dead_time \/ position = "DURING"
<1>6. /\ FileInStep(new) /\ new.triggerNumber = loader.triggerNumber + 1
      /\ new.trigger_index = loader.trigger_index /\ new.prev_trigger = loader.prev_trigger
      /\ ~new.triggerSync => new.triggerNumber % chain.blockSize = 0
  BY <1>1, <1>2, <1>3, LoadedFields
<1>7. loader' = [new EXCEPT !.discarded = discarded, !.dead_time = dead]
  <2>1. loader' = [new EXCEPT !.discarded = @ + 1, !.dead_time = @ \/ position = "DURING"]
    BY <1>5
  <2> HIDE DEF new, position
  <2> QED
    BY <1>6, <2>1 DEF FileInStep, LoaderTypes
<1>8. discarded \in Nat /\ dead \in BOOLEAN
  <2> HIDE DEF new, position
  <2> QED
    BY <1>6 DEF FileInStep, LoaderTypes
<1>9. position # "AFTER"
  BY <1>5
<1> HIDE DEF new, position, discarded, dead
<1>10. /\ FileInStep(loader') /\ loader'.triggerNumber = loader.triggerNumber + 1
       /\ loader'.trigger_index = loader.trigger_index /\ loader'.prev_trigger = loader.prev_trigger
       /\ ~loader'.triggerSync => loader'.triggerNumber % chain.blockSize = 0
  BY <1>6, <1>7, <1>8 DEF FileInStep, LoaderTypes
<1>11. NoneBehind(loader', event)
  <2> SUFFICES ASSUME NEW m \in Nat, m > event, NEW k \in Of(m) PROVE loader.triggerNumber + 1 <= k
    BY <1>10 DEF NoneBehind
  <2>1. loader.triggerNumber <= k
    BY <1>3 DEF NoneBehind
  <2>2. getTimestampPosition(Window(event), scope.times[loader.triggerNumber + 1] + drift) # "AFTER"
    BY <1>4, <1>9 DEF position
  <2>3. loader.triggerNumber + 1 <= chain.records
    BY <1>4
  <2> QED
    BY <1>2, <1>4, <2>1, <2>2, <2>3, RecordInTime
<1>12. loader'.trigger_index \notin DOMAIN triggers
  <2>1. loader.trigger_index \in Nat \ {0}
    BY <1>3 DEF LoaderTypes
  <2>2. DOMAIN triggers = 1..Len(triggers) /\ Len(triggers) \in Nat
    BY <1>2, TriggersKnown
  <2> QED
    BY <1>1, <1>10, <2>1, <2>2 DEF MoreTriggers
<1>13. LoaderRight(loader')
  BY <1>10, <1>11, <1>12 DEF LoaderRight
<1> QED
  BY <1>1, <1>2, <1>10, <1>13, RightNext, NothingStored, TriggersPassedSame DEF ScopeKept

\* The triggers of an event are numbers.
LEMMA TriggersNumbers ==
    Configured /\ chain.module = "FASTPIX" /\ ScopeTypes /\ event \in Nat \ {0}
        => DOMAIN triggers \subseteq Nat \ {0} /\ \A i \in DOMAIN triggers : triggers[i] \in Nat \ {0}
<1> SUFFICES ASSUME Configured, chain.module = "FASTPIX", ScopeTypes, event \in Nat \ {0}
             PROVE  DOMAIN triggers \subseteq Nat \ {0} /\ \A i \in DOMAIN triggers : triggers[i] \in Nat \ {0}
  OBVIOUS
<1> QED
  BY TriggersKnown

\* The first event: the run of the oscilloscope begins.
LEMMA FirstBegun ==
    ASSUME Scoped, FASTPIXBegin, event = 1
    PROVE  ScopeInv'
<1>1. /\ at = "begin" /\ at' = "fastpix" /\ event' = event /\ chain' = chain
      /\ stored' = {} /\ accepted' = {}
  BY DEF FASTPIXBegin, Proceed, Scoped, ScopeInv, Begun
<1>2. Configured /\ chain.module = "FASTPIX" /\ event' \in Nat \ {0}
  BY <1>1 DEF Scoped, LoopInv
<1>3. Configured'
  BY <1>1, <1>2 DEF Configured, FASTPIXBegin, Proceed
<1>4. chain.triggers \in Nat /\ chain.period \in Nat /\ chain.events \in Nat
  BY <1>2, ScopeChain
<1>5. ScopeTypes'
  <2>1. PICK times \in {t \in [1..chain.triggers -> 0..(chain.period * chain.events - 1)] : Apart(t)},
             beheld \in SUBSET (1..chain.triggers) : scope' = [times |-> times, seen |-> beheld]
    BY DEF FASTPIXBegin
  <2>2. scope'.times = times /\ scope'.seen = beheld /\ Apart(times)
    BY <2>1
  <2>3. times \in [1..chain.triggers -> Int]
    <3>1. chain.period * chain.events - 1 \in Int
      BY <1>4
    <3>2. 0..(chain.period * chain.events - 1) \subseteq Int
      BY <3>1
    <3> HIDE <1>1, <1>2
    <3> QED
      BY <2>1, <3>2
  <2>4. Apart(scope.times)'
    BY <1>1, <2>2 DEF Apart
  <2> QED
    BY <1>1, <2>2, <2>3, <2>4 DEF ScopeTypes
<1>6. loader' = [triggerNumber |-> 0, next |-> 1, prevEvent |-> 1, triggerSync |-> FALSE,
                 discarded |-> 0, prev_trigger |-> 0, trigger_index |-> 1, dead_time |-> FALSE]
  BY DEF FASTPIXBegin
<1>7. FileInStep(loader)'
  BY <1>6 DEF FileInStep, LoaderTypes
<1>8. \A n : \A k \in Of(n)' : k \in Nat \ {0}
  <2>1. \A n : Of(n)' \subseteq scope'.seen
    BY DEF Of
  <2> QED
    BY <1>1, <1>4, <1>5, <2>1 DEF ScopeTypes
<1>9. NoneBehind(loader, event)'
  BY <1>6, <1>8 DEF NoneBehind
<1>10. DOMAIN triggers' \subseteq Nat \ {0} /\ \A i \in DOMAIN triggers' : triggers'[i] \in Nat \ {0}
  <2>1. (Configured /\ chain.module = "FASTPIX" /\ ScopeTypes /\ event \in Nat \ {0}
            => DOMAIN triggers \subseteq Nat \ {0} /\ \A i \in DOMAIN triggers : triggers[i] \in Nat \ {0})'
    BY TriggersNumbers, PTL
  <2>2. (Configured /\ chain.module = "FASTPIX" /\ ScopeTypes /\ event \in Nat \ {0})'
    BY <1>1, <1>2, <1>3, <1>5
  <2> QED
    BY <2>1, <2>2
<1>11. LoaderRight(loader)'
  <2>1. chain.blockSize \in Nat \ {0}
    BY <1>2, ScopeChain
  <2>2. 0 % chain.blockSize = 0
    BY <2>1
  <2>3. loader'.trigger_index = 1 /\ loader'.triggerNumber = 0
    BY <1>6
  <2>4. (loader.trigger_index \in DOMAIN triggers => triggers[loader.trigger_index] > loader.triggerNumber)'
    BY <1>10, <2>3
  <2>5. (loader.triggerNumber % chain.blockSize = 0)'
    BY <1>1, <2>2, <2>3
  <2> QED
    BY <1>7, <1>9, <2>4, <2>5 DEF LoaderRight
<1>12. PassedStored'
  <2>1. loader'.trigger_index = 1
    BY <1>6
  <2> QED
    BY <1>10, <2>1 DEF PassedStored
<1>13. RecordsStored'
  BY <1>1 DEF RecordsStored
<1> QED
  BY <1>1, <1>5, <1>11, <1>12, <1>13 DEF ScopeInv, Begun

\* A later event: the file stays where it is.
LEMMA LaterBegun ==
    ASSUME Scoped, FASTPIXBegin, event > 1
    PROVE  ScopeInv'
<1>1. /\ at = "begin" /\ at' = "fastpix" /\ event' = event /\ chain' = chain
      /\ stored' = stored /\ accepted' = accepted /\ scope' = scope
      /\ loader' = [loader EXCEPT !.prev_trigger = loader.triggerNumber, !.trigger_index = 1,
                                  !.dead_time = FALSE]
  BY DEF FASTPIXBegin, Proceed, Scoped
<1>2. Configured /\ chain.module = "FASTPIX" /\ event \in Nat \ {0}
  BY <1>1 DEF Scoped, LoopInv
<1>3. /\ ScopeTypes /\ RecordsStored /\ FileInStep(loader) /\ NoneBehind(loader, event - 1)
      /\ ~loader.triggerSync => loader.triggerNumber % chain.blockSize = 0
  BY <1>1 DEF Scoped, ScopeInv, Begun
<1>4. ScopeTypes' /\ triggers' = triggers
  BY <1>1, <1>3, ScopeSame
<1> DEFINE number == loader.triggerNumber
           index == 1
           dead == FALSE
<1>5. number \in Nat /\ loader \in LoaderTypes
  BY <1>3 DEF FileInStep, LoaderTypes
<1>6. loader' = [loader EXCEPT !.prev_trigger = number, !.trigger_index = index, !.dead_time = dead]
  BY <1>1
<1>0. index \in Nat \ {0} /\ dead \in BOOLEAN
  OBVIOUS
<1> HIDE DEF number, index, dead
<1>7. /\ loader' \in LoaderTypes /\ loader'.triggerNumber = loader.triggerNumber
      /\ loader'.next = loader.next /\ loader'.prevEvent = loader.prevEvent
      /\ loader'.trigger_index = 1 /\ loader'.prev_trigger = number
      /\ loader'.triggerSync = loader.triggerSync
  <2>1. /\ loader' \in LoaderTypes /\ loader'.triggerNumber = loader.triggerNumber
        /\ loader'.next = loader.next /\ loader'.prevEvent = loader.prevEvent
        /\ loader'.trigger_index = index /\ loader'.prev_trigger = number
        /\ loader'.triggerSync = loader.triggerSync
    BY <1>0, <1>5, <1>6 DEF LoaderTypes
  <2> QED
    BY <2>1 DEF index
<1>8. FileInStep(loader')
  BY <1>3, <1>7 DEF FileInStep
<1>9. \A m \in Nat : m >= event => \A k \in Of(m) : loader.triggerNumber <= k
  BY <1>2, <1>3 DEF NoneBehind
<1>10. NoneBehind(loader', event)
  BY <1>2, <1>7, <1>9 DEF NoneBehind
<1>11. LoaderRight(loader')
  <2>1. ASSUME 1 \in DOMAIN triggers
        PROVE  triggers[1] > loader.triggerNumber \/ triggers[1] = loader.triggerNumber
    <3>1. triggers[1] \in Of(event) /\ triggers[1] \in Nat
      BY <1>2, <1>3, <2>1, TriggersKnown
    <3>2. loader.triggerNumber <= triggers[1]
      BY <1>2, <1>9, <3>1
    <3> QED
      BY <1>5, <3>1, <3>2 DEF number
  <2> QED
    BY <1>3, <1>7, <1>8, <1>10, <2>1 DEF LoaderRight, number
<1>12. LoaderRight(loader)'
  <2>1. NoneBehind(loader, event)'
    BY <1>1, <1>10 DEF NoneBehind, Of
  <2>2. FileInStep(loader)'
    BY <1>8 DEF FileInStep, LoaderTypes
  <2> QED
    BY <1>1, <1>4, <1>11, <2>1, <2>2 DEF LoaderRight
<1>13. PassedStored'
  <2>1. DOMAIN triggers' \subseteq Nat \ {0}
    BY <1>2, <1>3, <1>4, TriggersKnown
  <2> QED
    BY <1>7, <2>1 DEF PassedStored
<1>14. RecordsStored'
  BY <1>1, <1>3 DEF RecordsStored, Matched, Of
<1> QED
  BY <1>1, <1>4, <1>12, <1>13, <1>14 DEF ScopeInv, Begun

\* The end of an event: what is not dead time has all its records.
LEMMA DoneKept ==
    ASSUME Scoped, FASTPIXDone
    PROVE  ScopeInv'
<1>1. /\ at = "fastpix" /\ at' = "end" /\ event' = event /\ chain' = chain
      /\ scope' = scope /\ loader' = loader /\ stored' = stored /\ ~MoreTriggers
  BY DEF FASTPIXDone, Proceed, Scoped
<1>2. /\ ScopeTypes /\ RecordsStored /\ LoaderRight(loader) /\ PassedStored
      /\ Configured /\ chain.module = "FASTPIX" /\ event \in Nat \ {0}
  BY <1>1 DEF Scoped, ScopeInv, Begun, LoopInv
<1>3. ScopeTypes'
  BY <1>1, <1>2, ScopeSame
<1>4. \/ accepted' = accepted
      \/ accepted' = accepted \cup {event} /\ loader.prev_trigger % chain.blockSize # 0
  BY DEF FASTPIXDone
<1>5. Len(triggers) \in Nat /\ DOMAIN triggers = 1..Len(triggers) /\ ToSet(triggers) = Of(event)
  BY <1>2, TriggersKnown
<1>6. FileInStep(loader) /\ NoneBehind(loader, event) /\ loader.trigger_index \in Nat \ {0}
  BY <1>2 DEF LoaderRight, FileInStep, LoaderTypes
<1>7. loader.trigger_index > Len(triggers)
  BY <1>1, <1>5, <1>6 DEF MoreTriggers
<1>8. ASSUME loader.prev_trigger % chain.blockSize # 0, NEW k \in Of(event) PROVE Matched(event, k)
  <2>1. k \in {triggers[i] : i \in DOMAIN triggers}
    BY <1>5, <1>8 DEF ToSet
  <2>2. PICK i \in DOMAIN triggers : k = triggers[i]
    BY <2>1
  <2>3. i < loader.trigger_index
    BY <1>5, <1>6, <1>7
  <2> QED
    BY <1>2, <1>8, <2>2, <2>3 DEF PassedStored
<1>9. RecordsStored'
  <2>1. \A s \in stored' : /\ s.record = s.trigger /\ s.event \in 1..event /\ s.trigger \in Of(s.event)
                           /\ s = [event |-> s.event, record |-> s.record, trigger |-> s.trigger]
    BY <1>1, <1>2 DEF RecordsStored
  <2>2. \A e \in accepted' : e \in 1..event /\ \A k \in Of(e) : Matched(e, k)
    BY <1>2, <1>4, <1>8 DEF RecordsStored
  <2>3. \A n : Of(n)' = Of(n)
    BY <1>1 DEF Of
  <2>4. \A e, k : Matched(e, k)' <=> Matched(e, k)
    BY <1>1 DEF Matched
  <2> QED
    BY <1>1, <2>1, <2>2, <2>3, <2>4 DEF RecordsStored
<1>10. (FileInStep(loader) /\ NoneBehind(loader, event))'
  BY <1>1, <1>6 DEF FileInStep, NoneBehind, Of
<1>11. loader.trigger_index \notin DOMAIN triggers
  BY <1>5, <1>6, <1>7
<1>12. ~loader'.triggerSync => loader'.triggerNumber % chain'.blockSize = 0
  BY <1>1, <1>2, <1>11 DEF LoaderRight
<1> QED
  BY <1>1, <1>3, <1>9, <1>10, <1>12 DEF ScopeInv, Begun

\* Every step keeps the loader of records right.
LEMMA ScopeInvStep ==
    ASSUME LoopInv, ScopeInv, [Next]_vars
    PROVE  ScopeInv'
<1>1. chain' = chain /\ LoopInv'
  BY LoopKept
<1> SUFFICES ASSUME chain.module = "FASTPIX" PROVE ScopeInv'
  BY <1>1 DEF ScopeInv
<1>2. Scoped
  BY <1>1 DEF Scoped
<1>3. ASSUME ScopeKept PROVE ScopeInv'
  BY <1>3 DEF ScopeKept, ScopeInv, Begun
<1>4. CASE FASTPIXBegin
  <2>1. event \in Nat \ {0}
    BY DEF LoopInv
  <2>2. event = 1 \/ event > 1
    BY <2>1
  <2> QED
    BY <1>2, <1>4, <2>2, FirstBegun, LaterBegun
<1>5. CASE LoadMatching
  BY <1>2, <1>3, <1>5, LoadMatchingKept
<1>6. CASE DiscardRecord
  BY <1>2, <1>3, <1>6, DiscardRecordKept
<1>7. CASE DiscardRecords
  BY <1>2, <1>3, <1>7, DiscardRecordsKept
<1>8. CASE LoadPrevious
  BY <1>2, <1>3, <1>8, LoadPreviousKept
<1>9. CASE SkipTrigger
  BY <1>2, <1>3, <1>9, SkipTriggerKept
<1>10. CASE DiscardByTime
  BY <1>2, <1>3, <1>10, DiscardByTimeKept
<1>11. CASE FASTPIXDone
  BY <1>2, <1>11, DoneKept
<1>12. CASE ReadBeyondEnd
  <2>1. /\ at = "fastpix" /\ at' = "undefined" /\ event' = event
        /\ scope' = scope /\ stored' = stored /\ accepted' = accepted
    BY <1>12 DEF ReadBeyondEnd, Proceed, fastpixVars
  <2>2. ScopeTypes /\ RecordsStored
    BY <2>1 DEF ScopeInv, Begun
  <2>3. ScopeTypes'
    BY <1>1, <2>1, <2>2, ScopeSame
  <2>4. RecordsStored'
    BY <1>1, <2>1, <2>2 DEF RecordsStored, Matched, Of
  <2> QED
    BY <1>1, <2>1, <2>3, <2>4 DEF ScopeInv, Begun
<1>13. CASE ~FASTPIXNext
  <2>1. /\ UNCHANGED <<at, event>> \/ Initialize \/ NextEvent
        /\ scope' = scope /\ loader' = loader /\ stored' = stored /\ accepted' = accepted
    BY <1>13, OtherThanScope DEF fastpixVars
  <2>2. ScopeTypes => ScopeTypes'
    BY <1>1, <2>1, ScopeSame
  <2>3. RecordsStored /\ event' = event => RecordsStored'
    BY <1>1, <2>1 DEF RecordsStored, Matched, Of
  <2>4. ASSUME event' = event
        PROVE  /\ LoaderRight(loader) => LoaderRight(loader)'
               /\ PassedStored => PassedStored'
    <3>1. triggers' = triggers
      BY <1>1, <2>1, <2>4, ScopeSame
    <3>2. NoneBehind(loader, event) => NoneBehind(loader, event)'
      BY <1>1, <2>1, <2>4 DEF NoneBehind, Of
    <3> QED
      BY <1>1, <2>1, <2>4, <3>1, <3>2 DEF LoaderRight, FileInStep, PassedStored, Matched
  <2>5. FileInStep(loader) => FileInStep(loader)'
    BY <2>1 DEF FileInStep
  <2>6. CASE UNCHANGED <<at, event>>
    <3>1. ASSUME NoneBehind(loader, IF at = "begin" THEN event - 1 ELSE event)
          PROVE  NoneBehind(loader, IF at = "begin" THEN event - 1 ELSE event)'
      BY <1>1, <2>1, <2>6, <3>1 DEF NoneBehind, Of
    <3> QED
      BY <1>1, <2>1, <2>2, <2>3, <2>4, <2>5, <2>6, <3>1 DEF ScopeInv, Begun
  <2>7. CASE Initialize
    <3>1. at = "initialize" /\ at' = "begin" /\ event' = event
      BY <2>7 DEF Initialize, Proceed
    <3>2. event = 1 /\ ~Begun
      BY <3>1 DEF ScopeInv, Begun
    <3> QED
      BY <1>1, <2>1, <3>1, <3>2 DEF ScopeInv, Begun
  <2>8. CASE NextEvent
    <3>1. /\ at = "end"
          /\ \/ at' = "begin" /\ event' = event + 1
             \/ at' = "finalize" /\ event' = event
      BY <2>8 DEF NextEvent, EndOfEvent
    <3>2. event \in Nat \ {0}
      BY DEF LoopInv
    <3>3. /\ ScopeTypes /\ RecordsStored /\ FileInStep(loader) /\ NoneBehind(loader, event)
          /\ ~loader.triggerSync => loader.triggerNumber % chain.blockSize = 0
      BY <3>1 DEF ScopeInv, Begun
    <3>4. RecordsStored'
      <4>1. CASE event' = event
        BY <2>3, <3>3, <4>1
      <4>2. CASE event' = event + 1
        <5>1. 1..event \subseteq 1..event'
          BY <3>2, <4>2
        <5> QED
          BY <1>1, <2>1, <3>3, <5>1 DEF RecordsStored, Matched, Of
      <4> QED
        BY <3>1, <4>1, <4>2
    <3>5. NoneBehind(loader, IF at = "begin" THEN event - 1 ELSE event)'
      <4>1. (IF at' = "begin" THEN event' - 1 ELSE event') = event
        BY <3>1, <3>2
      <4> QED
        BY <1>1, <2>1, <3>3, <4>1 DEF NoneBehind, Of
    <3> QED
      BY <1>1, <2>1, <2>2, <2>5, <3>1, <3>2, <3>3, <3>4, <3>5 DEF ScopeInv, Begun
  <2> QED
    BY <2>1, <2>6, <2>7, <2>8
<1> QED
  BY <1>4, <1>5, <1>6, <1>7, <1>8, <1>9, <1>10, <1>11, <1>12, <1>13 DEF FASTPIXNext, FASTPIXStep

\* With a loader that is right, records and triggers are matched.
LEMMA RecordsRight ==
    ASSUME LoopInv, ScopeInv
    PROVE  RecordsMatched
<1> SUFFICES ASSUME chain.module = "FASTPIX" PROVE RecordsMatched
  BY DEF RecordsMatched
<1>1. CASE ~Begun
  BY <1>1 DEF ScopeInv, RecordsMatched
<1>2. CASE Begun
  <2>1. ScopeTypes /\ RecordsStored /\ Configured /\ event \in Nat \ {0}
    BY <1>2 DEF ScopeInv, LoopInv
  <2>2. ASSUME NEW s \in stored, NEW u \in stored, u.record = s.record PROVE u = s
    <3>1. /\ s.record = s.trigger /\ s.event \in Nat /\ s.trigger \in Of(s.event)
          /\ s = [event |-> s.event, record |-> s.record, trigger |-> s.trigger]
          /\ u.record = u.trigger /\ u.event \in Nat /\ u.trigger \in Of(u.event)
          /\ u = [event |-> u.event, record |-> u.record, trigger |-> u.trigger]
      BY <2>1 DEF RecordsStored
    <3>2. s.trigger = u.trigger /\ s.trigger \in Nat
      <4>1. Of(s.event) \subseteq scope.seen
        BY DEF Of
      <4>2. scope.seen \subseteq 1..chain.triggers /\ chain.triggers \in Nat
        BY <2>1, ScopeChain DEF ScopeTypes
      <4> QED
        BY <2>2, <3>1, <4>1, <4>2
    <3>3. ~(s.event < u.event)
      BY <2>1, <3>1, <3>2, EventsApart
    <3>4. ~(u.event < s.event)
      BY <2>1, <3>1, <3>2, EventsApart
    <3>5. s.event = u.event
      BY <3>1, <3>3, <3>4
    <3> QED
      BY <2>2, <3>1, <3>2, <3>5
  <2>3. ASSUME NEW e \in accepted, NEW k \in ToSet(TriggersOf(e))
        PROVE  [event |-> e, record |-> k, trigger |-> k] \in stored
    <3>1. e \in Nat \ {0} /\ \A j \in Of(e) : Matched(e, j)
      BY <2>1 DEF RecordsStored
    <3>2. ToSet(TriggersOf(e)) = Of(e)
      BY <2>1, <3>1, TriggersInOrder
    <3> QED
      BY <3>1, <3>2 DEF Matched
  <2> QED
    BY <2>1, <2>2, <2>3 DEF RecordsMatched, RecordsStored
<1> QED
  BY <1>1, <1>2

\* Only a chain with words decodes.
LEMMA NothingDecoded ==
    ASSUME LoopInv, [Next]_vars, chain.module # "Words"
    PROVE  decoded' = decoded
<1> USE DEF decodingVars, loadingVars, otherVars, analysisVars
<1>1. CASE UNCHANGED vars
  BY <1>1 DEF vars
<1>2. CASE Initialize
  BY <1>2 DEF Initialize
<1>3. CASE NextEvent
  BY <1>3 DEF NextEvent
<1>4. CASE ClusteringNext \/ TrackNext
  BY <1>4 DEF ClusteringNext, Cluster, TrackNext, Track
<1>5. CASE DUTNext \/ FilterNext \/ MaskNext \/ FilesNext \/ ConfigNext \/ TimingNext \/ PairNext
  BY <1>5 DEF DUTNext, FilterNext, MaskNext, FilesNext, ConfigNext, TimingNext, PairNext
<1>6. CASE FASTPIXNext \/ DeadtimeNext
  BY <1>6 DEF FASTPIXNext, DeadtimeNext
<1>7. ~DecodingNext
  BY OwnSteps DEF LoopInv
<1> QED
  BY <1>1, <1>2, <1>3, <1>4, <1>5, <1>6, <1>7, NextSteps

TimesInv == WordInv /\ WordTimes /\ (chain.module # "Words" => decoded = Nothing)

\* Every step keeps the times that were decoded.
LEMMA TimesInvStep ==
    ASSUME LoopInv, TimesInv, [Next]_vars
    PROVE  TimesInv'
<1>1. chain' = chain
  BY LoopKept
<1>2. CASE chain.module = "Words"
  BY <1>1, <1>2, WordInvStep DEF TimesInv
<1>3. CASE chain.module # "Words"
  <2>1. decoded' = Nothing
    BY <1>3, NothingDecoded DEF TimesInv
  <2> QED
    BY <1>1, <1>3, <2>1 DEF TimesInv, WordInv, WordTimes, PixelTimes, TriggerTimes, HitTimes, Nothing
<1> QED
  BY <1>2, <1>3

\* What is read has its time, and goes to its event.
THEOREM TimesCorrect == Spec => []TimesDecoded
<1>1. Init => TimesInv
  <2>1. Init => at = "initialize" /\ decoded = Nothing
    BY DEF Init, ChainInit, AnalysisInit, DecodingInit
  <2> QED
    BY <2>1 DEF TimesInv, WordInv, WordTimes, PixelTimes, TriggerTimes, HitTimes, Nothing
<1>2. Init => ScopeInv
  BY DEF Init, ChainInit, AnalysisInit, FASTPIXInit, ScopeInv, Begun
<1>3. LoopInv /\ TimesInv /\ [Next]_vars => TimesInv'
  BY TimesInvStep
<1>4. LoopInv /\ ScopeInv /\ [Next]_vars => ScopeInv'
  BY ScopeInvStep
<1>5. LoopInv /\ ScopeInv /\ TimesInv => TimesDecoded
  BY RecordsRight DEF TimesDecoded, TimesInv, WordTimes
<1> QED
  BY <1>1, <1>2, <1>3, <1>4, <1>5, NextLoop, PTL DEF Spec

-----------------------------------------------------------------------------
(* What one run stores for the next *)

\* The data and the references of a chain with files, by FilesAssumption.
LEMMA FilesChain ==
    ASSUME Configured, chain.module = "Files", NEW data \in Inputs
    PROVE  /\ IsFiniteSet(DOMAIN data)
           /\ \A b \in DOMAIN data :
                /\ data[b] \in Seq(Nat)
                /\ data[b] # <<>> => \A to \in chain.refers[b[1]] : \E e \in DOMAIN data : e[1] = to
<1> DEFINE c == Chains[setup]
<1>1. c.module = "Files"
  BY ChainsAssumption DEF Configured
<1>2. "refers" \in DOMAIN c
  BY <1>1, FilesAssumption DEF Configured
<1>3. chain.refers = c.refers
  BY <1>2 DEF Configured
<1>4. /\ IsFiniteSet(DOMAIN data)
      /\ \A b \in DOMAIN data :
            /\ data[b] \in Seq(Nat)
            /\ data[b] # <<>> => \A to \in c.refers[b[1]] : \E e \in DOMAIN data : e[1] = to
  BY <1>1, FilesAssumption DEF Configured, Inputs
<1> QED
  BY <1>3, <1>4

\* The classes of all data.
AllClasses == UNION {Classes(DOMAIN data) : data \in Inputs}

\* What the entry of a branch is for an event.
EntryOf(data, b) == IF b \in DOMAIN data /\ Chosen(chain.writer, b[1]) THEN data[b] ELSE <<>>

\* Every branch has an entry for each event, though it was made later; each class has
\* a tree when it has a branch.
FileRight ==
    /\ written \in Seq(Inputs) /\ last_event = Len(written) /\ Len(events) = Len(written)
    /\ events \in Seq(Nat)
    /\ Len(written) = 0 => DOMAIN branches = {}
    /\ \A b \in DOMAIN branches :
        /\ branches[b] \in Seq(Seq(Nat)) /\ Len(branches[b]) = Len(written)
        /\ \A m \in 1..Len(written) : branches[b][m] = EntryOf(written[m], b)
    /\ \A m \in 1..Len(written) : \A b \in DOMAIN written[m] :
            Chosen(chain.writer, b[1]) => b \in DOMAIN branches
    /\ trees \in Seq(AllClasses)
    /\ \A c : Has(trees, c) <=> c \in Classes(DOMAIN branches)

FilesInv ==
    chain.module = "Files" =>
        /\ FileRight /\ RoundTrip
        /\ at = "read" => event \in 1..Len(written)

\* All classes in some order.
LEMMA OrderHas ==
    ASSUME Configured, chain.module = "Files", NEW data \in Inputs,
           NEW order \in SetToSeqs(Classes(DOMAIN data))
    PROVE  order \in Seq(AllClasses) /\ \A c : Has(order, c) <=> c \in Classes(DOMAIN data)
<1> DEFINE C == Classes(DOMAIN data)
           D == DOMAIN data
<1>1. IsFiniteSet(D)
  BY FilesChain
<1>2. IsFiniteSet(C)
  <2> DEFINE f == [b \in D |-> b[1]]
  <2>1. f \in Surjection(D, C)
    <3>1. f \in [D -> C]
      BY DEF Classes
    <3>2. \A c \in C : \E b \in D : f[b] = c
      BY DEF Classes
    <3> QED
      BY <3>1, <3>2 DEF Surjection
  <2> HIDE DEF f, C, D
  <2> QED
    BY <1>1, <2>1, FS_Surjection
<1> DEFINE n == Cardinality(C)
<1>3. n \in Nat
  BY <1>2, FS_CardinalityType
<1>4. order \in [1..n -> C] /\ \A i, j \in 1..n : i # j => order[i] # order[j]
  BY DEF SetToSeqs
<1>5. C \subseteq AllClasses
  BY DEF AllClasses
<1> HIDE DEF C, n
<1>6. order \in Seq(C) /\ Len(order) = n /\ order \in Seq(AllClasses)
  BY <1>3, <1>4, <1>5
<1>7. {order[i] : i \in 1..n} = C
  <2> DEFINE R == {order[i] : i \in 1..n}
  <2>1. order \in Bijection(1..n, R)
    <3>1. order \in [1..n -> R]
      BY <1>4
    <3> QED
      BY <1>4, <3>1 DEF Bijection, Injection, Surjection, IsInjective
  <2>2. IsFiniteSet(1..n) /\ Cardinality(1..n) = n
    <3>1. IsFiniteSet(1..n) /\ Cardinality(1..n) = IF 1 > n THEN 0 ELSE n - 1 + 1
      BY <1>3, FS_Interval
    <3> QED
      BY <1>3, <3>1
  <2>3. Cardinality(R) = n
    <3> HIDE DEF R
    <3> QED
      BY <2>1, <2>2, FS_Bijection DEF ExistsBijection
  <2>4. R \subseteq C
    BY <1>4
  <2> HIDE DEF R
  <2>5. R = C
    BY <1>2, <2>3, <2>4, FS_Subset DEF n
  <2> QED
    BY <2>5 DEF R
<1>8. \A c : Has(order, c) <=> c \in C
  BY <1>6, <1>7 DEF Has
<1> QED
  BY <1>6, <1>8 DEF C

\* An event is written: every branch gets one more entry.
LEMMA WriterKept ==
    ASSUME LoopInv, chain.module = "Files", FileRight, chain' = chain, setup' = setup, FileWriterRun
    PROVE  FileRight'
<1>1. Configured /\ event \in Nat
  BY DEF LoopInv
<1>0. PICK data \in Inputs : \E order \in SetToSeqs(Classes(DOMAIN data)) :
        LET kept == {b \in DOMAIN data : Chosen(chain.writer, b[1])}
            Stored(b) == IF b \in kept THEN data[b] ELSE <<>>
            known == ToSet(trees)
        IN  /\ written' = Append(written, data)
            /\ events' = Append(events, event)
            /\ trees' = trees \o Kept(order, Classes(kept) \ known)
            /\ branches' = [b \in DOMAIN branches \cup kept |-> Append(Before(b), Stored(b))]
            /\ last_event' = last_event + 1
  BY DEF FileWriterRun
<1>2. PICK order \in SetToSeqs(Classes(DOMAIN data)) :
        LET kept == {b \in DOMAIN data : Chosen(chain.writer, b[1])}
            Stored(b) == IF b \in kept THEN data[b] ELSE <<>>
            known == ToSet(trees)
        IN  /\ written' = Append(written, data)
            /\ events' = Append(events, event)
            /\ trees' = trees \o Kept(order, Classes(kept) \ known)
            /\ branches' = [b \in DOMAIN branches \cup kept |-> Append(Before(b), Stored(b))]
            /\ last_event' = last_event + 1
  BY <1>0
<1> DEFINE kept == {b \in DOMAIN data : Chosen(chain.writer, b[1])}
           n == Len(written)
           more == Kept(order, Classes(kept) \ ToSet(trees))
           empty == <<>>
<1>3. /\ written' = Append(written, data) /\ events' = Append(events, event)
      /\ trees' = trees \o more /\ last_event' = last_event + 1
      /\ branches' = [b \in DOMAIN branches \cup kept |-> Append(Before(b), EntryOf(data, b))]
  <2>1. \A b : (IF b \in kept THEN data[b] ELSE <<>>) = EntryOf(data, b)
    BY DEF EntryOf
  <2> QED
    BY <1>2, <2>1
<1>4. n \in Nat /\ written \in Seq(Inputs) /\ last_event = n
  BY LenProperties DEF FileRight
<1>5. /\ written' \in Seq(Inputs) /\ Len(written') = n + 1 /\ written'[n + 1] = data
      /\ \A m \in 1..n : written'[m] = written[m]
  BY <1>3, <1>4
<1>6. /\ events' \in Seq(Nat) /\ Len(events') = n + 1
  BY <1>1, <1>3 DEF FileRight
<1>7. Inputs' = Inputs /\ AllClasses' = AllClasses
  BY DEF Inputs, AllClasses, Classes
<1>8. \A b \in DOMAIN data : data[b] \in Seq(Nat)
  BY <1>1, FilesChain
<1>9. \A b : EntryOf(data, b) \in Seq(Nat)
  <2>1. <<>> \in Seq(Nat)
    OBVIOUS
  <2> QED
    BY <1>8, <2>1 DEF EntryOf
<1>11. ASSUME NEW b \in DOMAIN branches \cup kept
       PROVE  /\ Before(b) \in Seq(Seq(Nat)) /\ Len(Before(b)) = n
              /\ \A m \in 1..n : Before(b)[m] = EntryOf(written[m], b)
  <2>1. CASE b \in DOMAIN branches
    BY <2>1 DEF Before, FileRight
  <2>2. CASE b \notin DOMAIN branches
    <3>1. Before(b) = [m \in 1..n |-> empty]
      BY <1>4, <2>2 DEF Before
    <3>2. \A m \in 1..n : EntryOf(written[m], b) = empty
      BY <2>2 DEF FileRight, EntryOf
    <3>3. empty \in Seq(Nat)
      OBVIOUS
    <3> HIDE DEF empty, n
    <3> QED
      BY <1>4, <3>1, <3>2, <3>3
  <2> QED
    BY <2>1, <2>2
<1>12. DOMAIN branches' = DOMAIN branches \cup kept
  BY <1>3
<1>13. ASSUME NEW b \in DOMAIN branches'
       PROVE  /\ branches'[b] \in Seq(Seq(Nat)) /\ Len(branches'[b]) = n + 1
              /\ \A m \in 1..(n + 1) : branches'[b][m] = EntryOf(written'[m], b)
  <2> DEFINE old == Before(b)
             new == EntryOf(data, b)
  <2>1. branches'[b] = Append(old, new)
    BY <1>3, <1>12
  <2>2. old \in Seq(Seq(Nat)) /\ Len(old) = n /\ \A m \in 1..n : old[m] = EntryOf(written[m], b)
    BY <1>11, <1>12
  <2>3. new \in Seq(Nat)
    BY <1>9
  <2> HIDE DEF old, new, n
  <2>4. Append(old, new) \in Seq(Seq(Nat)) /\ Len(Append(old, new)) = n + 1
        /\ Append(old, new)[n + 1] = new /\ \A m \in 1..n : Append(old, new)[m] = old[m]
    BY <2>2, <2>3
  <2>5. \A m \in 1..(n + 1) : Append(old, new)[m] = EntryOf(written'[m], b)
    <3> TAKE m \in 1..(n + 1)
    <3>1. CASE m = n + 1
      BY <1>5, <2>4, <3>1 DEF new
    <3>2. CASE m # n + 1
      <4>1. m \in 1..n
        BY <1>4, <3>2
      <4> QED
        BY <1>5, <2>2, <2>4, <4>1
    <3> QED
      BY <3>1, <3>2
  <2> QED
    BY <2>1, <2>4, <2>5
<1>14. \A m \in 1..(n + 1) : \A b \in DOMAIN written'[m] :
            Chosen(chain.writer, b[1]) => b \in DOMAIN branches'
  <2> TAKE m \in 1..(n + 1)
  <2> TAKE b \in DOMAIN written'[m]
  <2> HAVE Chosen(chain.writer, b[1])
  <2>1. CASE m = n + 1
    BY <1>5, <1>12, <2>1
  <2>2. CASE m # n + 1
    <3>1. m \in 1..n
      BY <1>4, <2>2
    <3> QED
      BY <1>5, <1>12, <3>1 DEF FileRight
  <2> QED
    BY <2>1, <2>2
<1>15. trees' \in Seq(AllClasses) /\ \A c : Has(trees', c) <=> Has(trees, c) \/ c \in Classes(kept)
  <2> DEFINE T == AllClasses
             S == Classes(kept) \ ToSet(trees)
  <2>1. order \in Seq(T) /\ \A c : Has(order, c) <=> c \in Classes(DOMAIN data)
    BY <1>1, OrderHas
  <2>2. trees \in Seq(T)
    BY DEF FileRight
  <2>3. \A c : c \in ToSet(trees) <=> Has(trees, c)
    BY <2>2 DEF ToSet, Has
  <2>4. Classes(kept) \subseteq Classes(DOMAIN data)
    BY DEF Classes
  <2> HIDE DEF T
  <2>5. more \in Seq(T) /\ \A c : Has(more, c) <=> Has(order, c) /\ c \in S
    BY <2>1, KeptHas
  <2> HIDE DEF more
  <2>6. trees \o more \in Seq(T) /\ \A c : Has(trees \o more, c) <=> Has(trees, c) \/ Has(more, c)
    BY <2>2, <2>5, ConcatHas
  <2>7. \A c : Has(trees', c) <=> Has(trees, c) \/ c \in Classes(kept)
    <3> TAKE c
    <3>1. Has(trees', c) <=> Has(trees, c) \/ Has(more, c)
      BY <1>3, <2>6 DEF more
    <3>2. Has(more, c) <=> c \in Classes(DOMAIN data) /\ c \in Classes(kept) /\ ~Has(trees, c)
      BY <2>1, <2>3, <2>5
    <3> QED
      BY <2>4, <3>1, <3>2
  <2> QED
    BY <1>3, <2>6, <2>7 DEF T, more
<1>16. Classes(DOMAIN branches') = Classes(DOMAIN branches) \cup Classes(kept)
  BY <1>12 DEF Classes
<1>17. \A c : Has(trees', c) <=> c \in Classes(DOMAIN branches')
  BY <1>15, <1>16 DEF FileRight
<1> HIDE DEF n, kept, more
<1>19. /\ written' \in Seq(Inputs') /\ last_event' = Len(written') /\ Len(events') = Len(written')
       /\ events' \in Seq(Nat) /\ Len(written') # 0
  BY <1>3, <1>4, <1>5, <1>6, <1>7
<1>20. (\A b \in DOMAIN branches :
          /\ branches[b] \in Seq(Seq(Nat)) /\ Len(branches[b]) = Len(written)
          /\ \A m \in 1..Len(written) : branches[b][m] = EntryOf(written[m], b))'
  <2>1. \A b \in DOMAIN branches' :
          /\ branches'[b] \in Seq(Seq(Nat)) /\ Len(branches'[b]) = Len(written')
          /\ \A m \in 1..Len(written') : branches'[b][m] = EntryOf(written'[m], b)
    BY <1>5, <1>13
  <2> QED
    BY <2>1 DEF EntryOf, Chosen
<1>21. (\A m \in 1..Len(written) : \A b \in DOMAIN written[m] :
            Chosen(chain.writer, b[1]) => b \in DOMAIN branches)'
  BY <1>5, <1>14 DEF Chosen
<1>22. (trees \in Seq(AllClasses) /\ \A c : Has(trees, c) <=> c \in Classes(DOMAIN branches))'
  BY <1>7, <1>15, <1>17 DEF Has, Classes
<1> QED
  BY <1>19, <1>20, <1>21, <1>22 DEF FileRight

\* The trees that are read are those of the file that are chosen.
LEMMA ReadHas ==
    ASSUME FileRight
    PROVE  /\ ReadTrees \in Seq(AllClasses)
           /\ \A c : Has(ReadTrees, c) <=> c \in Classes(DOMAIN branches) /\ Chosen(chain.reader, c)
           /\ \A b : b \in Read <=> b \in DOMAIN branches /\ Chosen(chain.reader, b[1])
<1> DEFINE T == AllClasses
           S == {c \in ToSet(trees) : Chosen(chain.reader, c)}
           r == ReadTrees
<1>1. trees \in Seq(T) /\ \A c : Has(trees, c) <=> c \in Classes(DOMAIN branches)
  BY DEF FileRight
<1>2. \A c : c \in ToSet(trees) <=> Has(trees, c)
  BY <1>1 DEF ToSet, Has
<1>3. r = Kept(trees, S)
  BY DEF ReadTrees
<1> HIDE DEF T, r
<1>4. r \in Seq(T) /\ \A c : Has(r, c) <=> Has(trees, c) /\ c \in S
  BY <1>1, <1>3, KeptHas
<1>5. \A c : Has(r, c) <=> c \in Classes(DOMAIN branches) /\ Chosen(chain.reader, c)
  BY <1>1, <1>2, <1>4
<1>6. \A c : c \in ToSet(r) <=> Has(r, c)
  BY <1>4 DEF ToSet, Has
<1>7. \A b : b \in DOMAIN branches => b[1] \in Classes(DOMAIN branches)
  BY DEF Classes
<1>8. Read = {b \in DOMAIN branches : b[1] \in ToSet(r)}
  BY DEF Read, r
<1> QED
  BY <1>4, <1>5, <1>6, <1>7, <1>8 DEF T, r

\* A reference is missing only if its tree is not read.
LEMMA ReferenceFound ==
    ASSUME NEW T, ReadTrees \in Seq(T), NEW from, NEW to, Has(ReadTrees, to)
    PROVE  Reference(from, to) # "missing"
<1> DEFINE r == ReadTrees
           I == {i \in 1..Len(r) : r[i] = to}
<1>1. Len(r) \in Nat
  BY LenProperties
<1>2. I # {} /\ I \in SUBSET (1..Len(r))
  BY DEF Has
<1>3. Min(I) \in I
  <2> HIDE DEF I, r
  <2> QED
    BY <1>1, <1>2, HasMaxMin
<1>4. Min(I) # 0
  BY <1>1, <1>3
<1>5. SelectInSeq(ReadTrees, LAMBDA c : c = to) = Min(I)
  BY <1>2 DEF SelectInSeq
<1> QED
  BY <1>4, <1>5 DEF Reference

\* An event is read: what was written of the classes that both sides choose.
LEMMA ReaderKept ==
    ASSUME LoopInv, FilesInv, chain.module = "Files", chain' = chain, setup' = setup, FileReaderRun
    PROVE  FilesInv'
<1>1. /\ FileRight /\ Configured /\ at = "read" /\ event \in 1..Len(written)
      /\ event' = event + 1 /\ written' = written /\ branches' = branches /\ trees' = trees
      /\ events' = events /\ last_event' = last_event
  BY DEF FileReaderRun, FilesInv, LoopInv
<1>2. Len(written) \in Nat /\ written \in Seq(Inputs) /\ Len(events) = Len(written)
  BY <1>1, LenProperties DEF FileRight
<1> DEFINE data == written[event]
           present == {b \in Read : branches[b][event] # <<>>}
           Both(c) == Chosen(chain.writer, c) /\ Chosen(chain.reader, c)
           Given(b) == [k \in DOMAIN branches[b][event] |->
                            [object |-> branches[b][event][k], refs |-> loadHistory(b[1])]]
<1>3. data \in Inputs
  BY <1>1, <1>2
<1>4. clipboard' = [b \in present |-> Given(b)]
  BY DEF FileReaderRun
<1>5. \A b \in DOMAIN branches : branches[b][event] = EntryOf(data, b)
  BY <1>1 DEF FileRight
<1>6. \A b \in DOMAIN data : Chosen(chain.writer, b[1]) => b \in DOMAIN branches
  BY <1>1 DEF FileRight
<1>7. \A b : b \in Read <=> b \in DOMAIN branches /\ Chosen(chain.reader, b[1])
  BY <1>1, ReadHas
<1>8. present = {b \in DOMAIN data : data[b] # <<>> /\ Both(b[1])}
  BY <1>5, <1>6, <1>7 DEF EntryOf
<1>9. ASSUME NEW b \in present
      PROVE  /\ clipboard'[b] = Given(b) /\ branches[b][event] = data[b] /\ data[b] \in Seq(Nat)
             /\ data[b] # <<>> /\ b \in DOMAIN data
  <2>1. b \in DOMAIN data /\ data[b] # <<>> /\ Chosen(chain.writer, b[1]) /\ b \in DOMAIN branches
    BY <1>7, <1>8
  <2>2. data[b] \in Seq(Nat)
    BY <1>1, <1>3, <2>1, FilesChain
  <2>3. branches[b][event] = data[b]
    BY <1>5, <2>1 DEF EntryOf
  <2> QED
    BY <1>4, <2>1, <2>2, <2>3
<1>10. ASSUME NEW b \in present
       PROVE  /\ [k \in DOMAIN clipboard'[b] |-> clipboard'[b][k].object] = data[b]
              /\ \A k \in DOMAIN clipboard'[b], c \in chain.refers[b[1]] :
                    clipboard'[b][k].refs[c] = "missing" => ~Both(c)
  <2> DEFINE s == data[b]
             h == loadHistory(b[1])
             g == clipboard'[b]
  <2>1. s \in Seq(Nat) /\ g = [k \in DOMAIN s |-> [object |-> s[k], refs |-> h]]
    BY <1>9
  <2>2. h = [to \in chain.refers[b[1]] |-> Reference(b[1], to)]
    BY DEF loadHistory
  <2> HIDE DEF s, g, h
  <2>3. DOMAIN g = DOMAIN s /\ \A k \in DOMAIN g : g[k].object = s[k] /\ g[k].refs = h
    BY <2>1
  <2>4. [k \in DOMAIN g |-> g[k].object] = s
    <3>1. [k \in DOMAIN g |-> g[k].object] = [k \in DOMAIN s |-> s[k]]
      BY <2>3
    <3>2. s = [k \in DOMAIN s |-> s[k]]
      BY <2>1
    <3> QED
      BY <3>1, <3>2
  <2>5. ASSUME NEW c \in chain.refers[b[1]], Both(c) PROVE h[c] # "missing"
    <3>1. PICK e \in DOMAIN data : e[1] = c
      <4>1. b \in DOMAIN data /\ data[b] # <<>>
        BY <1>9
      <4>2. \A to \in chain.refers[b[1]] : \E e \in DOMAIN data : e[1] = to
        <5> HIDE DEF data
        <5> QED
          BY <1>1, <1>3, <4>1, FilesChain
      <4> QED
        BY <4>2
    <3>2. e \in DOMAIN branches
      BY <1>6, <2>5, <3>1
    <3>3. c \in Classes(DOMAIN branches)
      BY <3>1, <3>2 DEF Classes
    <3>4. Has(ReadTrees, c) /\ ReadTrees \in Seq(AllClasses)
      BY <1>1, <2>5, <3>3, ReadHas
    <3> QED
      BY <2>2, <3>4, ReferenceFound
  <2> QED
    BY <2>3, <2>4, <2>5 DEF s, g
<1>11. DOMAIN clipboard' = present
  BY <1>4
<1>12. event' - 1 = event /\ event' > 1
  BY <1>1, <1>2
<1>13. RoundTrip'
  <2>1. /\ written'[event' - 1] = data
        /\ \A c : (Chosen(chain.writer, c) /\ Chosen(chain.reader, c))' <=> Both(c)
    BY <1>1, <1>12 DEF Chosen
  <2>2. DOMAIN clipboard' = {b \in DOMAIN data : data[b] # <<>> /\ Both(b[1])}
    BY <1>8, <1>11
  <2> HIDE DEF data, present, Both, Given
  <2> QED
    BY <1>10, <1>11, <2>1, <2>2 DEF RoundTrip
<1>14. FileRight'
  <2>1. Inputs' = Inputs /\ AllClasses' = AllClasses
    BY DEF Inputs, AllClasses, Classes
  <2> QED
    BY <1>1, <2>1 DEF FileRight, EntryOf, Chosen, Classes, Has
<1>15. at' = "read" => event' \in 1..Len(written')
  BY <1>1, <1>2 DEF FileReaderRun
<1> QED
  BY <1>13, <1>14, <1>15 DEF FilesInv

\* A step that is neither of FileWriter nor of FileReader, of a chain with them.
LEMMA OtherThanFiles ==
    ASSUME LoopInv, [Next]_vars, chain.module = "Files", ~FilesNext
    PROVE  /\ UNCHANGED <<at, event>> \/ at' \in {"begin", "finalize"}
           /\ UNCHANGED fileVars
<1> USE DEF fileVars, analysisVars, vars, chainVars, loopVars
<1>1. CASE UNCHANGED vars
  BY <1>1
<1>2. CASE Initialize
  BY <1>2 DEF Initialize, Proceed
<1>3. CASE NextEvent
  BY <1>3 DEF NextEvent, EndOfEvent
<1>4. ASSUME Next, ~Initialize, ~NextEvent PROVE FALSE
  BY <1>4, NextSteps, OwnSteps DEF LoopInv
<1> QED
  BY <1>1, <1>2, <1>3, <1>4

\* As long as the file is not written, it is right.
LEMMA FileSame ==
    ASSUME UNCHANGED <<chain, setup, fileVars>>, FileRight
    PROVE  FileRight'
<1>1. Inputs' = Inputs /\ AllClasses' = AllClasses
  BY DEF Inputs, AllClasses, Classes
<1> QED
  BY <1>1 DEF fileVars, FileRight, EntryOf, Chosen, Classes, Has

\* What is read has been written before.
LEMMA ReaderBegins ==
    ASSUME FilesInv, chain.module = "Files", chain' = chain, setup' = setup, FileReaderInitialize
    PROVE  FilesInv'
<1>1. /\ FileRight /\ event' = 1 /\ UNCHANGED fileVars
      /\ at' = IF ReadTrees = <<>> THEN "aborted" ELSE "read"
  BY DEF FileReaderInitialize, FilesInv
<1>2. FileRight'
  BY <1>1, FileSame
<1>3. RoundTrip'
  BY <1>1 DEF RoundTrip
<1>4. ASSUME at' = "read" PROVE Len(written) # 0
  <2>1. ReadTrees \in Seq(AllClasses) /\ ReadTrees # <<>>
    BY <1>1, <1>4, ReadHas
  <2>2. Has(ReadTrees, ReadTrees[1])
    <3> DEFINE r == ReadTrees
               T == AllClasses
    <3>1. r \in Seq(T) /\ r # <<>>
      BY <2>1
    <3> HIDE DEF r, T
    <3>2. 1 \in 1..Len(r)
      BY <3>1
    <3>3. Has(r, r[1])
      BY <3>2 DEF Has
    <3> QED
      BY <3>3 DEF r
  <2>3. ReadTrees[1] \in Classes(DOMAIN branches)
    BY <1>1, <2>2, ReadHas
  <2> QED
    BY <1>1, <2>3 DEF FileRight, Classes
<1>5. at' = "read" => event' \in 1..Len(written')
  <2>1. Len(written) \in Nat /\ written' = written
    BY <1>1, LenProperties DEF FileRight, fileVars
  <2> QED
    BY <1>1, <1>4, <2>1
<1> QED
  BY <1>2, <1>3, <1>5 DEF FilesInv

\* Every step keeps the file right, and what is read from it.
LEMMA FilesInvStep ==
    ASSUME LoopInv, FilesInv, [Next]_vars
    PROVE  FilesInv'
<1>1. chain' = chain /\ setup' = setup
  BY LoopStep DEF LoopInv
<1>2. CASE chain.module # "Files"
  BY <1>1, <1>2 DEF FilesInv
<1>3. CASE chain.module = "Files" /\ FilesNext
  <2>1. CASE FileWriterRun
    <3>1. FileRight'
      BY <1>1, <1>3, <2>1, WriterKept DEF FilesInv
    <3>2. at' = "end"
      BY <2>1 DEF FileWriterRun, Proceed
    <3> QED
      BY <3>1, <3>2 DEF FilesInv, RoundTrip
  <2>2. CASE FileWriterFinalize
    <3>1. at' = "reader" /\ UNCHANGED fileVars
      BY <2>2 DEF FileWriterFinalize, Proceed
    <3>2. FileRight'
      BY <1>1, <1>3, <3>1, FileSame DEF FilesInv
    <3> QED
      BY <3>1, <3>2 DEF FilesInv, RoundTrip
  <2>3. CASE FileReaderInitialize
    BY <1>1, <1>3, <2>3, ReaderBegins
  <2>4. CASE FileReaderRun
    BY <1>1, <1>3, <2>4, ReaderKept
  <2> QED
    BY <1>3, <2>1, <2>2, <2>3, <2>4 DEF FilesNext, FilesStep
<1>4. CASE chain.module = "Files" /\ ~FilesNext
  <2>1. /\ UNCHANGED <<at, event>> \/ at' \in {"begin", "finalize"}
        /\ UNCHANGED fileVars
    BY <1>4, OtherThanFiles
  <2>2. FileRight'
    BY <1>1, <1>4, <2>1, FileSame DEF FilesInv
  <2>3. CASE at' \in {"begin", "finalize"}
    BY <2>2, <2>3 DEF FilesInv, RoundTrip
  <2>4. CASE UNCHANGED <<at, event>>
    <3>1. RoundTrip'
      BY <1>1, <1>4, <2>1, <2>4 DEF FilesInv, RoundTrip, fileVars, Chosen
    <3>2. at' = "read" => event' \in 1..Len(written')
      BY <1>4, <2>1, <2>4 DEF FilesInv, fileVars
    <3> QED
      BY <2>2, <3>1, <3>2 DEF FilesInv
  <2> QED
    BY <2>1, <2>3, <2>4
<1> QED
  BY <1>2, <1>3, <1>4

\* No file has been written at the start.
LEMMA FilesBegin == Init => FilesInv
<1> SUFFICES ASSUME Init, chain.module = "Files" PROVE FilesInv
  BY DEF FilesInv
<1>1. /\ written = <<>> /\ events = <<>> /\ trees = <<>> /\ branches = <<>>
      /\ last_event = 0 /\ at = "initialize"
  BY DEF Init, ChainInit, AnalysisInit, FileInit
<1>2. /\ Len(<<>>) = 0 /\ <<>> \in Seq(Inputs) /\ <<>> \in Seq(Nat) /\ DOMAIN <<>> = {}
      /\ <<>> \in Seq(AllClasses)
  OBVIOUS
<1>3. \A c : ~Has(<<>>, c) /\ c \notin Classes({})
  BY <1>2 DEF Has, Classes
<1>4. FileRight
  BY <1>1, <1>2, <1>3 DEF FileRight
<1> QED
  BY <1>1, <1>4 DEF FilesInv, RoundTrip

-----------------------------------------------------------------------------
(* What stays masked *)

\* A masked pixel has no hits and is in the mask map, from the first event on.
MaskInv ==
    chain.module = "Mask" =>
        /\ at # "initialize" =>
            /\ occupancy \in [Bins -> Nat]
            /\ \A p \in Bins : IsMasked(chain.det, masked, p) => occupancy[p] = 0 /\ p \in maskmap
        /\ MasksKept

\* A step that is not one of MaskCreator, of a chain with it.
LEMMA OtherThanMask ==
    ASSUME LoopInv, [Next]_vars, chain.module = "Mask", ~MaskNext
    PROVE  /\ at' = at \/ (at = "end" /\ at' \in {"begin", "finalize"})
           /\ UNCHANGED maskVars
<1> USE DEF maskVars, analysisVars, vars, chainVars, loopVars
<1>1. CASE UNCHANGED vars
  BY <1>1
<1>2. CASE Initialize
  BY <1>2 DEF Initialize
<1>3. CASE NextEvent
  <2>1. UNCHANGED maskVars
    BY <1>3 DEF NextEvent
  <2>2. at = "end" /\ at' \in {"begin", "finalize"}
    BY <1>3 DEF NextEvent, EndOfEvent
  <2> QED
    BY <2>1, <2>2
<1>4. ASSUME Next, ~Initialize, ~NextEvent PROVE FALSE
  BY <1>4, NextSteps, OwnSteps DEF LoopInv
<1> QED
  BY <1>1, <1>2, <1>3, <1>4

\* An entry of the file for each pixel of the map gives it back.
LEMMA EntryOfPixel ==
    ASSUME NEW p \in Bins
    PROVE  p \in EntryPixels(chain.det, [id |-> "p", col |-> p[1], row |-> p[2]])
<1> DEFINE e == [id |-> "p", col |-> p[1], row |-> p[2]]
<1>1. p = <<p[1], p[2]>>
  BY DEF Bins
<1>2. e.id = "p" /\ e.col = p[1] /\ e.row = p[2]
  OBVIOUS
<1> HIDE DEF e
<1>3. EntryPixels(chain.det, e) = {<<e.col, e.row>>}
  BY <1>2 DEF EntryPixels
<1> QED
  BY <1>1, <1>2, <1>3 DEF e

\* The mask map begins with what is masked.
LEMMA MaskBegins ==
    ASSUME chain' = chain, chain.module = "Mask", MaskInitialize
    PROVE  MaskInv'
<1>1. /\ at' = "begin" /\ occupancy' = [p \in Bins |-> 0]
      /\ maskmap' = {p \in Bins : IsMasked(chain.det, masked', p)}
  BY DEF MaskInitialize, Proceed, Booked
<1>2. Bins' = Bins
  BY DEF Bins
<1>3. (/\ occupancy \in [Bins -> Nat]
       /\ \A p \in Bins : IsMasked(chain.det, masked, p) => occupancy[p] = 0 /\ p \in maskmap)'
  BY <1>1, <1>2 DEF IsMasked
<1> QED
  BY <1>1, <1>3 DEF MaskInv, MasksKept

\* The loaders leave out what is masked.
LEMMA MaskCounts ==
    ASSUME chain' = chain, chain.module = "Mask", MaskInv, MaskRun
    PROVE  MaskInv'
<1>1. /\ at = "begin" /\ at' = "end" /\ masked' = masked /\ maskmap' = maskmap
  BY DEF MaskRun, Proceed
<1>2. PICK some \in Inputs :
        LET left == {p \in some : ~IsMasked(chain.det, masked, p)}
        IN  occupancy' = [p \in Bins |-> occupancy[p] + (IF p \in left THEN 1 ELSE 0)]
  BY DEF MaskRun
<1> DEFINE given == {p \in some : ~IsMasked(chain.det, masked, p)}
<1>3. occupancy' = [p \in Bins |-> occupancy[p] + (IF p \in given THEN 1 ELSE 0)]
  BY <1>2
<1>4. /\ occupancy \in [Bins -> Nat]
      /\ \A p \in Bins : IsMasked(chain.det, masked, p) => occupancy[p] = 0 /\ p \in maskmap
  BY <1>1 DEF MaskInv
<1>5. \A p \in Bins : occupancy'[p] \in Nat /\ (IsMasked(chain.det, masked, p) => occupancy'[p] = 0)
  BY <1>3, <1>4
<1>6. Bins' = Bins
  BY DEF Bins
<1>7. (/\ occupancy \in [Bins -> Nat]
       /\ \A p \in Bins : IsMasked(chain.det, masked, p) => occupancy[p] = 0 /\ p \in maskmap)'
  <2>1. occupancy' \in [Bins -> Nat]
    BY <1>3, <1>5
  <2> QED
    BY <1>1, <1>4, <1>5, <1>6, <2>1 DEF IsMasked
<1> QED
  BY <1>1, <1>7 DEF MaskInv, MasksKept

\* The file that is written has all that is masked, and what is dead if it shall.
LEMMA MaskWritten ==
    ASSUME chain' = chain, chain.module = "Mask", MaskInv, MaskFinalize
    PROVE  MaskInv'
<1>1. /\ at = "finalize" /\ at' = "done" /\ masked' = masked /\ occupancy' = occupancy
      /\ maskfile' = {[id |-> "p", col |-> p[1], row |-> p[2]] : p \in maskmap'}
  BY DEF MaskFinalize, Proceed, writeMaskFiles
<1>2. PICK above \in AboveDensity :
        LET noisy == CASE chain.method = "localdensity" -> localDensityEstimator(above)
                       [] chain.method = "frequency" -> globalFrequencyFilter
            dead == IF chain.mask_dead_pixels THEN deadPixelFinder ELSE {}
        IN  maskmap' = maskmap \cup noisy \cup dead
  BY DEF MaskFinalize
<1>3. /\ maskmap \subseteq maskmap'
      /\ chain.mask_dead_pixels => deadPixelFinder \subseteq maskmap'
  BY <1>2
<1>4. /\ occupancy \in [Bins -> Nat]
      /\ \A p \in Bins : IsMasked(chain.det, masked, p) => occupancy[p] = 0 /\ p \in maskmap
  BY <1>1 DEF MaskInv
<1>5. Bins' = Bins
  BY DEF Bins
<1>6. ASSUME NEW p \in Bins, p \in maskmap'
      PROVE  \E entry \in maskfile' : p \in EntryPixels(chain.det, entry)
  BY <1>1, <1>6, EntryOfPixel
<1>7. (/\ occupancy \in [Bins -> Nat]
       /\ \A p \in Bins : IsMasked(chain.det, masked, p) => occupancy[p] = 0 /\ p \in maskmap)'
  BY <1>1, <1>3, <1>4, <1>5 DEF IsMasked
<1>8. ASSUME NEW p \in Bins
      PROVE  LET kept == \E entry \in maskfile' : p \in EntryPixels(chain.det, entry)
             IN  /\ IsMasked(chain.det, masked, p) => occupancy[p] = 0 /\ kept
                 /\ chain.mask_dead_pixels => kept \/ occupancy[p] > 0
  <2>1. IsMasked(chain.det, masked, p) => occupancy[p] = 0 /\ p \in maskmap'
    BY <1>3, <1>4
  <2>2. occupancy[p] \in Nat
    BY <1>4
  <2>3. ASSUME chain.mask_dead_pixels, ~(occupancy[p] > 0) PROVE p \in maskmap'
    <3>1. occupancy[p] = 0
      BY <2>2, <2>3
    <3>2. CASE IsMasked(chain.det, masked, p)
      BY <2>1, <3>2
    <3>3. CASE ~IsMasked(chain.det, masked, p)
      BY <1>3, <2>3, <3>1, <3>3 DEF deadPixelFinder, Unmasked
    <3> QED
      BY <3>2, <3>3
  <2> QED
    BY <1>6, <2>1, <2>3
<1>9. MasksKept'
  BY <1>1, <1>5, <1>8 DEF MasksKept, IsMasked, EntryPixels
<1> QED
  BY <1>7, <1>9 DEF MaskInv

\* Every step keeps what is masked in the map, and without hits.
LEMMA MaskInvStep ==
    ASSUME LoopInv, MaskInv, [Next]_vars
    PROVE  MaskInv'
<1>1. chain' = chain /\ setup' = setup
  BY LoopStep DEF LoopInv
<1>2. CASE chain.module # "Mask"
  BY <1>1, <1>2 DEF MaskInv
<1>3. CASE chain.module = "Mask" /\ MaskNext
  <2>1. CASE MaskInitialize
    BY <1>1, <1>3, <2>1, MaskBegins
  <2>2. CASE MaskRun
    BY <1>1, <1>3, <2>2, MaskCounts
  <2>3. CASE MaskFinalize
    BY <1>1, <1>3, <2>3, MaskWritten
  <2>4. CASE Restart
    BY <2>4 DEF Restart, MaskInv, MasksKept
  <2> QED
    BY <1>3, <2>1, <2>2, <2>3, <2>4 DEF MaskNext, MaskStep
<1>4. CASE chain.module = "Mask" /\ ~MaskNext
  <2>1. /\ at' = at \/ (at = "end" /\ at' \in {"begin", "finalize"})
        /\ UNCHANGED maskVars
    BY <1>4, OtherThanMask
  <2>2. Bins' = Bins
    BY <1>1 DEF Bins
  <2>3. at' # "initialize" => at # "initialize"
    BY <2>1
  <2>4. (/\ at # "initialize" =>
            /\ occupancy \in [Bins -> Nat]
            /\ \A p \in Bins : IsMasked(chain.det, masked, p) => occupancy[p] = 0 /\ p \in maskmap)'
    BY <1>1, <1>4, <2>1, <2>2, <2>3 DEF MaskInv, maskVars, IsMasked
  <2>5. MasksKept'
    <3>1. at' = "done" => at = "done"
      BY <2>1
    <3> QED
      BY <1>1, <1>4, <2>1, <2>2, <3>1 DEF MaskInv, MasksKept, maskVars, IsMasked, EntryPixels
  <2> QED
    BY <2>4, <2>5 DEF MaskInv
<1> QED
  BY <1>2, <1>3, <1>4

\* What is masked stays masked, and a file gives back what was written to it.
THEOREM FilesCorrect == Spec => []FilesKept
<1>1. Init => MaskInv
  BY DEF Init, ChainInit, MaskInv, MasksKept
<1>2. Init => FilesInv
  BY FilesBegin
<1>3. LoopInv /\ MaskInv /\ [Next]_vars => MaskInv'
  BY MaskInvStep
<1>4. LoopInv /\ FilesInv /\ [Next]_vars => FilesInv'
  BY FilesInvStep
<1>5. MaskInv /\ FilesInv => FilesKept
  BY DEF FilesKept, MaskInv, FilesInv, MasksKept, RoundTrip
<1> QED
  BY <1>1, <1>2, <1>3, <1>4, <1>5, NextLoop, PTL DEF Spec
=============================================================================
