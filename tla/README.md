# Corryvreckan in TLA+

Corryvreckan reconstructs test-beam data: a chain of modules, configured by a
file, is run once per event on a shared clipboard. This directory holds TLA+
models of its core, the TLC configurations that check them and machine-checked
proofs about them. Line numbers refer to the sources under `src/`.

## 1. Inventory

| Component | State | Operations | Hard behaviour | Correct when |
|---|---|---|---|---|
| `ThreadPool::SafeQueue` (`core/utils/ThreadPool.{hpp,tpp}`) | standard queue, priority queue, completed identifiers, current identifier, valid flag, two condition variables | `pop`, two `push`, `complete`, `invalidate` | notifications after the unlock, a mutex released inside `complete`, threads that sleep | jobs are released in order, no thread sleeps for ever |
| `ThreadPool` (`core/utils/ThreadPool.cpp`) | done flag, run count, first exception, futures, threads | `submit`, `wait`, `markComplete`, `checkException`, `destroy`, the worker loop | exceptions in a worker, counting, shutdown | every job has one end, every call returns |
| Alignment (`AlignmentTrackChi2`, `AlignmentDUTResidual`) | the shared detector, the tracks, the pool | the function MINUIT calls, the moves of the detector | jobs read the detector without a lock | a call sees one position of the detector |
| Run control (`exec/corry.cpp`, `core/Corryvreckan.cpp`) | terminate and has-run flags | `load`, `init`, `run`, `finalize`, `terminate`, signal handlers | a signal between any two steps, an exception in any phase | the run stops when asked, and the return code tells what happened |
| Module manager (`core/module`) | the list of modules, the map of unique names, their configurations | `load_modules`, `initializeAll`, `run`, `finalizeAll` | duplicate instances with priorities, the conditions that end the event loop | one instance per name, in the order of the main file; events do not mix |
| Clipboard (`core/clipboard`) | volatile data, persistent data, the event | `putData`, `getData`, `removeData`, `copyToPersistentData`, `putEvent`, `clear` | keys that exist, appends, data that outlives an event | nothing is overwritten, nothing is left over |
| Configuration (`core/config`) | sections, keys, used markers, instance configurations | `get`, `set`, `setAlias`, `setDefault`, `merge`, `addInstanceConfiguration`, parsing of values | options in any order, aliases, references to configurations that are erased, text written and read again | what the user wrote reaches the module, or is reported |
| Detectors (`core/detector`) | geometry, mask, region of interest, roles | transformations, neighbours, mask, `getConfiguration` | two lattices, keys that are left out | the file written is read back |
| Event building (`Metronome`, `EventDefinitionM26`, the `EventLoader` modules) | buffers and iterators over time-sorted data, the event window, counters of the detector | one `run` per event | data that arrives late or early, buffers at their limit, counters that overflow, words that are missing | data goes to its event once |
| Clustering | pixels and clusters of an event | one `run` per event | the order of the pixels, chains of neighbours | clusters are connected components |
| Tracking (`Tracking4D`, `TrackingMultiplet`) | candidates, used clusters, tracklets | one `run` per event | erasing from lists that are walked, cuts in any order | tracks are well formed, no cluster is used twice |
| Association (`DUTAssociation`), filters (`FilterEvents`), masks (`MaskCreator`) | associated clusters, counters, the mask file | `run`, `finalize` | rejected candidates, state that survives a run in a file | the closest cluster, a mask that is not lost |
| Files (`FileWriter`, `FileReader`) | trees, branches, entries | `run` per event | branches that appear late, classes that are left out | what is written is read back |
| Analyses (`AnalysisEfficiency`, `AnalysisDUT`, `AnalysisTimingATLASpix`, `AnalysisFASTPIX`, `Correlations`, `Prealignment`) | histograms, previous hits, corrections, the last trigger | `initialize`, `run`, `finalize` | histograms that are booked conditionally, clusters corrected in place, cuts in two orders | counts balance and agree |
| Millepede, fits, transformations, online monitor | matrices, graphics | numerical | numerical | not modelled |

The modules of a run talk to each other only through the clipboard and through
the status their `run` returns; the module manager calls them in turn on the
main thread. The thread pool is used by the two alignment modules, in
`finalize`. A signal handler only sets flags.

## 2. Plan

1. Thread pool: `SafeQueue`, `SafeQueueClients`, `ThreadPool`, `AlignmentRefit`, the
   abstract pool `JobPool` that `ThreadPool` implements, proofs about the queue and the
   pool, of the refinement and of the alignment. Done.
2. Module loading: `ModuleLoading`, its three invariants proved. Done.
3. `Clipboard` and `RunControl`, composed; all safety properties proved. Done.
4. Event building: `Event`, `EventData`, the definers and five loaders, composed by
   `EventBuilding`; all of its safety properties proved, `NoLateData` for the loaders of
   hits; the decoding of times from words (`Decoding`); the matching of records and
   triggers (`FASTPIX`). Done. Left: the time-sorted mode of `EventLoaderMuPixTelescope`.
5. Reconstruction: `Clustering`, `Tracking4D`, `TrackingMultiplet` and the association,
   against reference definitions. Done.
6. Filters, masks, files, configuration and analyses: `FilterAndMask`, `Files`,
   `Configuration`, `AnalysisDUT`, `AnalysisTiming`, `FASTPIX`, `Correlations`, composed by
   `Analysis` and `Reconstruction`; the properties of the chains with a DUT and of
   `AnalysisFASTPIX` proved. Done. Left: `ImproveReferenceTimestamp`.

## 3. The thread pool

### Modules

`SafeQueue` has one action per critical section of `mutex_`. A `notify_one` after
the unlock is an action of its own (`PopNotifyPop`, `PopNotifyPush`, `PushNotify`,
`CompleteNotify`), because another thread may enter between the two. `at[t]` says
where thread `t` is in the queue's code, `pop_waiters` and `push_waiters` who sleeps
on which condition variable; a thread that has left a set is awake and tests its
condition when it gets the mutex. Wake-ups without a notification are allowed
(`SpuriousWake`). The iterator `complete()` keeps across its unlocked window is the
identifier it refers to; reading it after another thread has erased the element is
undefined, and `Dereferenced` says which values the read can give.

`SafeQueueClients` closes the queue with every caller its interface allows.
`ThreadPool` closes it with the pool: a main thread that submits, waits and destroys,
and workers. A section under `run_mutex_` is one step, also when it invalidates the
queue inside. Jobs are events with a flag: the plain job of an event goes to the
standard queue; with buffered jobs it either marks its event complete or submits
the ordered job of the event. `AlignmentRefit` adds the function MINUIT calls: move
the detector, submit one job per track, add up the futures in order, wait.

### Fairness

`FairSpec` assumes weak fairness of every worker and of the main thread inside a
function of the pool: the operating system schedules threads that can run. Nothing
is assumed of which thread a `notify_one` wakes, of spurious wake-ups, or of what
the main thread calls next; jobs end (`TaskReturn`, `TaskThrow` belong to the worker).

### What the runs show of it

`SafeQueueBuffered`: with three threads, three jobs, a standard queue of one place
and a priority queue of two, identifiers are completed in order (`Prefix`), no
leading identifier is stuck (`NoStall`), no notification is lost (`NoLostPush`), nobody
sleeps on an invalid queue and the priority queue is released in order. Three
threads are the least with a pusher, a popper and a third that steals what the
notification was for; identifiers 0..2 give a gap, its closing, and one beyond.
`NoLostPush` needs priority pushes that do not block, as `ThreadPool::submit` makes
them: with `PriorityWait = {TRUE}` TLC finds a standard pusher asleep beside a free
place, because `push_condition_` is shared by two predicates and `notify_one` may
wake the other kind.

`Pool` is the pool in its three modes: two workers or none with four plain jobs, in
which the initialization function, the jobs and the finalization function may throw,
and two workers with three events of buffered jobs. Two workers are enough for one
to fail or to leave while the other is anywhere; four jobs and a queue of one place
make the main thread block and be woken. With plain jobs nothing is left when
`wait()` returns (`PlainWaitMeansDone`); when it returns with less done there was an
exception, which is kept (`WaitReports`); every function called returns (`CallsReturn`),
and every future becomes ready (`FuturesReady`).

`JobPool` is what the interface promises, without workers, locks or condition
variables: plain jobs begin in the order in which they were accepted, an ordered job
when the events before its own are complete, a job is refused or dropped only after
the pool has stopped, and a job has one end. `PromisesKept` is the refinement:
`ThreadPool` implements `JobPool` under the mapping at the end of its module (the state
of a job is that of its future, its line the standard queue, `open` the flag `valid_`).

`Refit` is the alignment on top of the pool: no job reads the detector while MINUIT
moves it (`NoRefitDuringMove`), a call returns what all tracks give at one position or
fails with what a job threw (`CallOutcome`), and ends (`CallEnds`).

Two properties the documentation promises do not hold. `SafeQueueIterator`: two
threads in `complete()` at once let one read an iterator whose element the other
has erased. `PoolBufferedWait`: `submit` counts a job after pushing it. The ordered job
of an event can end and be counted off before the plain job that submits it has counted
it; `run_cnt_` is zero, and `wait()` returns while that plain job is still running.

Also met while modelling, without a run of their own: a worker whose job throws
invalidates the queue, after which the other workers do not leave but spin, as
`pop` of an invalid queue returns at once and the loop ends only with `done_`
(`ThreadPool.cpp:117`); `checkException` is never called by the alignment modules,
which instead get the exception from the future (`GenuineFailure`).

## 4. Module loading

`ModuleLoading` is `ModuleManager::load`: the detectors of the detector file with
their roles, then section by section of the main file the instances of each module.
State: the detectors, the sections read (`configs`), the instances of the section at
hand not created (`pending`) or not merged yet (`mod_list`), the run list
(`m_modules`), the map of unique names with priorities (`id_to_module`), and the
list of instance configurations with its index. An instance stands for its
`Module` object and for the configuration made for it. Each creation and each
merge is an action, because the configuration of an instance is entered when it is
created and the decision which of two instances stays is taken later. A list of
names or types is never empty: `parse_value` throws for an empty element
(`Configuration.cpp:236`). A loop that passes over elements is `Kept`.

`ModuleLoading` (run) reads six detector files and every main file of up to three
sections out of 21: global, detector and DUT modules, selecting by name, by type,
or not at all. Three sections are the least that put an equal-priority instance
behind a higher-priority one. `HighestPriorityKept` says which of the instances of
one name survives, `OrderFollowsSections` that the run list follows the main file,
`EveryDetectorServed` that no selected detector is without an instance.

`ModuleConfig` is the counterexample: creating an instance erases the stored
configuration of the same unique name; if the new instance has the lower priority
it is dropped, and the kept instance refers to a configuration that is gone.
Also met: two instances of equal priority behind a third of higher priority are not
refused, although framework.tex:193 says the framework throws; the intersection of
type lists (`ModuleManager.cpp:425`) is taken of lists that need not be sorted.

## 5. Clipboard and run control

`Clipboard` has the operations a module may call, by collection (base type and key);
an empty collection and a missing key are the same. `RunControl` EXTENDS it and is
the program: `main` with its handler of SIGINT and SIGTERM, the phases of
`Corryvreckan`, and the loops of the module manager. `pc` is the place of the main
thread; a signal comes between any two of its steps. Objects carry the parity of
the event they were made in, so that data left over from an earlier event is seen.

`RunControl` (run): no module or two, five settings of the limits (none, events 0
and 2, tracks 1, time 1), every status, an exception in every phase, one clipboard
operation per call of a module, any number of signals. Two modules are enough for
the second to be skipped by the first; two events in a row for data to be left
over. Counters without a limit stay at 0 (they are only compared with limits).
Fairness: the main thread runs and the functions of the modules return.
`EventIsolation` says that an event begins with nothing of the one before but the
persistent data, however that one was cut short; `NothingOverwritten` that a
collection of an event, once there, only loses objects and a persistent one only grows;
`RunStops` that no event begins after EndRun or a failure, nor any but the first once a
limit (of events, tracks or time) is reached, that a signal before the event loop lets
none begin and a later one at most one more, and that dead time keeps an event from the
modules behind; `ExitMeansFinalized` what a return code of 0 tells; `Terminates` that the
program ends once it is asked to.
`GracefulShutdown` is the counterexample: the handler writes a log message and the
mutex of the logger may be held by the thread it interrupts. `Terminates` leaves
this outcome in its conclusion (`stuck` is an end) and shows that it is the only way
the program hangs.

Also met: with `number_of_events = 0` one event is still processed, as the limit is
asked after the event (framework.tex:91 says nothing of it); a signal before
`cv_ready` is ignored; after `clean()` the handler dereferences a null pointer (the
state `crashed`); `getData` of a missing key returns a reference to a temporary
(`Clipboard.tpp:139`), a lifetime the model does not have. The two stores of the handler are one
step: nothing of the main thread runs between them, and on another thread the
order makes no difference. SIGQUIT aborts and is left out.

## 6. Event building

| Module | Code |
|---|---|
| `Event` | `objects/Event.{hpp,cpp}`: the window, the triggers, and where a time, a frame or a trigger lies |
| `EventData` | what the loaders share: the file (external), the sorted buffer, `putData` |
| `EventDefinition` | the modules that define events, `Metronome` and `EventDefinitionM26` |
| `SortedLoaders`, `EventLoaderEUDAQ2`, `EventLoaderMuPixTelescope` | the modules that fill them, and define one if none is there; `SortedLoaders` has `EventLoaderTimestamp`, `EventLoaderTimepix3` and `EventLoaderATLASpix`, which sort by a priority queue |
| `EventBuilding` | the event loop over a definer (or none) and a loader |

A chain is one configuration: a definer, a loader and their parameters. All of it
is one thread; what varies is the data and where each file ends. The contents of
a file are not fixed beforehand: each word read is any of the chain's data that the
order in time allows (a detector writes its data out of order by fewer measurements
than the loader's buffer holds). `at` is the place of the main thread. Words that
carry only time, masked pixels and other detectors are words of no interest; times
come decoded (how they are decoded is `Decoding`, section 7). History variables keep
what left the buffer (`released`), where each measurement was `stored` and in which
event it was `dropped`.

`EventBuilding` (run) checks 23 chains: each definer with the loaders it is used
with, buffers of depth 0 to 2, events of one or two triggers, frames that overlap
two events, frames without time, exclusive frames, skipped time, vetoed and
shifted triggers, pivots in three layouts, an event with a negative length. Four
words are enough for a buffer of two to be filled, emptied and refilled, or for two
measurements before an event and two after; three events for an event with nothing
in it between two others; trigger numbers run from 0 in a range of 8, so the
decrement of trigger 0 wraps. `StoredRight` says that data is stored once, with an
event it belongs to by the words of the manual; `NoLateData` that none is thrown
away that belongs to an event that was built; `ReleasedInOrder` that a buffer
sorts what its depth allows; `WindowOfMatch` what an event of `EventDefinitionM26` is
made of after refused pairs; `RunEnds` that the run ends with the files. Fairness:
the main thread runs and reading a file does not block.

`LateHit` is the counterexample, for the MuPix loader: a hit exactly at the start of
an event is neither old nor within it; it keeps its place at the head of the buffer,
blocks the hits behind it and is removed during the next event.

Also met:
- EUDAQ2: a frame whose position is UNKNOWN ends the loader's work for this event,
  whereas eventbuilding.tex:56 says that more data should be processed; EndRun at
  the end of the file drops the pixels collected for the event and what is still in
  the sorting buffer (up to depth - 1 frames). `NoLateData` says nothing of data
  that is never looked at again.
- ATLASpix: `top()` of an empty queue if the file ends in the last call of
  `read_caribou_data` (the place `undefined`, an end of the run in the model).
- Timepix3: the call after the end of the last file returns Failure with pixels
  still buffered.
- MuPix: the window around the earliest hit is found with `static_cast<int>` (cpp:229),
  which cuts off fractions and holds 2 s; times are whole numbers and small in the
  model. With `buffer_depth` 0 an empty buffer would be filled once more (cpp:238); the
  model assumes at least 1. The test of `data_in_buffer` guards a declaration only (cpp:283), buffers
  that are full are filled on (cpp:338), and a refill happens only when one is empty.
- EUDAQ2 with `inclusive` off: a frame longer than the event ends it, and what starts
  after that frame and lies inside the event is discarded in the next (section 9).
- EventDefinitionM26: EndRun lets the loader define the last event. Hence the
  exceptions in `EventsDisjoint`, and in the theorem about `NoLateData`.
- Timestamp without a definer: windows around triggers may overlap.

## 7. Reconstruction and analysis

| Module | Code |
|---|---|
| `Detectors` | `core/detector`: the matrix on its cartesian or hexagonal lattice, neighbours, intercepts, region of interest, masks |
| `RecoChain` | the event loop as the modules see it: initialize, events, finalize; histograms |
| `Clustering` | `ClusteringSpatial`, `Clustering4D` |
| `Tracking`, `Tracking4D`, `TrackingMultiplet` | what tracks are made of; the two tracking modules |
| `AnalysisDUT` | `DUTAssociation`, the clusters of a track, and two analyses of them, `AnalysisEfficiency` and `AnalysisDUT`, in one chain |
| `FilterAndMask`, `AnalysisTiming`, `Correlations` | `FilterEvents` and `MaskCreator`; `AnalysisTimingATLASpix`; `Correlations` with `Prealignment` |
| `Files` | `FileWriter`, `FileReader`, the references between `objects` |
| `Configuration` | `core/config`, and what a detector reads and writes of it |
| `FASTPIX` | `EventLoaderFASTPIX`: the matching of records with triggers; `AnalysisFASTPIX` |
| `Decoding` | the words of `EventLoaderTimepix3` and `EventLoaderATLASpix` |
| `Analysis`, `Reconstruction` | the chains of all of these, and their properties |

Modules of a chain meet only on the clipboard, so a chain starts from any contents
of it that the modules before can leave (`Inputs`), and the chains are the runs of
one specification: `chain` is the configuration, `at` the place of the event loop,
`event` the number of the event. A module that treats its objects one after another,
with state in between (a previous hit, a cluster corrected in place, a list walked
while it shrinks), does so in one step per object; one that does not is one step per
event. All of it is one thread. What varies is the data, the order of what an
unstable sort or a container leaves open, and the outcome of what is numerical: a
fit gives any chi2 of the chain, or fails, a Gaussian any mean within the range.
Places are in quarters of a pixel (`Unit`), halves of the truncations and roundings
in the code included.

A histogram is the number of its entries (`filled`); one that was never booked has no
number, as filling it would dereference a null pointer. The histograms of
`AnalysisFASTPIX` are pairs of a name and "all" or "inpix", as each map is booked for the
matrix and for the pixel. This is enough for what the
properties ask: `BookedBeforeFilled` compares what is filled under every
configuration with what `initialize()` booked under it.

### What the run shows of it

The chains are in `ReconstructionMC`, with their inputs. Each is small in the way its
question allows, and all inputs of the set are taken.

- Clustering: up to four pixels of a 3 x 3 matrix, a row of four in three times, a
  hexagonal matrix with an input at negative columns. Four pixels are enough
  for a pixel that joins two others, and for a cluster beside it, in any order of arrival. `ClustersAreComponents`: clusters are the connected components of the pixels
  in time with the first, by a reference definition of connection; none is lost or in
  two; the centre is between the pixels.
- Tracking: four planes with up to two clusters each, five for two arms with a DUT
  between them; two different chi2 if clusters are used once. Two clusters per plane
  make tracks that share one and tracks that share none. `TracksSound`: a track has
  enough clusters, those required and none excluded; with `unique_cluster_usage` a track
  dropped shares a cluster with a track kept that is not worse; if the seeds are of two
  detectors at least, a track has one cluster of a detector and no two kept share one; a
  tracklet is used once, is isolated, and has its clusters on its side of the scatterer. Seven configurations of arms are refused (`ArmsAccepted`).
- Association and efficiency: up to two tracks and two clusters of a DUT of two or four
  columns, inside and outside of its region of interest, over two events.
  `AssociationClosest`: the clusters within the cuts are associated and no others, the
  closest of them is the closest. `AnalysesAgree`: the counters of both cut flows add up,
  those of `AnalysisEfficiency` in all maps alike, and with the same cuts the two analyses
  find the same tracks and the same of them with a cluster. `HistoryFromEarlierEvents`: the previous hit a track is
  compared with is not of its own event.
- Filters, masks, files: two events, so that what the first leaves is seen in the
  second; two runs (`MaxRuns`) for masks. `FilesKept`: a masked pixel stays masked in
  the file the next run reads; objects are read back in the events they were written
  in, of the classes both sides choose (a class without objects in an event is left
  out), and their references lead to the same objects.
- Time corrections and prealignment: two tracks that use two clusters, one or both.
  `CorrectionsApplied`: a pixel is moved by its corrections once per track that used its
  cluster, and the time of the cluster is that of its earliest pixel; after
  prealignment by the mean the residuals are centred, but for a bin.
- Configuration: every file of up to four lines out of seven, options for a module,
  its instances and one that is not there. `ConfigurationKept`: the most special
  option wins, the last of several; a key nobody asked for is reported; detectors
  written are read back the same. Values: numbers as every text of up to five of the
  marks `a [ ] , space` and as matrices with two rows, strings as texts of up to four marks
  with both kinds of quotation marks, alone and in a matrix. `ReadWriteStable`: what was
  understood, written and read again is understood in the same way (but for strings with
  a double quotation mark, which are written without regard to it).
- Words: seven words of Timepix3 (a reset, heartbeats in two halves, a pixel), twelve of
  ATLASpix (two words of time, a readout, a hit, each may be missing). The widths of the
  counters are scaled (each definition names the true one), with the ratios the code
  depends on, so that every counter overflows within a chain. `TimesDecoded`: a pixel, a
  trigger and a hit have the time at which the device recorded them, under the
  conditions `PixelTimes`, `TriggerTimes` and `HitTimes` state; each condition leaves out
  a case that the notes below describe.
- Records of an oscilloscope: five triggers at any times that are two steps apart, any of
  them lost by SPIDR, a record for each or for the first three, blocks of three or four;
  three events, so that a block ends within and between events. The time of a record is
  off by at most one step (`drifts`), so a record near a limit of an event may be given
  up an event too early. The part `RecordsMatched` of `TimesDecoded`: a record is stored in
  the event of its own trigger and once, also if the file had to be read again; of an event
  that is kept every trigger has its record. Reading beyond the last record is
  undefined in the code; the model stops there (`ReadBeyondEnd`).
- Dead time (`AnalysisFASTPIX`): up to three triggers and one track per event, events longer
  than the dead time and events of which it spans two. `DeadTimeRespected`, a part of
  `AnalysesAgree`: no track of the efficiency was in the dead time of a trigger of its own or
  of an earlier event, other than one it may have caused; of the tracks in the region of interest no more are found than there are.

All properties are safety: a module loops over finite lists.

### Where code and documentation differ, or the code surprises

Met while modelling; the models do what the code does.

- Clustering: `Clustering4D` takes the time of the pixel with the largest charge unless
  asked for the earliest; `ClusteringSpatial` that of the seed pixel, its README says the
  last one; the neighbours on a hexagonal matrix are bounded as on a cartesian one.
- `Tracking4D`: if `exclude_from_seed` leaves one detector, seeds are pairs of clusters of
  that one; `detector_nr` (cpp:359) counts only planes between the reference planes, so
  candidates that could reach `min_hits` are given up; tracks of two hits with unique
  usage have no chi2, which the sort compares.
- `TrackingMultiplet`: the search for the last upstream plane starts at
  `numeric_limits::min()`, the smallest positive number (cpp:72), so arms with all planes
  at z <= 0 are refused if the scatterer is not behind 0; the check of l.106 is implied by
  those of l.132 and l.137; `registerPlane` gets x for z (l.297).
- `FilterEvents`: `filter_tags` decides by the first tag; "forced to true" is logged where
  `only_tracks_on_dut` is set to false; two pairs of bin labels are swapped; the default of
  `max_tracks` is 100, its README says 10.
- `AnalysisEfficiency`: the table lists "track outside ROI" among the cuts, but the total it
  prints includes these tracks (`eTotalEfficiency` does not); a track at a negative column of a hexagonal matrix ends the run (`EfficiencyTrack`, aborted).
- `AnalysisTimingATLASpix`: a cluster shared by two tracks is corrected twice;
  `tracks_isWithinROI` counts tracks outside; `timing_tail_cut` is 20 ns, the README says
  -10 ns; a few graphs keep points at 0 for what had no entry.
- `DUTAssociation`: the nearest distances in x and y may be of two clusters.
- `Prealignment`: `max_correlation_rms` only logs; the maximum of an empty histogram is the
  end of its range; the fit of one is a null function.
- Files: after an exception (only ROOT could throw one there; not modelled) `FileWriter`
  returns NoData with `last_event_` as it was and keeps the vectors it has filled,
  so their objects are written with the next event; `ModuleError` is constructed but not
  thrown (`FileWriter.cpp:67`, `FileReader.cpp:219`).
- Configuration: `Configuration.hpp` says that aliases are marked as used, `setAlias` marks
  the old key only; `getMap` accepts a key without a value, which `setMap` writes so that it
  is not read again; `a , b` is refused; a string with a double quotation mark is written
  between two others and refused when it is read; `setArray` of an empty array removes the last
  character of an empty string.
- Decoding, Timepix3: a pixel from before an overflow that the heartbeat has seen already is
  placed 26 s late; between the two halves of a heartbeat across an overflow times are
  107 s off; a heartbeat of a former run shorter than 107 s is taken for the first of this one.
- Decoding, ATLASpix: the tests for a readout before and after the time of the FPGA are
  not symmetric (cpp:449); `T0` does not reset the time of the last readout; if second words
  are missing too, a carry may be lost (`gap` of `HitTimes`).
- `EventLoaderFASTPIX` does not look for the end of its file: in step with SPIDR it goes on
  with an uninitialised time (cpp:254), maybe for ever. Its README has events with
  missing triggers discarded; an event is kept whose missing trigger is followed by a later
  one that was not lost (cpp:316 leaves `dead_time` alone). Two triggers nearer to
  each other than the drift may lose a record in an event that is kept.
- `AnalysisFASTPIX` is not run for an event the loader gives up as dead time, so the triggers of
  that event do not enter `last_timestamp`: tracks of the next event may count though the
  oscilloscope was dead. `DeadTimeRespected` is about the triggers of the events it sees.
  `labels[flags]` (cpp:594) is indexed by what the file says.

## 8. Runs

| Run | Properties | Bounds |
|---|---|---|
| `SafeQueueBuffered` | `TypeOK` `Prefix` `NoStall` `NoLostPush` `NoSleepAfterInvalidate` `LinearRelease` | 3 threads, 3 jobs, queues 1 and 2, identifiers to 2; symmetric |
| `Pool` | `PlainWaitMeansDone` `WaitReports` `CallsReturn` `FuturesReady` `PromisesKept` | 2 workers or none, 4 plain jobs or 3 events, queues 1 and 2 |
| `Refit` | `NoRefitDuringMove` `CallOutcome` `CallEnds` | 2 workers or none, 3 tracks, 2 calls |
| `ModuleLoading` | `HighestPriorityKept` `OrderFollowsSections` `EveryDetectorServed` | 6 detector files, 3 sections of 21 |
| `RunControl` | `EventIsolation` `ExitMeansFinalized` `NothingOverwritten` `RunStops` `Terminates` | 2 modules, 1 operation, counts to 2 |
| `EventBuilding` | `TypeOK` `EventsDisjoint` `WindowOfMatch` `ReleasedInOrder` `StoredRight` `NoLateData` `RunEnds` | 23 chains, 4 words, 4 measurements, 3 events, 6 records |
| `Reconstruction` | `ClustersAreComponents` `TracksSound` `BookedBeforeFilled` `AssociationClosest` `AnalysesAgree` `FilesKept` `ConfigurationKept` `CorrectionsApplied` `TimesDecoded` `HistoryFromEarlierEvents` `ReadWriteStable` | 58 chains, 3 events, 2 runs, the inputs of section 7 |
| `SafeQueueIterator` | `IteratorsValid`, violated | 2 threads |
| `PoolBufferedWait` | `WaitMeansDone`, violated | 2 workers, 1 event |
| `ModuleConfig` | `ConfigAlive`, violated | 2 sections |
| `GracefulShutdown` | `GracefulShutdown`, violated | 1 module |
| `LateHit` | `NoLateHit`, violated | 2 chains |

`CHECK_DEADLOCK` is off in all configurations: these programs may stop (no caller
calls again, the run has ended). That they do not stop elsewhere is what the
liveness properties say.

## 9. Proofs

Every theorem holds for all values of the constants that the modules' `ASSUME`s
allow. Each inductive invariant was model-checked with the run's configuration
before it was proved; for the properties of a single step the theorem is
`Inv /\ [Next]_vars => [A]_vars` and temporal logic.

### The queue

`SafeQueueProofs` proves, for every set of
threads and jobs and every size of the queues, the type invariant and six safety
properties of the queue:

- `Prefix`, `NoStall` and `LinearRelease` rest on `CompletionInv`: all identifiers below
  `current_id_` are completed and the completed ones above wait in `completed_ids_`
  (`OrderInv`), no identifier is completed twice, and if the leading one is completed
  some thread's iterator is at it (`LeadInv`). The last part makes it inductive:
  `complete()` releases the mutex in the middle of its loop.
- `NoSleepAfterInvalidate` needs only the types, `Bounded` (neither queue outgrows its
  limit, however many pushers are woken; stated by no run) also that the priority queue
  stays finite.
- `NoLostPush` rests on a counting argument, `LostPushInv`: while a push sleeps, the
  free places of the standard queue are at most the threads awake in `push` or
  between their `pop` and its notification. It assumes that priority pushes do not
  block.

The callers promise what `ThreadPool` keeps: an identifier is completed once, a job is
pushed once. These are the guards of `SafeQueueClients`.

### The pool

`ThreadPoolProofs` proves for any number of workers, events and sizes of the queues,
and whatever the functions throw, that `wait()` means what it says and that
`ThreadPool` implements `JobPool` (`PromisesKept`). The inductive invariant `Inv`:

- `ControlInv`: where a thread is in the queue follows from the function of the pool it
  is in, and the queue is valid until an exception or `destroy()`;
- `ReserveInv`: the priority queue and the workers that may still submit an ordered job
  fit into it together, because `pop` leaves `min_thread_buffer` places free. Hence
  `RefusedInv`: only an invalid queue refuses a push, though priority pushes do not wait;
- `PlaceInv`: a job is at one place (a queue, a worker's hand, a submitter) and its
  future pending until it has run; `FreshInv` says which jobs were submitted, and
  `InlineInv` that without workers a job has ended when `submit` returns;
- `CountInv`: `run_cnt_` is the jobs counted less those counted off. It may be negative
  (wrapped in the code), since `submit` counts a job that has already run;
- `CompletedInv`: what is below `current_id_` is completed.

A step of a thread is classified first: it moves one job (`Take`, `Put`, `SubmitJob`,
`Answer`, `EndJob`, `CountOff`, `Forget`, `RunAtOnce`), drops all of them, or is `Calm`.
Each part of `Inv` is preserved move by move, and each move is a step of `JobPool` or a
stutter. `PlainWaitMeansDone` then compares two finite sets: the jobs counted off are
among those counted, and there are as many. With buffered jobs they are not, which is
why `WaitMeansDone` fails (section 3); `WaitReports` still holds, because each job
counted off but not yet counted is the ordered job of a worker whose plain job is
counted and not counted off.

The second part of `ThreadPoolProofs` proves `NoRefitDuringMove` and `CallOutcome` for any number of
workers, tracks and calls, on top of `Inv` (a step of the alignment is a step of the
pool, `RefitUsesPool`). `RefitInv` adds that the queue is first in, first out: what a
worker has was submitted before what waits (`FifoInv`). Hence a job whose promise is
broken or refused was submitted after one that threw (`CauseInv`), and the main
thread, which reads the futures in the order of the jobs, meets the exception first.
`CallInv` and `ValueInv` count the jobs submitted and the futures read: outside a call
all of them hold values, so that no worker has a job when the detector moves, and
the results of a call have its position (`PositionInv`).

### Loading and running

`ModuleLoadingProofs` proves the three invariants of `ModuleLoading` for every detector
file, main file and library of modules. Merging takes instances in the order in
which they were created, so that those merged are always the first ones
(`MergedInv`), the run list increases (`OrderInv`), the map refers to the run list and
holds the highest priority so far (`KeptInv`), and what was made and what is pending
is together what the sections read ask for (`ServedInv`). The loops over names, types
and detectors are recursive functions; what they compute is shown by induction over
the number of rounds (`NumberInduction`, `Loop` of `LoopTheorems`, which holds the
lemmas about numbers, folds and loops that several modules of proofs use).

`RunControlProofs` proves the two invariants and the two action properties of
`RunControl` for any collections, modules, limits and operations. `Inv` says that a
request to terminate that was taken has set both flags (`SignalInv`), that the
clipboard is empty between events (`DataInv`), what the loop knows of the last event
(`LoopInv`), how many modules are initialized and finalized at each place of `main`
(`PhaseInv`), and that a program about to end with 0 did all or nothing (`EndInv`).
`RunsStop` needs of it what the loop knew when it went round: that no module had asked
for the end and no limit was reached (`last_start` is the start of the event before).
Nothing is said of the value of `m_tracks`, a fold over the collections.

### Event building

`EventBuildingProofs` holds for every configuration the assumptions allow (lengths are
naturals, offsets integers, MuPix has a non-zero length, only the EUDAQ2 loader
reads triggers), any files and any number of events:

- `TypeCorrect` includes that every event is well formed, whichever module makes it.
- `EventsDisjointCorrect` is not inductive by itself: after an event is over, nothing in
  it says where the next begins. `InLineInv` compares all events instead with what the
  definer remembers (`Ahead`: the start of the next beat of the Metronome, the end of
  the last window of `EventDefinitionM26`), and says that a loader finds an event which it
  can only add triggers to (`LoaderStep`), so that the window stays.
- `PairsMatch` (`WindowOfMatch`) rests on `PairInv`: at each place of the loop that looks
  for a pair, the numbers and times in the variables are those of the two records at
  hand, or the comparison is about to fetch another. It assumes `TriggersInRange`, trigger
  numbers that stay in the range of the counter with the shift: refusing trigger 0
  sets `triggerTLU_` to the largest number, which would match a frame that has it.

The second part of the module adds what happens to the data:

- `StoredRight`: data is stored once, and with an event it belongs to. `PlacesInv` says
  that a measurement read and not stored waits at one place (the sorted buffer, the
  signals, the FIFO of EUDAQ2 events), `CollectedInv` and `StoredInv` follow it to the
  clipboard. A step keeps, collects or stores; each is a lemma over all five loaders.
- `ReleasedInOrder`: the buffers release in the order of time what is disordered by
  less than their depth. `ReleaseInv` compares what was released with what is
  buffered and, until the end of the file, with whatever is read (`Full`: as much data as
  the buffer takes is not before it).
- `NoLateData`, for the loaders of hits (`NoLateDataOfHits`): what is discarded belongs to no
  event, before or after. `LateInv` says that when an event is done everything still
  buffered or to be read lies beyond its end (`PastInv`, the same counting argument as `Full`;
  the signals of Timepix3 have no depth of their own and lean on that of the pixels),
  that each hit discarded lies before the end of an event (`DroppedInv`), hence before
  those that follow it (`InLineInv`), and that without a definer nothing is discarded
  (`AloneInv`). `AskedInv` keeps the loaders from making an event of their own between
  those of a definer.

### Reconstruction

`ReconstructionProofs` and `TrackingProofs` are about every set of chains that the
assumptions allow, not the 58 of the run: any matrix, cuts, tracks, clusters and triggers,
and any number of events.
`ChainsAssumption`, `DUTAssumption`, `DeadtimeAssumption`, `TimingAssumption`,
`PairsAssumption`, `WordsAssumption`, `ScopeAssumption`, `FilesAssumption`,
`SearchAssumption`, `FitAssumption`, `ArmsAssumption` and `ClusteringAssumption` (an event has
finitely many pixels) type the configurations and the objects (the detectors of a telescope have different names, and an arm may be listed).
They say that the objects an event has on the clipboard are of its time, as
event building leaves them, and how the devices send (below). `LoopInv` is common to all:
each place of the event loop (`at`) belongs to a kind of chain (`Placed`), and the chain
that is run is one of those given (`Configured`), so that only the steps of its own
modules change its state.

- `AssociationCorrect` (`AssociationClosest`): `DUTInv` says of every track that its
  clusters are within the cuts and none of them is nearer than the closest one,
  `AllAssociated` that a track has all clusters within the cuts once it was looked at, and
  none before. The loop over the clusters is a fold: `AddClusterCloses` is its step
  (`Associable` the invariant of the loop), `LeftFold` the induction.
- `AnalysesCorrect` (`AnalysesAgree`) has four parts. `CutFlowBalances` is inductive
  given `DUTPlaces` (a step looks at a track that exists) and `DUTCounts` (every
  histogram entered is booked and holds a natural number): a step enters for its track one
  cause of the cut flow and the maps that belong to it, which is shown by counting
  names in the sequences of entries (`EfficiencyFills`, `DUTTrackFills`).
  `ResidualFlowBalances` says the same of `AnalysisDUT`: the six bins a track may end in
  (`DUTBins`) add up to the tracks it looked at, and those without a cluster are among
  those that passed (`ResidualStep`). `SameTracks` is not
  inductive, since one analysis has finished an event when the other begins it:
  `SameTracksAhead` says that the one is ahead by the tracks of this event that pass
  (`PassedTracks`, a finite set that grows with each track), and that both selections are
  the same though their cuts come in another order (`SameSelection`). `DeadTimeRespected`
  rests on `PassageInv`, on `DeadtimeHistory`, which says that `last_timestamp` is the latest
  trigger of all earlier events (hence whatever trigger a track was dead after, the test
  of the code against the latest one finds it, since triggers are of their own event),
  and on `DeadtimeCounts`, the balance of the maps track by track.
- `HistoryCorrect` (`HistoryFromEarlierEvents`): `HitHistory` says that `prev_hit_ts` is
  before the start of the event while tracks are looked at, and before its end when its
  own clusters have been entered (`ClusterTimes`).
- `CorrectionsCorrect` (`CorrectionsApplied`) has two parts. `TimingInv` says that every
  pixel of a cluster is moved by as many times its corrections as tracks have used the
  cluster (`Uses`, a finite set that grows with each track, `UsesGrow`), and that the
  cluster has the time of its earliest pixel (`TimedRight`). A track uses what it would have
  used without corrections (`UsedGiven`), since none of the cuts looks at what they
  change. For Prealignment, `SumShifted` gives the sum of residuals that are moved by the
  mean, by induction over the set of terms, and division leaves less than one bin each.
- `TimesCorrect` (`TimesDecoded`): `Timepix3Inv` and `ATLASpixInv` relate the registers of
  the loader to the clock of the device, up to a multiple of the width of each counter
  (`HeartbeatFound`, `TriggersCounted`, `WordsOf`); whatever words are lost, the last bits
  of a time that is near a known one say which it is (`PeriodFound`, `ReadoutNear`, `HitNear`).
  For the oscilloscope, `LoaderRight` says that the next trigger is ahead of the file or is
  the one the last event ended with, that the triggers of later events are not behind it
  (`NoneBehind`; a record is given up by its time only if it is less than a spacing
  away from the event), and that it is out of step only after the end of a block.
  Hence a trigger is skipped only in dead time, and `PassedStored` has all others. The
  numbers of lost words and triggers are free. `WordsAssumption` bounds how far a pixel, a
  readout and a hit lag, which is the range the loaders decode, and the pace of the
  FPGA; `ScopeAssumption` says that events do not overlap, that a record follows each of
  the first triggers, and that the clocks drift by less than the spacing of triggers.
- `FilesCorrect` (`FilesKept`): `FileRight` says that every branch of the file has one entry
  for each event, empty for those before its first objects, and that a class has a tree
  as soon as it has a branch, whatever the order trees are made in; what a later run reads
  follows from it. `FilesAssumption` says that where there are objects of a class there is
  an entry (it may be empty) for the classes they refer to. `MaskInv` says that a masked
  pixel has no hits and is in the mask map from the first event on, so that the file
  has it; nothing is assumed on the matrix or the mask file.

- `TracksCorrect` (`TracksSound`): `Tracking4DInv` and `MultipletInv` rest on the search both
  modules share. `SearchRight` says that a candidate has clusters of the detectors
  searched, none of a plane that is still to be searched, and that the pair of reference
  clusters of the next candidate is new, so that no two tracks of a search are the same
  (`FoundRight`, `PairsRight`, `CandidateRight`). The loops that erase from a list are
  folds: `EraseKeeps` says that of tracks that share a cluster the first, which is the
  best, is kept, `LeavesIsolated` that erasing from the last to the first moves no tracklet
  that is still to be looked at. With arms, `TrackletsRight` and `SideRight` say that a tracklet
  that was matched has left its list, hence is used once, and `ArmSides` that its clusters are
  on its side of the scatterer. The attempt to prove that no two tracks share a
  cluster failed for seeds of one detector: such a track may have two clusters of it, of
  which `EraseDuplicated` compares the first. `BestTracksKept` says it of two detectors for the seed.
- `BookedCorrect` (`BookedBeforeFilled`): each module enters only names it has booked under
  the same parameters, shown action by action (`ClusteringBooked`, `Tracking4DBooked`,
  `MultipletBooked`, `TimingBooked`, `PairsBooked`, `FilterBooked`, and `DUTCounts` and
  `DeadtimeCounts` from above). The names depend on data: a tracklet fills the residuals
  of the detectors its clusters are of, so `TrackletsRight` is needed; a cluster has pixels that
  are of the event (`MadePixels`, for which the folds of the flood and of the loop over
  4D seeds are typed: `SweepType`, `Cluster4DType`), and the row of a seed has a number
  that was booked (`RowNames`).

`DUTCorrect` is the conjunction of the invariants of a chain with a DUT.

### Only model-checked

- All liveness properties: fairness and ENABLED are out of the prover's reach.
- `NoLateData` for the loader of EUDAQ2 files and for `EventLoaderTimestamp` behind
  `EventDefinitionM26`. It holds for the chains of the run and not for every chain the
  assumptions allow; TLC shows three that break it. With `inclusive` off, frames [1, 10]
  and [2, 3] and events of length 5: the first frame ends event [0, 5], the second one,
  inside that event, is discarded in the next. And when the files of
  `EventDefinitionM26` end, the last event is made by `EventLoaderTimestamp`, around its
  first trigger: with a long `event_length` it reaches back over a trigger
  discarded before. In a file that mixes frames with and without times, a frame with a
  time adds the trigger of one without that was discarded before it.
- The other properties of section 7. `ReadWriteStable` and `ConfigurationKept` are about
  what a parser computes from every text, `ClustersAreComponents` about a loop over a
  list that shrinks, compared with a definition by paths; they need induction over data at
  every level.

## 10. Not modelled

- `AlignmentMillepede`, the track fits, rotations of detectors, `EtaCalculation` and
  `EtaCorrection`: numerical; where a modelled module calls them their outcome is any.
- The other loaders (`CLICpix2`, `Timepix1`, `EUDAQ`, `Waveform` and
  the like): they read one frame per event or compare as the modelled ones do. The
  contents of the records of `EventLoaderFASTPIX`, their histograms and tags.
- `ImproveReferenceTimestamp`, `MaskCreatorTimepix3` (it talks to a device), the other
  analyses and the online monitor: they fill histograms from the same collections.
- The writers of text, JSON and trees of the DUT: they only write.
- Logging other than its mutex, units and the parsing of numbers, ROOT directories.
- In the pool the registry of thread numbers; in the alignment the selection of tracks;
  in event building the end of a run by a loader, after which data that was read but
  not looked at again is nobody's (the list of section 6).
