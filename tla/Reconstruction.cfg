SPECIFICATION Spec
CONSTANTS
    Unit = 4
    TimeUnit = 2
    MaxEvents = 3
    MaxRuns = 2
    Chains <- AllChains
INVARIANTS ClustersAreComponents TracksSound BookedBeforeFilled AssociationClosest AnalysesAgree
INVARIANTS FilesKept ConfigurationKept CorrectionsApplied TimesDecoded
PROPERTIES HistoryFromEarlierEvents ReadWriteStable
CHECK_DEADLOCK FALSE
