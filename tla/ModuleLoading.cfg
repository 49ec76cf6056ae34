SPECIFICATION Spec
CONSTANTS
    Absent = Absent
    DetectorFiles <- Files
    Sections <- MainSections
    Library <- MainLibrary
    MaxSections = 3
INVARIANTS HighestPriorityKept OrderFollowsSections EveryDetectorServed
CHECK_DEADLOCK FALSE
