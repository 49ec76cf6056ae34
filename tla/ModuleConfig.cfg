SPECIFICATION Spec
CONSTANTS
    Absent = Absent
    DetectorFiles <- Files
    Sections <- MainSections
    Library <- MainLibrary
    MaxSections = 2
INVARIANTS ConfigAlive
CHECK_DEADLOCK FALSE
