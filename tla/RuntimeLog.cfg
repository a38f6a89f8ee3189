SPECIFICATION Spec
CONSTANTS
    Procs = {transferFile}
    MaxFileLines = 1
    RetainDays = 1
    SuffixLimit = 6
    LastDay = 2
    MaxPrinted = 4
    MaxCrashes = 1
INVARIANTS
    RotatedInOrder
    FilesByDay
PROPERTIES
    KeepsHistory
