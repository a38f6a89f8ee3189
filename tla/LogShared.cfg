SPECIFICATION Spec
CONSTANTS
    Procs = {transferFile, platform_sim}
    MaxFileLines = 1
    RetainDays = 0
    SuffixLimit = 6
    LastDay = 0
    MaxPrinted = 3
    MaxCrashes = 0
PROPERTIES
    KeepsHistory
