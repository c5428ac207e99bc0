SPECIFICATION FairSpec
CONSTANTS
    T1 = T1
    T2 = T2
    T3 = T3
    Threads <- ThreeThreads
    NoThread = NoThread
    Modes = {TRUE, FALSE}
    MaxChanges = 3
    MaxCrashes = 1
    MaxFailures = 1
    Unreadable = FALSE
INVARIANTS LossIsRecent CleanMeansSaved ReturnMeansSaved
PROPERTIES DiskNeverBack ImplementsPromise EventuallySaved
