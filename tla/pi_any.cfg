\* Two workers, programs that end.
SPECIFICATION EndingSpec
CONSTANTS
    Threads = {t1, t2}
    MaxRuns = 2
INVARIANTS
    LeakNeedsOverlap
    LeakInv
PROPERTIES
    EndedIsReclaimed
\* All runs may be over.
CHECK_DEADLOCK FALSE
