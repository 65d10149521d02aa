\* Two workers, two programs.
SPECIFICATION Spec
CONSTANTS
    Threads = {t1, t2}
    MaxRuns = 2
INVARIANT
    PipesPrivate
CHECK_DEADLOCK FALSE
