\* Any client, pipe and fork may fail.
SPECIFICATION SafetySpec
CONSTANTS
    Threads = {t1, t2}
    MaxProcess = 2
    MaxRuns = 3
    Polite = FALSE
    Failing <- AllFailing
SYMMETRY Symmetry
INVARIANTS
    TypeOK
    ClaimExclusive
