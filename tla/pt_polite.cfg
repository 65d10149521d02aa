\* Clients that use the ids they got, one call at a time.
SPECIFICATION Spec
CONSTANTS
    Threads = {t1, t2}
    MaxProcess = 2
    MaxRuns = 3
    Polite = TRUE
    Failing <- NoFailing
INVARIANTS
    ChildHasSlot
    SlotHasOwner
    ActsOnOwnProcess
    
    OnlySigpipe
PROPERTIES
    CallsReturn
