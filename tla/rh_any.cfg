\* Clients of every kind: the buffers.
SPECIFICATION SafetySpec
CONSTANTS
    Workers = {w1, w2}
    MaxConns = 3
    MaxFd = 2
    BufLen = 2
    Chunks = 1
    Impolite <- AllImpolite
SYMMETRY Symmetry
INVARIANTS
    TypeOK
    ScanSucceeds
    SlotExclusive
    DanglingOnlyAfterMisbehaviour
